------------------------------ MODULE WordCount ------------------------------
(***************************************************************************)
(* The word count that driver.c builds on the channel: dividefile cuts the *)
(* input between mapper threads, each mapper sends "<word> 1" for every    *)
(* word of its part, one Reducer adds up what it receives until the string *)
(* "splmsg" arrives.  In the parallel form (test_correctness, custom_eval)  *)
(* main joins the mappers and then sends "splmsg" itself; in the serial    *)
(* form (serialize) main maps the whole input, which must contain the word *)
(* "splmsg", and then reduces.                                             *)
(*                                                                         *)
(* A text is a sequence of characters.  The channel is the atomic one of   *)
(* module Channel, which BufferChannel implements.                         *)
(***************************************************************************)
EXTENDS Integers, Sequences, SequencesExt, FiniteSets, Functions, TLC

CONSTANTS
  Texts,          (* the inputs of the parallel form                       *)
  SerialTexts,    (* the inputs of the serial form                         *)
  MapperCounts,   (* the values of threadCount and gMapperThreads          *)
  Size,           (* bytes of the channel                                  *)
  Special         (* a character that stands for the string "splmsg"       *)

ASSUME TextAssumption ==
  /\ Texts \cup SerialTexts \subseteq Seq(STRING)
  /\ MapperCounts \subseteq Nat \ {0}

VARIABLES
  text,           (* the input file                                        *)
  serial,         (* the form: serialize, or mapper threads                *)
  unsent,         (* unsent[m]: the words mapper m has still to send       *)
  queue,          (* the messages in the channel                           *)
  isopen,         (* state_t.isopen                                        *)
  reducer,        (* "waiting" to start, "reducing" or "done"              *)
  counts,         (* the Reducer's tree: key to value                      *)
  main            (* "mapping", "ending", "joining" the reducer or "done"  *)

vars == <<text, serial, unsent, queue, isopen, reducer, counts, main>>

Space == " "
Punctuation == {".", ","}
Lower(c) == IF c = "A" THEN "a" ELSE IF c = "B" THEN "b" ELSE c

(* fscanf " %s", over and over: after each character, the words read and   *)
(* the one begun, which a space or the end of the file completes.          *)
Begun(c, reading) ==
  IF c # Space THEN [reading EXCEPT !.word = Append(@, c)]
  ELSE IF reading.word = <<>> THEN reading
  ELSE [words |-> Append(reading.words, reading.word), word |-> <<>>]

ReadingOf(chars) ==
  LET after[i \in 0 .. Len(chars)] ==
        IF i = 0 THEN [words |-> <<>>, word |-> <<>>] ELSE Begun(chars[i], after[i - 1])
  IN  after

WordsOf(chars) == Begun(Space, ReadingOf(chars)[Len(chars)]).words

(* reformat_string: punctuation dropped, the rest in lower case. *)
Reformat(word) ==
  LET letters == SelectSeq(word, LAMBDA c : c \notin Punctuation)
  IN  [i \in DOMAIN letters |-> Lower(letters[i])]

-----------------------------------------------------------------------------
(* dividefile: every part but the last takes sz / num characters and then  *)
(* goes on to the next separator, which it drops; the last part starts     *)
(* with the separator read last.                                           *)

(* Mutant: a part stops after its sz / num characters. *)
PartEndExact(chars, share, from) ==
  IF from + share <= Len(chars) THEN from + share ELSE Len(chars) + 1

PartEnd(chars, share, from) ==
  LET ends == {i \in DOMAIN chars : i >= from + share /\ chars[i] = Space}
  IN  IF ends = {} THEN Len(chars) + 1
      ELSE CHOOSE i \in ends : \A j \in ends : i <= j

PartEnds(chars, num) ==
  LET endOf[i \in 0 .. num - 1] ==
        IF i = 0 THEN 0 ELSE PartEnd(chars, Len(chars) \div num, endOf[i - 1] + 1)
  IN  endOf

Divide(chars, num) ==
  LET endOf == PartEnds(chars, num)
      part(i) == SubSeq(chars, endOf[i - 1] + 1, endOf[i] - 1)
      last == IF endOf[num - 1] = 0 THEN 1 ELSE endOf[num - 1]
  IN  [i \in 1..num |-> IF i < num THEN part(i) ELSE SubSeq(chars, last, Len(chars))]

-----------------------------------------------------------------------------
(* wordcount sends the bare key for the word "splmsg", "<key> 1" otherwise. *)
SpecialKey == <<Special>>

(* Mutant: "splmsg" is sent with a count as every other word. *)
MessageForAlike(word) ==
  IF Reformat(word) = SpecialKey THEN SpecialKey \o <<"1">> ELSE Reformat(word)

MessageFor(word) == Reformat(word)
FrameLen(key) == 4 + Len(key) + (IF key = SpecialKey THEN 1 ELSE 3)
UsedBytes == FoldLeft(LAMBDA used, key : used + FrameLen(key), 0, queue)
Fits(key) == UsedBytes + FrameLen(key) < Size

Mappers == DOMAIN unsent

Init ==
  /\ serial \in BOOLEAN
  /\ text \in IF serial THEN SerialTexts ELSE Texts
  /\ \E num \in IF serial THEN {1} ELSE MapperCounts :
       unsent = [m \in 1..num |-> WordsOf(Divide(text, num)[m])]
  /\ queue = <<>>
  /\ isopen = TRUE
  /\ reducer = IF serial THEN "waiting" ELSE "reducing"
  /\ counts = <<>>
  /\ main = "mapping"

SendWord(m) ==
  /\ unsent[m] # <<>>
  /\ LET key == MessageFor(Head(unsent[m])) IN Fits(key) /\ queue' = Append(queue, key)
  /\ unsent' = [unsent EXCEPT ![m] = Tail(@)]
  /\ UNCHANGED <<text, serial, isopen, reducer, counts, main>>

(* strtok skips the leading blank of the message " 1" that a word without  *)
(* letters leaves: its key is then "1" and, with no value behind it, -1.    *)
Parsed(key) == IF key = <<>> THEN [key |-> <<"1">>, value |-> -1]
                             ELSE [key |-> key, value |-> 1]

(* Mutant: a key that is found again is set, not increased. *)
AddSet(tree, entry) == (entry.key :> entry.value) @@ tree

Add(tree, entry) ==
  IF entry.key \in DOMAIN tree
  THEN [tree EXCEPT ![entry.key] = @ + entry.value]
  ELSE [key \in DOMAIN tree \cup {entry.key} |->
          IF key = entry.key THEN entry.value ELSE tree[key]]

Reduce ==
  /\ reducer = "reducing"
  /\ queue # <<>>
  /\ queue' = Tail(queue)
  /\ IF Head(queue) = SpecialKey
     THEN reducer' = "done" /\ UNCHANGED counts
     ELSE counts' = Add(counts, Parsed(Head(queue))) /\ UNCHANGED reducer
  /\ UNCHANGED <<text, serial, unsent, isopen, main>>

(* pthread_join of every mapper. *)
JoinMappers ==
  /\ main = "mapping" /\ ~serial
  /\ \A m \in Mappers : unsent[m] = <<>>
  /\ main' = "ending"
  /\ UNCHANGED <<text, serial, unsent, queue, isopen, reducer, counts>>

(* serialize: wordcount has returned, main itself is the Reducer now. *)
ReduceSerially ==
  /\ main = "mapping" /\ serial
  /\ \A m \in Mappers : unsent[m] = <<>>
  /\ main' = "joining"
  /\ reducer' = "reducing"
  /\ UNCHANGED <<text, serial, unsent, queue, isopen, counts>>

SendSpecial ==
  /\ main = "ending"
  /\ Fits(SpecialKey)
  /\ queue' = Append(queue, SpecialKey)
  /\ main' = "joining"
  /\ UNCHANGED <<text, serial, unsent, isopen, reducer, counts>>

(* pthread_join of the reducer, buffer_close and buffer_destroy. *)
Finish ==
  /\ main = "joining"
  /\ reducer = "done"
  /\ main' = "done"
  /\ isopen' = FALSE
  /\ UNCHANGED <<text, serial, unsent, queue, reducer, counts>>

Next ==
  \/ \E m \in Mappers : SendWord(m)
  \/ Reduce \/ JoinMappers \/ ReduceSerially \/ SendSpecial \/ Finish

Fairness ==
  /\ \A m \in 1 .. Max(MapperCounts \cup {1}) : WF_vars(m \in Mappers /\ SendWord(m))
  /\ WF_vars(Reduce) /\ WF_vars(JoinMappers) /\ WF_vars(ReduceSerially)
  /\ WF_vars(SendSpecial) /\ WF_vars(Finish)

Spec == Init /\ [][Next]_vars /\ Fairness

-----------------------------------------------------------------------------
(* The key of each word of a sequence, and how often a key occurs. *)
KeysOf(words) == [i \in DOMAIN words |-> Reformat(words[i])]
Occurrences(keys, key) == Cardinality({i \in DOMAIN keys : keys[i] = key})
Keys == KeysOf(WordsOf(text))

(* The keys before the first "splmsg". *)
KeysToCount ==
  LET specials == {i \in DOMAIN Keys : Keys[i] = SpecialKey}
  IN  IF specials = {} THEN Keys
      ELSE SubSeq(Keys, 1, (CHOOSE i \in specials : \A j \in specials : i <= j) - 1)

NoBareWord == <<>> \notin Range(Keys)

(* In the parallel form main says when the input ends (driver.c:639-641,    *)
(* 687-689): input.txt does not hold the word, testinput.txt must.         *)
ASSUME NoSpecialInTexts ==
  \A chars \in Texts : SpecialKey \notin Range(KeysOf(WordsOf(chars)))

(* The output is the number of times each word occurs in the input: no     *)
(* word is cut or lost between two parts of the file (dividefile), lost    *)
(* because splmsg overtakes it, or counted twice.  Words of punctuation    *)
(* only are excluded: they are counted against "1" (driver.c:972-976).     *)
CountsCorrect ==
  main = "done" /\ NoBareWord =>
    counts = [key \in Range(KeysToCount) |-> Occurrences(KeysToCount, key)]

(* What is counted, in the channel and still to be sent is the input, at   *)
(* every moment and whatever the order in which mappers and reducer run.   *)
Counted(key) == IF key \in DOMAIN counts THEN counts[key] ELSE 0
OccursUpTo(parts, key) ==
  LET upTo[m \in 0 .. Len(parts)] ==
        IF m = 0 THEN 0 ELSE upTo[m - 1] + Occurrences(KeysOf(parts[m]), key)
  IN  upTo
Unsent(key) == OccursUpTo(unsent, key)[Len(unsent)]
NoWordLost ==
  NoBareWord => \A key \in Range(Keys) \ {SpecialKey} :
    Counted(key) + Occurrences(queue, key) + Unsent(key) = Occurrences(Keys, key)

(* serialize sends every frame before it receives one, so all of them have  *)
(* to be in the buffer at once, and one must be "splmsg".                   *)
AllBytes == FoldLeft(LAMBDA used, key : used + FrameLen(key), 0, Keys)
SerialFits == AllBytes < Size /\ SpecialKey \in Range(Keys)

(* The program ends: the channel does not leave mappers, main and reducer  *)
(* waiting for each other, unless serialize is given too much input or one *)
(* without "splmsg", and then it never ends.                               *)
PipelineEnds ==
  /\ (serial => SerialFits) => <>(main = "done")
  /\ (serial /\ ~SerialFits) => [](main # "done")
=============================================================================
