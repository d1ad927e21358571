-------------------------------- MODULE KBest --------------------------------
(***************************************************************************)
(* The K-best measurement of fcyc.c (fsec and fcyc differ in the clock):   *)
(* samples are taken until the K shortest agree within EPSILON or          *)
(* MAXSAMPLES have been taken; the shortest is the result.                 *)
(***************************************************************************)
EXTENDS Integers, Sequences, SequencesExt, FiniteSets

CONSTANTS
  K, MAXSAMPLES,
  EPSILON,        (* the tolerance, in percent                             *)
  Times           (* what the clock may measure, 0 included                *)

ASSUME SamplerAssumption ==
  K \in Nat \ {0} /\ MAXSAMPLES \in Nat \ {0} /\ EPSILON \in Nat /\ Times \subseteq Nat

VARIABLES
  values,         (* the K shortest samples so far, in order               *)
  samples,        (* all of them, in the order taken                       *)
  result          (* what fsec returns; 0 before                           *)

sampleVars == <<values, samples, result>>
samplecount == Len(samples)

SamplerInit == values = <<>> /\ samples = <<>> /\ result = 0

(* val behind the values that are not greater: the insertion sort. *)
Inserted(s, val) ==
  InsertAt(s, Cardinality({i \in DOMAIN s : s[i] <= val}) + 1, val)

(* Mutant: a full array takes every sample in place of its last. *)
AddSampleAlways(val) ==
  /\ samples' = Append(samples, val)
  /\ values' = IF samplecount < K THEN Inserted(values, val) ELSE Inserted(Front(values), val)

AddSample(val) ==
  /\ samples' = Append(samples, val)
  /\ values' = IF samplecount < K THEN Inserted(values, val)
               ELSE IF val < Last(values) THEN Inserted(Front(values), val)
               ELSE values

HasConverged(s, count) == count >= K /\ (100 + EPSILON) * s[1] >= 100 * s[K]

(* One round of the loop; a time the clock could not resolve is dropped.    *)
Sample ==
  /\ result = 0
  /\ \E sec \in Times :
       \/ /\ sec = 0
          /\ UNCHANGED <<values, samples>>
       \/ sec > 0 /\ AddSample(sec)
  /\ result' = IF HasConverged(values', Len(samples')) \/ Len(samples') >= MAXSAMPLES
               THEN values'[1] ELSE 0

(* s is sorted, and it holds samples none of which is longer than one it    *)
(* does not hold: value i is sample place[i].                               *)
Sorted(s) == \A i, j \in DOMAIN s : i <= j => s[i] <= s[j]
TakesShortest(s, place) ==
  /\ \A i \in DOMAIN s : s[i] = samples[place[i]]
  /\ \A j \in DOMAIN samples \ Range(place) : \A i \in DOMAIN s : s[i] <= samples[j]

(* The array holds the K shortest samples in order, and what is returned is *)
(* the shortest time ever measured.                                         *)
Shortest(s) == \A j \in DOMAIN samples : s <= samples[j]
BestSamples ==
  /\ Len(values) = IF samplecount < K THEN samplecount ELSE K
  /\ Sorted(values)
  /\ \E place \in Injection(DOMAIN values, DOMAIN samples) : TakesShortest(values, place)
  /\ result # 0 => Shortest(result)
=============================================================================
