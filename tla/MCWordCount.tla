---------------------------- MODULE MCWordCount ----------------------------
(* WordCount on every text of five characters over a letter, a capital, a   *)
(* full stop and a space, which up to three mappers share.  Serial texts    *)
(* may lack "splmsg", go on behind it, or need more than the buffer.        *)
EXTENDS WordCount

MCTexts == [1..5 -> {"a", "B", ".", " "}] \cup [1..6 -> {"a", " "}]
Short == [1..4 -> {"a", "B", " "}]
MCSerialTexts ==
  Short \cup {t \o <<" ", Special>> : t \in Short \cup [1..6 -> {"a", " "}]}
    \cup {t \o <<" ", Special, " ", "a">> : t \in [1..3 -> {"a", " "}]}
=============================================================================
