-------------------------------- MODULE Texts --------------------------------
(***************************************************************************)
(* What the providers' validation sees of a text.  A text stands for all   *)
(* texts that have the same of the peculiarities some check looks for; an  *)
(* ordinary text has none of them.                                         *)
(***************************************************************************)
Ordinary == {}
Absent == {"empty"}

Given(text) == "empty" \notin text
Free(text, peculiarities) == text \intersect peculiarities = {}
=============================================================================
