--------------------------- MODULE MCConversions ---------------------------
(***************************************************************************)
(* Small texts, questions and configurations.                              *)
(***************************************************************************)
EXTENDS Conversions, TLC

TextsUpTo(n, alphabet) == UNION {[1..k -> alphabet] : k \in 0..n}

\* Responses of up to seven characters, for chunks of three bytes.
SmallResponses ==
  {r \in TextsUpTo(7, {Letter, Accented, Break}) \cup TextsUpTo(5, {Letter, Blank, Break}) :
     r # <<>> /\ Trim(r) = r}

\* One question, two, and so many options that a number has two digits.
SmallQuestions == {<<2>>, <<2, 3>>, <<4, 4, 4>>}

SmallMessages ==
  {MediaOnly} \cup TextsUpTo(2, {1, 2, Letter, Blank}) \cup {<<1, Blank, 3>>, <<0, 2, Letter>>}

SmallConfigs ==
  [aliases : UNION {[names -> ChatIds] : names \in SUBSET Names},
   sendTo : {refs \in SUBSET Refs : \A a, b, c \in refs : a = b \/ b = c \/ a = c},
   readFrom : {{}} \cup {{ref} : ref \in Refs},
   pollSecs : {0, 50, 51}, parentExists : BOOLEAN, token : {"env", "inline", "none"},
   variableSet : BOOLEAN, updater : BOOLEAN]
=============================================================================
