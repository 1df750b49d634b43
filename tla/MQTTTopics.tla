----------------------------- MODULE MQTTTopics -----------------------------
(***************************************************************************)
(* Topic filters (mqtt/MQTTClient.c, isTopicMatched and the test of        *)
(* deliverMessage), character by character as the code compares them, and  *)
(* level by level as MQTT 3.1.1, section 4.7, has it.                      *)
(***************************************************************************)
EXTENDS Integers, Sequences, FiniteSets

\* Every other value of an s[i] is an ordinary character.
Separator == "/"
SingleLevel == "+"
MultiLevel == "#"

Separators(s) == {i \in 1..Len(s) : s[i] = Separator}

\* the last place of the level in which i lies
LevelEnd(n, i) ==
    CHOOSE k \in i..Len(n) : /\ \A j \in i+1..k : n[j] # Separator
                             /\ k = Len(n) \/ n[k+1] = Separator

\* a '+' that stops at the first character
Round_Fault(f, n, i, j) ==
    IF \/ j \in {0, Len(n) + 1}
       \/ f[i] \notin {SingleLevel, MultiLevel, n[j]}
    THEN 0
    ELSE (IF f[i] = MultiLevel THEN Len(n) ELSE j) + 1

\* without the test for a separator in the name
Round_Separator_Fault(f, n, i, j) ==
    IF \/ j \in {0, Len(n) + 1}
       \/ f[i] \notin {SingleLevel, MultiLevel, n[j]}
    THEN 0
    ELSE (CASE f[i] = SingleLevel -> LevelEnd(n, j)
            [] f[i] = MultiLevel -> Len(n)
            [] OTHER -> j) + 1

\* A round of the loop of isTopicMatched with curf at i and curn at j: where curn
\* is after it, or 0 if the loop is left before the end of the filter.
Round(f, n, i, j) ==
    IF \/ j \in {0, Len(n) + 1}
       \/ n[j] = Separator /\ f[i] # Separator
       \/ f[i] \notin {SingleLevel, MultiLevel, n[j]}
    THEN 0
    ELSE (CASE f[i] = SingleLevel -> LevelEnd(n, j)
            [] f[i] = MultiLevel -> Len(n)
            [] OTHER -> j) + 1

\* where curn is when curf comes to i
Curn(f, n) ==
    LET at[i \in 1..Len(f)+1] == IF i = 1 THEN 1 ELSE Round(f, n, i-1, at[i-1])
    IN  at

isTopicMatched(f, n) == Curn(f, n)[Len(f)+1] = Len(n) + 1

\* deliverMessage calls the handler of a slot with this filter
Selected(f, n) == f = n \/ isTopicMatched(f, n)

-----------------------------------------------------------------------------
\* The levels of a name or filter, between the separators.
Bounds(s) == {0, Len(s) + 1} \cup Separators(s)
Level(s, k) ==
    LET from == CHOOSE b \in Bounds(s) : Cardinality({c \in Bounds(s) : c < b}) = k - 1
        to == CHOOSE b \in Bounds(s) : Cardinality({c \in Bounds(s) : c < b}) = k
    IN  SubSeq(s, from + 1, to - 1)
LevelCount(s) == Cardinality(Bounds(s)) - 1

LevelMatches(f, n, k) == Level(f, k) \in {<<SingleLevel>>, Level(n, k)}

\* MQTT 3.1.1, 4.7.1: '#' stands for any number of levels, none included, and
\* '+' for exactly one level, an empty one included.
Matches(f, n) ==
    LET last == LevelCount(f)
    IN  IF Level(f, last) = <<MultiLevel>>
        THEN /\ last - 1 <= LevelCount(n)
             /\ \A k \in 1..last-1 : LevelMatches(f, n, k)
        ELSE /\ last = LevelCount(n)
             /\ \A k \in 1..last : LevelMatches(f, n, k)

\* What the comment above isTopicMatched assumes: '#' only at the end, '+' and
\* '#' only next to a separator.
WellFormed(f) ==
    \A i \in 1..Len(f) :
        /\ f[i] = MultiLevel => i = Len(f)
        /\ f[i] \in {SingleLevel, MultiLevel} =>
              /\ i = 1 \/ f[i-1] = Separator
              /\ i = Len(f) \/ f[i+1] = Separator

NoEmptyLevel(n) == \A k \in 1..LevelCount(n) : Level(n, k) # <<>>

\* the one level a trailing '#' stands for when it stands for none
ParentOf(f, n) == Level(f, LevelCount(f)) = <<MultiLevel>>
                  /\ LevelCount(n) = LevelCount(f) - 1
=============================================================================
