--------------------------- MODULE SigarCalls_proofs ---------------------------
(***************************************************************************)
(* No call of the library stores a row behind the end of its list, for any *)
(* size of the lists' chunks and any number of turns of the loops.         *)
(*                                                                         *)
(* A call is a program of steps. A program fits when something can be said *)
(* of every place of it (the room there is in a list) that is so wherever  *)
(* the call can come from, and enough where a row is stored. The first     *)
(* part shows that the ways in which programs are combined keep this, the  *)
(* second that all programs fit, the third that a machine that runs such   *)
(* programs keeps what is said of them. The last part says in the same way *)
(* what becomes of the resources that programs take and the fields they    *)
(* keep, and how the ways in which programs are combined move them.        *)
(***************************************************************************)
EXTENDS SigarCalls, TLAPS

(***************************************************************************)
(* What is known, at a place in a program, of the room in a list that is   *)
(* there: that a row fits, that all the rows counted fit, or one more.     *)
(***************************************************************************)
Level(kind, l) == [kind |-> kind, of |-> l]
None == Level("none", "none")
Room(l) == Level("room", l)
Counted(l) == Level("counted", l)
Spare(l) == Level("spare", l)

Implies(a, b) == \/ b.kind = "none"
                 \/ a = b
                 \/ a.kind = "spare" /\ b.kind \in {"room", "counted"} /\ b.of = a.of

Lists == {"list", "fslist"}

\* What a step leaves known when the next one follows.
After(do, r, a) ==
  CASE do \in {"grow", "new_list"} -> Room(r)
    [] do = "new_counted" -> Counted(r)
    [] do = "put" -> IF a.kind = "spare" THEN Counted(r) ELSE None
    [] do = "each" -> IF a.kind = "counted" THEN Spare(a.of) ELSE None
    [] do = "count" \/ (do \in {"open", "take"} /\ r \in Lists \cup {a.of}) -> None
    [] OTHER -> a

\* What a step that names no resource names.
Nothing == ""

Ends == {"jump", "refuse"}
Branches == {"jump", "fork", "loop", "each", "if_kept"}

\* The step at i in a program of n steps is right about what is known: a row is
\* stored where one fits, and what is known holds wherever the call goes on.
Right(st, i, n, known) ==
  /\ st.do = "put" => known[i].kind \in {"room", "spare"} /\ known[i].of = st.res
  /\ st.do \in Ends \cup Branches \cup {"new_handle"} => st.res # "list"
  /\ st.do \notin Ends => Implies(After(st.do, st.res, known[i]), known[i + 1])
  /\ st.do \in Branches => i + st.next \in 1..n+1 /\ Implies(known[i], known[i + st.next])
  /\ st.fail # 0 => i + st.fail \in 1..n+1 /\ Implies(known[i], known[i + st.fail])

StepsOver(V) == [do : V, res : V, undo : V, next : Int, fail : Int]
IsSteps(s) == \E V : s \in Seq(StepsOver(V))
RightFrom(s, o, n, known) == \A i \in 1..Len(s) : Right(s[i], o + i, n, known)

\* From a known at their start, the steps never store a row too many: b is known
\* when they end, and c wherever one of them may fail.
FitsIn(s, a, b, c) ==
  /\ IsSteps(s)
  /\ \E known : /\ RightFrom(s, 0, Len(s), known)
                /\ Implies(a, known[1]) /\ Implies(known[Len(s) + 1], b)
                /\ \A i \in 1..Len(s) : Implies(known[i], c)

Fits(s, a, b) == FitsIn(s, a, b, None)
Safe(s) == Fits(s, None, None)

\* What is known may be weakened in several steps.
LEMMA ImpliesTrans ==
    ASSUME NEW a, NEW b, NEW c, Implies(a, b), Implies(b, c)
    PROVE  Implies(a, c)
  BY DEF Implies

LEMMA ImpliesNone == \A a : Implies(a, None) /\ Implies(a, a)
  BY DEF None, Level, Implies

\* Less may be known before a program, and asked for behind it.
LEMMA FitsWeaker ==
    ASSUME NEW s, NEW a, NEW b, NEW c, NEW d, Fits(s, a, b), Implies(c, a), Implies(b, d)
    PROVE  Fits(s, c, d)
  BY ImpliesTrans DEF Fits, FitsIn

LEMMA StepsOverMore ==
    ASSUME NEW V, NEW U, V \subseteq U
    PROVE  \A st \in StepsOver(V) : st \in StepsOver(U) /\ st.next \in Int /\ st.fail \in Int
  BY DEF StepsOver

\* The numbers of a program: its length, and where its steps may go on.
LEMMA StepsAre ==
    ASSUME NEW s, IsSteps(s)
    PROVE  /\ Len(s) \in Nat
           /\ \A i \in 1..Len(s) : s[i].next \in Int /\ s[i].fail \in Int
  <1>1. PICK V : s \in Seq(StepsOver(V))
    BY DEF IsSteps
  <1>2. \A i \in 1..Len(s) : s[i] \in StepsOver(V)
    BY <1>1
  <1>3. QED BY <1>1, <1>2, StepsOverMore

\* A step that stands for the step i of s, at o + i among n: what is known there
\* is what s knows, or weaker where s ends; the failures may go elsewhere.
LEMMA RightElsewhere ==
    ASSUME NEW s, IsSteps(s), NEW known1, RightFrom(s, 0, Len(s), known1),
           NEW n \in Nat, NEW o \in Nat, o + Len(s) <= n, NEW known,
           \A k \in 1..Len(s) : known[o + k] = known1[k],
           Implies(known1[Len(s) + 1], known[o + Len(s) + 1]),
           NEW i \in 1..Len(s), NEW st,
           st.do = s[i].do, st.res = s[i].res, st.next = s[i].next,
           \/ st.fail = s[i].fail
           \/ o + i + st.fail \in 1..n+1 /\ Implies(known1[i], known[o + i + st.fail])
    PROVE  Right(st, o + i, n, known)
  <1>1. /\ Right(s[i], i, Len(s), known1)
        /\ Len(s) \in Nat /\ s[i].next \in Int /\ s[i].fail \in Int
    BY StepsAre DEF RightFrom
  <1>2. known[o + i] = known1[i]
    OBVIOUS
  <1>3. \A k \in 1..Len(s)+1 : \A a : Implies(a, known1[k]) => Implies(a, known[o + k])
    <2>1. SUFFICES ASSUME NEW k \in 1..Len(s)+1, NEW a, Implies(a, known1[k])
                   PROVE  Implies(a, known[o + k])
      OBVIOUS
    <2>2. CASE k = Len(s) + 1
      <3>1. o + k = o + Len(s) + 1
        BY <1>1, <2>2
      <3>2. QED BY <2>1, <2>2, <3>1, ImpliesTrans
    <2>3. CASE k # Len(s) + 1
      BY <1>1, <2>1, <2>3
    <2>4. QED BY <2>2, <2>3
  <1>4. After(st.do, st.res, known[o + i]) = After(s[i].do, s[i].res, known1[i])
    BY <1>2 DEF After
  <1>5. ASSUME NEW j \in Int, NEW a, i + j \in 1..Len(s)+1, Implies(a, known1[i + j])
        PROVE  o + i + j \in 1..n+1 /\ Implies(a, known[o + i + j])
    <2>1. o + (i + j) = o + i + j
      BY <1>1
    <2>2. QED BY <1>1, <1>3, <1>5, <2>1
  <1>6. st.do \notin Ends => Implies(After(st.do, st.res, known[o + i]), known[o + i + 1])
    <2>1. 1 \in Int /\ i + 1 \in 1..Len(s)+1
      BY <1>1
    <2>2. \A a : Implies(a, known1[i + 1]) => Implies(a, known[o + i + 1])
      BY <1>5, <2>1
    <2>3. QED BY <1>1, <1>4, <2>2 DEF Right
  <1>7. st.do \in Branches =>
          o + i + st.next \in 1..n+1 /\ Implies(known[o + i], known[o + i + st.next])
    BY <1>1, <1>2, <1>5 DEF Right
  <1>8. st.fail # 0 => o + i + st.fail \in 1..n+1 /\ Implies(known[o + i], known[o + i + st.fail])
    BY <1>1, <1>2, <1>5 DEF Right
  <1>9. QED BY <1>1, <1>2, <1>6, <1>7, <1>8 DEF Right

\* A program that is right stays so as a part of a longer one.
LEMMA RightPlaced ==
    ASSUME NEW s, IsSteps(s), NEW known1, RightFrom(s, 0, Len(s), known1),
           NEW n \in Nat, NEW o \in Nat, o + Len(s) <= n, NEW known,
           \A k \in 1..Len(s) : known[o + k] = known1[k],
           Implies(known1[Len(s) + 1], known[o + Len(s) + 1])
    PROVE  RightFrom(s, o, n, known)
  <1>1. SUFFICES ASSUME NEW i \in 1..Len(s) PROVE Right(s[i], o + i, n, known)
    BY DEF RightFrom
  <1>2. QED BY RightElsewhere

\* Two programs, one behind the other.
LEMMA IsStepsJoin ==
    ASSUME NEW s, NEW t, IsSteps(s), IsSteps(t)
    PROVE  /\ IsSteps(s \o t) /\ Len(s \o t) = Len(s) + Len(t)
           /\ \A i \in 1..Len(s) : (s \o t)[i] = s[i]
           /\ \A i \in 1..Len(t) : (s \o t)[Len(s) + i] = t[i]
  <1>1. PICK V : s \in Seq(StepsOver(V))
    BY DEF IsSteps
  <1>2. PICK W : t \in Seq(StepsOver(W))
    BY DEF IsSteps
  <1>3. PICK R : R = StepsOver(V \cup W)
    OBVIOUS
  <1>4. \A st : st \in StepsOver(V) \/ st \in StepsOver(W) => st \in R
    BY <1>3, StepsOverMore
  <1>5. s \in Seq(R) /\ t \in Seq(R)
    BY <1>1, <1>2, <1>4
  <1>6. s \o t \in Seq(R)
    BY <1>5
  <1>7. IsSteps(s \o t)
    BY <1>3, <1>6 DEF IsSteps
  <1>8. QED BY <1>5, <1>7

LEMMA RightJoin ==
    ASSUME NEW s, NEW t, IsSteps(s), IsSteps(t), NEW o \in Nat, NEW p, p = o + Len(s),
           NEW n, NEW known,
           RightFrom(s, o, n, known), RightFrom(t, p, n, known)
    PROVE  /\ RightFrom(s \o t, o, n, known)
           /\ IsSteps(s \o t) /\ Len(s \o t) = Len(s) + Len(t)
  <1>1. Len(s) \in Nat /\ Len(t) \in Nat
    BY StepsAre
  <1> SUFFICES RightFrom(s \o t, o, n, known)
    BY IsStepsJoin
  <1>2. SUFFICES ASSUME NEW i \in 1..Len(s \o t) PROVE Right((s \o t)[i], o + i, n, known)
    BY DEF RightFrom
  <1>3. CASE i <= Len(s)
    BY <1>1, <1>3, IsStepsJoin DEF RightFrom
  <1>4. CASE i > Len(s)
    <2>1. PICK j \in 1..Len(t) : i = Len(s) + j
      <3>1. i - Len(s) \in 1..Len(t) /\ i = Len(s) + (i - Len(s))
        BY <1>1, <1>2, <1>4, IsStepsJoin
      <3>2. QED BY <3>1
    <2>2. (s \o t)[i] = t[j] /\ o + i = o + Len(s) + j
      BY <1>1, <2>1, IsStepsJoin
    <2>3. QED BY <2>2 DEF RightFrom
  <1>5. QED BY <1>1, <1>3, <1>4

\* What is known behind the first of two programs is known before the second.
LEMMA FitsInSeq ==
    ASSUME NEW s, NEW t, NEW a, NEW b, NEW c, NEW d, FitsIn(s, a, b, d), FitsIn(t, b, c, d)
    PROVE  FitsIn(s \o t, a, c, d)
  <1>1. PICK known1 : /\ RightFrom(s, 0, Len(s), known1)
                      /\ Implies(a, known1[1]) /\ Implies(known1[Len(s) + 1], b)
                      /\ \A i \in 1..Len(s) : Implies(known1[i], d)
    BY DEF FitsIn
  <1>2. PICK known2 : /\ RightFrom(t, 0, Len(t), known2)
                      /\ Implies(b, known2[1]) /\ Implies(known2[Len(t) + 1], c)
                      /\ \A i \in 1..Len(t) : Implies(known2[i], d)
    BY DEF FitsIn
  <1>3. IsSteps(s) /\ IsSteps(t) /\ Len(s) \in Nat /\ Len(t) \in Nat
    BY StepsAre DEF FitsIn
  <1>4. PICK n \in Nat : n = Len(s) + Len(t)
    BY <1>3
  <1>5. PICK known : known = [i \in 1..n+1 |-> IF i <= Len(s) THEN known1[i]
                                                              ELSE known2[i - Len(s)]]
    OBVIOUS
  <1>6. \A i \in 1..Len(s) : known[i] = known1[i] /\ known[0 + i] = known1[i]
    BY <1>3, <1>4, <1>5
  <1>7. \A i \in 1..Len(t)+1 : known[Len(s) + i] = known2[i]
    BY <1>3, <1>4, <1>5
  <1>8. Implies(known1[Len(s) + 1], known[0 + Len(s) + 1])
    <2>1. known[Len(s) + 1] = known2[1]
      BY <1>3, <1>7
    <2>2. Implies(known1[Len(s) + 1], known2[1])
      BY <1>1, <1>2, ImpliesTrans
    <2>3. QED BY <1>3, <2>1, <2>2
  <1>9. known[Len(s) + Len(t) + 1] = known2[Len(t) + 1]
    <2>1. known[Len(s) + (Len(t) + 1)] = known2[Len(t) + 1]
      BY <1>3, <1>7
    <2>2. QED BY <1>3, <2>1
  <1>10. RightFrom(s, 0, n, known)
    <2>1. 0 \in Nat /\ 0 + Len(s) <= n
      BY <1>3, <1>4
    <2>2. QED BY <1>1, <1>3, <1>6, <1>8, <2>1, RightPlaced
  <1>11. RightFrom(t, Len(s), n, known)
    <2>1. Len(s) + Len(t) <= n
      BY <1>3, <1>4
    <2>2. Implies(known2[Len(t) + 1], known[Len(s) + Len(t) + 1])
      BY <1>9, ImpliesNone
    <2>3. \A k \in 1..Len(t) : known[Len(s) + k] = known2[k]
      BY <1>3, <1>7
    <2>4. QED BY <1>2, <1>3, <2>1, <2>2, <2>3, RightPlaced
  <1>12. RightFrom(s \o t, 0, n, known)
    <2>1. 0 + Len(s) = Len(s)
      BY <1>3
    <2>2. QED BY <1>3, <1>10, <1>11, <2>1, RightJoin
  <1>13. Implies(a, known[1])
    <2>1. CASE Len(s) = 0
      BY <1>1, <1>8, <2>1, ImpliesTrans
    <2>2. CASE Len(s) # 0
      BY <1>1, <1>3, <1>6, <2>2
    <2>3. QED BY <2>1, <2>2
  <1>14. \A i \in 1..n : Implies(known[i], d)
    <2>1. ASSUME NEW i \in 1..n, i > Len(s) PROVE Implies(known[i], d)
      <3>1. i - Len(s) \in 1..Len(t) /\ known[i] = known2[i - Len(s)]
        BY <1>3, <1>4, <1>5, <2>1
      <3>2. QED BY <1>2, <3>1
    <2>2. QED BY <1>1, <1>3, <1>4, <1>6, <2>1
  <1>15. IsSteps(s \o t) /\ Len(s \o t) = n
    BY <1>3, <1>4, IsStepsJoin
  <1>16. Implies(known[n + 1], c)
    BY <1>2, <1>4, <1>9
  <1>17. QED BY <1>12, <1>13, <1>14, <1>15, <1>16 DEF FitsIn

\* The program of a single step.
LEMMA StepIs ==
    ASSUME NEW do, NEW r, NEW undo, NEW next \in Int
    PROVE  /\ IsSteps(Step(do, r, undo, next)) /\ Len(Step(do, r, undo, next)) = 1
           /\ Step(do, r, undo, next)[1]
                = [do |-> do, res |-> r, undo |-> undo, next |-> next, fail |-> 0]
  <1>1. [do |-> do, res |-> r, undo |-> undo, next |-> next, fail |-> 0]
          \in StepsOver({do, r, undo})
    BY DEF StepsOver
  <1>2. QED BY <1>1 DEF Step, IsSteps

LEMMA RightStep ==
    ASSUME NEW do, NEW r, NEW undo, NEW next \in Int, NEW o \in Nat, NEW n \in Nat, NEW known,
           Right([do |-> do, res |-> r, undo |-> undo, next |-> next, fail |-> 0], o + 1, n, known)
    PROVE  RightFrom(Step(do, r, undo, next), o, n, known)
  BY StepIs DEF RightFrom

\* A single step that neither jumps nor ends the call.
LEMMA FitsStep ==
    ASSUME NEW do, NEW r, NEW undo, NEW a, NEW b,
           do \notin Branches \cup Ends, do = "new_handle" => r # "list",
           do = "put" => a.kind \in {"room", "spare"} /\ a.of = r,
           Implies(After(do, r, a), b)
    PROVE  FitsIn(Step(do, r, undo, 1), a, b, a)
  <1>1. PICK known : known = [i \in 1..2 |-> IF i = 1 THEN a ELSE b]
    OBVIOUS
  <1>2. known[1] = a /\ known[2] = b
    BY <1>1
  <1>3. Right([do |-> do, res |-> r, undo |-> undo, next |-> 1, fail |-> 0], 1, 1, known)
    BY <1>2 DEF Right
  <1>4. RightFrom(Step(do, r, undo, 1), 0, 1, known)
    BY <1>3, RightStep
  <1>5. \A i \in 1..1 : Implies(known[i], a)
    BY <1>2, ImpliesNone
  <1>6. Implies(a, known[1]) /\ Implies(known[1 + 1], b)
    BY <1>2, ImpliesNone
  <1>7. IsSteps(Step(do, r, undo, 1)) /\ Len(Step(do, r, undo, 1)) = 1
    <2>1. \A n \in Int : IsSteps(Step(do, r, undo, n)) /\ Len(Step(do, r, undo, n)) = 1
      BY StepIs
    <2>2. QED BY <2>1
  <1>8. PICK s : s = Step(do, r, undo, 1)
    OBVIOUS
  <1>9. /\ IsSteps(s) /\ RightFrom(s, 0, Len(s), known)
        /\ Implies(a, known[1]) /\ Implies(known[Len(s) + 1], b)
        /\ \A i \in 1..Len(s) : Implies(known[i], a)
    BY ONLY <1>4, <1>5, <1>6, <1>7, <1>8
  <1>10. QED BY <1>8, <1>9 DEF FitsIn

LEMMA FitsEmpty == \A a : FitsIn(<<>>, a, a, a)
  <1>1. TAKE a
  <1>2. PICK known : known = [i \in 1..1 |-> a]
    OBVIOUS
  <1>3. <<>> \in Seq(StepsOver({})) /\ Len(<<>>) = 0
    OBVIOUS
  <1>4. known[1] = a /\ Implies(a, a)
    BY <1>2, ImpliesNone
  <1>5. RightFrom(<<>>, 0, 0, known) /\ IsSteps(<<>>)
    BY <1>3 DEF RightFrom, IsSteps
  <1>6. Implies(known[0 + 1], a) /\ \A i \in 1..0 : Implies(known[i], a)
    BY <1>4
  <1>7. QED BY <1>3, <1>4, <1>5, <1>6 DEF FitsIn

\* A program that fits, taken apart and put together.
LEMMA FitsAre ==
    ASSUME NEW s, NEW a, NEW b, Fits(s, a, b)
    PROVE  /\ IsSteps(s) /\ Len(s) \in Nat
           /\ \E known : /\ RightFrom(s, 0, Len(s), known)
                         /\ Implies(a, known[1]) /\ Implies(known[Len(s) + 1], b)
  BY StepsAre DEF Fits, FitsIn

LEMMA FitsShown ==
    ASSUME NEW s, IsSteps(s), NEW a, NEW b, NEW known, RightFrom(s, 0, Len(s), known),
           Implies(a, known[1]), Implies(known[Len(s) + 1], b)
    PROVE  Fits(s, a, b)
  BY ImpliesNone DEF Fits, FitsIn

\* The resource of a step that has none is not a list.
LEMMA NothingIs == Nothing # "list"
  BY Zenon DEF Nothing

\* The steps that name no resource, with Nothing for it.
LEMMA JumpIs == \A n : Jump(n) = Step("jump", Nothing, {}, n)
  BY Zenon DEF Nothing, Jump

LEMMA MaybeIs == \A s : Maybe(s) = Step("fork", Nothing, {}, Len(s) + 1) \o s
  BY Zenon DEF Nothing, Maybe

\* A part that may be left out has to leave what is known before it.
LEMMA FitsMaybe ==
    ASSUME NEW s, NEW a, NEW b, Fits(s, a, b), Implies(a, b)
    PROVE  Fits(Maybe(s), a, b)
  <1>1. PICK known1 : /\ RightFrom(s, 0, Len(s), known1)
                      /\ Implies(a, known1[1]) /\ Implies(known1[Len(s) + 1], b)
    BY FitsAre
  <1>2. IsSteps(s) /\ Len(s) \in Nat
    BY FitsAre
  <1>3. PICK m \in Nat : m = Len(s)
    BY <1>2
  <1>4. PICK known : known = [i \in 1..m+2 |->
          IF i = 1 THEN a ELSE IF i <= m + 1 THEN known1[i - 1] ELSE b]
    OBVIOUS
  <1>5. /\ known[1] = a /\ known[m + 2] = b
        /\ \A k \in 1..m : known[1 + k] = known1[k]
    BY <1>3, <1>4
  <1>6. Implies(a, known[2])
    <2>1. CASE m = 0
      BY <1>1, <1>3, <1>5, <2>1, ImpliesTrans
    <2>2. CASE m # 0
      BY <1>1, <1>3, <1>5, <2>2
    <2>3. QED BY <2>1, <2>2
  <1>a. PICK F : F = Step("fork", Nothing, {}, m + 1)
    OBVIOUS
  <1>7. RightFrom(F, 0, m + 1, known)
    <2>1. Right([do |-> "fork", res |-> Nothing, undo |-> {}, next |-> m + 1, fail |-> 0],
                0 + 1, m + 1, known)
      BY <1>3, <1>5, <1>6, NothingIs DEF Right, Branches, Ends, After
    <2>2. 0 \in Nat /\ m + 1 \in Nat /\ m + 1 \in Int
      BY <1>3
    <2>3. QED BY ONLY <1>a, <2>1, <2>2, RightStep
  <1>8. RightFrom(s, 1, m + 1, known)
    <2>1. Implies(known1[Len(s) + 1], known[1 + Len(s) + 1])
      <3>1. 1 + Len(s) + 1 = m + 2
        BY <1>3
      <3>2. QED BY <1>1, <1>5, <3>1
    <2>2. 1 + Len(s) <= m + 1
      BY <1>3
    <2>3. \A k \in 1..Len(s) : known[1 + k] = known1[k]
      BY <1>3, <1>5
    <2>4. 1 \in Nat /\ m + 1 \in Nat
      BY <1>3
    <2>5. QED BY <1>1, <1>2, <2>1, <2>2, <2>3, <2>4, RightPlaced
  <1>9. IsSteps(F) /\ Len(F) = 1
    <2>1. m + 1 \in Int
      BY <1>3
    <2>2. QED BY <1>a, <2>1, StepIs
  <1>10. /\ RightFrom(F \o s, 0, m + 1, known)
         /\ IsSteps(F \o s) /\ Len(F \o s) = m + 1
    <2>1. 1 = 0 + Len(F) /\ 0 \in Nat
      BY <1>9
    <2>2. Len(F) + Len(s) = m + 1
      BY <1>3, <1>9
    <2>3. QED BY ONLY <1>2, <1>7, <1>8, <1>9, <2>1, <2>2, RightJoin
  <1>11. Fits(F \o s, a, b)
    <2>1. Implies(a, known[1]) /\ Implies(known[m + 1 + 1], b)
      <3>1. m + 1 + 1 = m + 2
        OBVIOUS
      <3>2. QED BY <1>5, <3>1, ImpliesNone
    <2>2. QED BY <1>10, <2>1, FitsShown
  <1>12. QED BY <1>3, <1>a, <1>11, MaybeIs

\* A loop: what is known before its test is known again behind a turn.
LEMMA FitsLoop ==
    ASSUME NEW do, do = "loop" \/ do = "each", NEW s, NEW a, NEW b, Fits(s, b, a),
           Implies(After(do, Nothing, a), b)
    PROVE  Fits(Step(do, Nothing, {}, Len(s) + 2) \o s \o Jump(-(Len(s) + 1)), a, a)
  <1>1. PICK known1 : /\ RightFrom(s, 0, Len(s), known1)
                      /\ Implies(b, known1[1]) /\ Implies(known1[Len(s) + 1], a)
    BY FitsAre
  <1>2. IsSteps(s) /\ Len(s) \in Nat
    BY FitsAre
  <1>3. PICK m \in Nat : m = Len(s)
    BY <1>2
  <1>4. PICK known : known = [i \in 1..m+3 |->
          IF i = 1 THEN a ELSE IF i <= m + 1 THEN known1[i - 1] ELSE a]
    OBVIOUS
  <1>5. /\ known[1] = a /\ known[m + 2] = a /\ known[m + 3] = a
        /\ \A k \in 1..m : known[1 + k] = known1[k]
    BY <1>3, <1>4
  <1>a. PICK F : F = Step(do, Nothing, {}, m + 2)
    OBVIOUS
  <1>b. PICK J : J = Step("jump", Nothing, {}, -(m + 1))
    OBVIOUS
  <1>c. /\ m + 1 \in Nat /\ m + 2 \in Nat /\ m + 2 \in Int /\ -(m + 1) \in Int
        /\ m + 2 + -(m + 1) = 1
    BY <1>3
  <1>6. Implies(After(do, Nothing, a), known[2])
    <2>1. Implies(b, known[2])
      <3>1. CASE m = 0
        BY <1>1, <1>3, <1>5, <3>1, ImpliesTrans
      <3>2. CASE m # 0
        BY <1>1, <1>5, <3>2
      <3>3. QED BY <3>1, <3>2
    <2>2. QED BY <1>3, <2>1, ImpliesTrans
  <1>7. RightFrom(F, 0, m + 2, known)
    <2>1. Right([do |-> do, res |-> Nothing, undo |-> {}, next |-> m + 2, fail |-> 0],
                0 + 1, m + 2, known)
      BY <1>5, <1>6, NothingIs, ImpliesNone DEF Right, Branches, Ends
    <2>2. QED BY <1>a, <1>c, <2>1, RightStep
  <1>8. RightFrom(s, 1, m + 2, known)
    <2>1. Implies(known1[Len(s) + 1], known[1 + Len(s) + 1])
      <3>1. 1 + Len(s) + 1 = m + 2
        BY <1>3
      <3>2. QED BY <1>1, <1>5, <3>1
    <2>2. 1 + Len(s) <= m + 2
      BY <1>3
    <2>3. \A k \in 1..Len(s) : known[1 + k] = known1[k]
      BY <1>3, <1>5
    <2>4. 1 \in Nat
      OBVIOUS
    <2>5. QED BY <1>1, <1>2, <1>c, <2>1, <2>2, <2>3, <2>4, RightPlaced
  <1>9. RightFrom(J, m + 1, m + 2, known)
    <2>1. m + 1 + 1 = m + 2
      BY <1>3
    <2>2. Right([do |-> "jump", res |-> Nothing, undo |-> {}, next |-> -(m + 1), fail |-> 0],
                m + 2, m + 2, known)
      BY <1>5, <1>c, NothingIs, ImpliesNone DEF Right, Branches, Ends
    <2>3. QED BY <1>b, <1>c, <2>1, <2>2, RightStep
  <1>10. IsSteps(F) /\ Len(F) = 1 /\ IsSteps(J) /\ Len(J) = 1
    BY <1>a, <1>b, <1>c, StepIs
  <1>11. /\ RightFrom(F \o s, 0, m + 2, known)
         /\ IsSteps(F \o s) /\ Len(F \o s) = m + 1
    <2>1. 1 = 0 + Len(F) /\ 0 \in Nat
      BY <1>10
    <2>2. Len(F) + Len(s) = m + 1
      BY <1>3, <1>10
    <2>3. QED BY ONLY <1>2, <1>7, <1>8, <1>10, <2>1, <2>2, RightJoin
  <1>12. /\ RightFrom((F \o s) \o J, 0, m + 2, known)
         /\ IsSteps((F \o s) \o J) /\ Len((F \o s) \o J) = m + 2
    <2>1. PICK G : G = F \o s
      OBVIOUS
    <2>2. m + 1 = 0 + Len(G) /\ 0 \in Nat /\ Len(G) + Len(J) = m + 2
      BY <1>3, <1>10, <1>11, <2>1
    <2>3. IsSteps(G) /\ RightFrom(G, 0, m + 2, known)
      BY <1>11, <2>1
    <2>4. /\ RightFrom(G \o J, 0, m + 2, known)
          /\ IsSteps(G \o J) /\ Len(G \o J) = Len(G) + Len(J)
      BY ONLY <1>9, <1>10, <2>2, <2>3, RightJoin
    <2>5. QED BY <2>1, <2>2, <2>4
  <1>13. Fits((F \o s) \o J, a, a)
    <2>1. Implies(a, known[1]) /\ Implies(known[m + 2 + 1], a)
      <3>1. m + 2 + 1 = m + 3
        BY <1>3
      <3>2. QED BY <1>5, <3>1, ImpliesNone
    <2>2. QED BY <1>12, <2>1, FitsShown
  <1>14. QED BY <1>3, <1>a, <1>b, <1>13, JumpIs

\* Two ways to go on: s, and then over t, or t at once.
LEMMA FitsBranch ==
    ASSUME NEW do, do = "fork" \/ do = "if_kept", NEW r, r # "list",
           NEW s, NEW t, NEW a, NEW b, Fits(s, a, b), Fits(t, a, b)
    PROVE  Fits(((Step(do, r, {}, Len(s) + 2) \o s) \o Jump(Len(t) + 1)) \o t, a, b)
  <1>1. PICK known1 : /\ RightFrom(s, 0, Len(s), known1)
                      /\ Implies(a, known1[1]) /\ Implies(known1[Len(s) + 1], b)
    BY FitsAre
  <1>2. PICK known2 : /\ RightFrom(t, 0, Len(t), known2)
                      /\ Implies(a, known2[1]) /\ Implies(known2[Len(t) + 1], b)
    BY FitsAre
  <1>3. IsSteps(s) /\ Len(s) \in Nat /\ IsSteps(t) /\ Len(t) \in Nat
    BY FitsAre
  <1>4. PICK m \in Nat : m = Len(s)
    BY <1>3
  <1>5. PICK k \in Nat : k = Len(t)
    BY <1>3
  <1>6. PICK n \in Nat : n = m + 2 + k
    OBVIOUS
  <1>7. PICK known : known = [i \in 1..n+1 |->
          IF i = 1 THEN a ELSE IF i <= m + 1 THEN known1[i - 1]
            ELSE IF i = m + 2 \/ i = n + 1 THEN b ELSE known2[i - m - 2]]
    OBVIOUS
  <1>8. /\ known[1] = a /\ known[m + 2] = b /\ known[n + 1] = b
        /\ \A i \in 1..m : known[1 + i] = known1[i]
        /\ \A i \in 1..k : known[m + 2 + i] = known2[i]
    BY <1>6, <1>7
  <1>9. Implies(a, known[2]) /\ Implies(a, known[m + 3])
    <2>1. ASSUME m = 0 PROVE Implies(a, known[2])
      BY <1>1, <1>4, <1>8, <2>1, ImpliesTrans
    <2>2. ASSUME m # 0 PROVE Implies(a, known[2])
      BY <1>1, <1>8, <2>2
    <2>3. ASSUME k = 0 PROVE Implies(a, known[m + 3])
      <3>1. m + 3 = n + 1 /\ Len(t) + 1 = 1
        BY <1>5, <1>6, <2>3
      <3>2. QED BY <1>2, <1>8, <3>1, ImpliesTrans
    <2>4. ASSUME k # 0 PROVE Implies(a, known[m + 3])
      <3>1. m + 3 = m + 2 + 1 /\ 1 \in 1..k
        BY <2>4
      <3>2. QED BY <1>2, <1>8, <3>1
    <2>5. QED BY <2>1, <2>2, <2>3, <2>4
  <1>10. PICK F : F = Step(do, r, {}, m + 2)
    OBVIOUS
  <1>11. PICK J : J = Step("jump", Nothing, {}, k + 1)
    OBVIOUS
  <1>12. m + 2 \in Int /\ k + 1 \in Int /\ m + 1 \in Nat /\ m + 2 \in Nat /\ 0 \in Nat /\ 1 \in Nat
    OBVIOUS
  <1>13. RightFrom(F, 0, n, known)
    <2>1. 1 + (m + 2) = m + 3 /\ m + 3 \in 1..n+1
      BY <1>6
    <2>2. After(do, r, a) = a
      BY DEF After
    <2>3. Right([do |-> do, res |-> r, undo |-> {}, next |-> m + 2, fail |-> 0],
                0 + 1, n, known)
      BY <1>8, <1>9, <2>1, <2>2 DEF Right, Branches, Ends
    <2>4. QED BY <1>10, <1>12, <2>3, RightStep
  <1>14. RightFrom(s, 1, n, known)
    <2>1. Implies(known1[Len(s) + 1], known[1 + Len(s) + 1])
      <3>1. 1 + Len(s) + 1 = m + 2
        BY <1>4
      <3>2. QED BY <1>1, <1>8, <3>1
    <2>2. 1 + Len(s) <= n
      BY <1>4, <1>6
    <2>3. \A i \in 1..Len(s) : known[1 + i] = known1[i]
      BY <1>4, <1>8
    <2>4. QED BY <1>1, <1>3, <1>12, <2>1, <2>2, <2>3, RightPlaced
  <1>15. RightFrom(J, m + 1, n, known)
    <2>1. m + 1 + 1 = m + 2 /\ m + 2 + (k + 1) = n + 1 /\ n + 1 \in 1..n+1
      BY <1>6
    <2>2. Right([do |-> "jump", res |-> Nothing, undo |-> {}, next |-> k + 1, fail |-> 0],
                m + 2, n, known)
      BY <1>8, <2>1, NothingIs, ImpliesNone DEF Right, Branches, Ends
    <2>3. QED BY <1>11, <1>12, <2>1, <2>2, RightStep
  <1>16. RightFrom(t, m + 2, n, known)
    <2>1. Implies(known2[Len(t) + 1], known[m + 2 + Len(t) + 1])
      <3>1. m + 2 + Len(t) + 1 = n + 1
        BY <1>5, <1>6
      <3>2. QED BY <1>2, <1>8, <3>1
    <2>2. m + 2 + Len(t) <= n
      BY <1>5, <1>6
    <2>3. \A i \in 1..Len(t) : known[m + 2 + i] = known2[i]
      BY <1>5, <1>8
    <2>4. QED BY <1>2, <1>3, <1>12, <2>1, <2>2, <2>3, RightPlaced
  <1>17. IsSteps(F) /\ Len(F) = 1 /\ IsSteps(J) /\ Len(J) = 1
    BY <1>10, <1>11, <1>12, StepIs
  <1>18. PICK G : G = F \o s
    OBVIOUS
  <1>19. RightFrom(G, 0, n, known) /\ IsSteps(G) /\ Len(G) = m + 1
    <2>1. 1 = 0 + Len(F) /\ Len(F) + Len(s) = m + 1
      BY <1>4, <1>17
    <2>2. QED BY ONLY <1>3, <1>12, <1>13, <1>14, <1>17, <1>18, <2>1, RightJoin
  <1>20. PICK H : H = G \o J
    OBVIOUS
  <1>21. RightFrom(H, 0, n, known) /\ IsSteps(H) /\ Len(H) = m + 2
    <2>1. m + 1 = 0 + Len(G) /\ Len(G) + Len(J) = m + 2
      BY <1>17, <1>19
    <2>2. QED BY ONLY <1>12, <1>15, <1>17, <1>19, <1>20, <2>1, RightJoin
  <1>22. RightFrom(H \o t, 0, n, known) /\ IsSteps(H \o t) /\ Len(H \o t) = n
    <2>1. m + 2 = 0 + Len(H) /\ Len(H) + Len(t) = n
      BY <1>5, <1>6, <1>21
    <2>2. QED BY ONLY <1>3, <1>12, <1>16, <1>21, <2>1, RightJoin
  <1>23. Fits(H \o t, a, b)
    BY <1>8, <1>22, FitsShown, ImpliesNone
  <1>24. QED BY <1>4, <1>5, <1>10, <1>11, <1>18, <1>20, <1>23, JumpIs

\* The steps of s as the ones s2 that say where a failure goes on, or as they are.
Alike(s, s2) ==
  /\ IsSteps(s2) /\ Len(s2) = Len(s)
  /\ \A i \in 1..Len(s) : s2[i].do = s[i].do /\ s2[i].res = s[i].res /\ s2[i].next = s[i].next

\* A program whose failures go on behind it, in another one.
LEMMA FitsInstead ==
    ASSUME NEW s, NEW s2, NEW t, NEW a, NEW b, NEW c, FitsIn(s, a, b, c), Fits(t, c, b),
           Alike(s, s2),
           \A i \in 1..Len(s) : s2[i].fail = s[i].fail \/ s2[i].fail = Len(s) + 2 - i
    PROVE  Fits((s2 \o Jump(Len(t) + 1)) \o t, a, b)
  <1>1. PICK known1 : /\ RightFrom(s, 0, Len(s), known1)
                      /\ Implies(a, known1[1]) /\ Implies(known1[Len(s) + 1], b)
                      /\ \A i \in 1..Len(s) : Implies(known1[i], c)
    BY DEF FitsIn
  <1>2. PICK known2 : /\ RightFrom(t, 0, Len(t), known2)
                      /\ Implies(c, known2[1]) /\ Implies(known2[Len(t) + 1], b)
    BY FitsAre
  <1>3. IsSteps(s) /\ Len(s) \in Nat /\ IsSteps(t) /\ Len(t) \in Nat /\ IsSteps(s2)
    BY FitsAre, StepsAre DEF FitsIn, Alike
  <1>4. PICK m \in Nat : m = Len(s)
    BY <1>3
  <1>5. PICK k \in Nat : k = Len(t)
    BY <1>3
  <1>6. PICK n \in Nat : n = m + 1 + k
    OBVIOUS
  <1>7. PICK known : known = [i \in 1..n+1 |->
          IF i <= m THEN known1[i]
            ELSE IF i = m + 1 \/ i = n + 1 THEN b ELSE known2[i - m - 1]]
    OBVIOUS
  <1>8. /\ known[m + 1] = b /\ known[n + 1] = b
        /\ \A i \in 1..m : known[0 + i] = known1[i] /\ known[i] = known1[i]
        /\ \A i \in 1..k : known[m + 1 + i] = known2[i]
    BY <1>6, <1>7
  <1>9. Implies(a, known[1]) /\ Implies(c, known[m + 2])
    <2>1. ASSUME m = 0 PROVE Implies(a, known[1])
      BY <1>1, <1>4, <1>8, <2>1, ImpliesTrans
    <2>2. ASSUME m # 0 PROVE Implies(a, known[1])
      BY <1>1, <1>8, <2>2
    <2>3. ASSUME k = 0 PROVE Implies(c, known[m + 2])
      <3>1. m + 2 = n + 1 /\ Len(t) + 1 = 1
        BY <1>5, <1>6, <2>3
      <3>2. QED BY <1>2, <1>8, <3>1, ImpliesTrans
    <2>4. ASSUME k # 0 PROVE Implies(c, known[m + 2])
      <3>1. m + 2 = m + 1 + 1 /\ 1 \in 1..k
        BY <2>4
      <3>2. QED BY <1>2, <1>8, <3>1
    <2>5. QED BY <2>1, <2>2, <2>3, <2>4
  <1>10. PICK J : J = Step("jump", Nothing, {}, k + 1)
    OBVIOUS
  <1>11. k + 1 \in Int /\ m + 1 \in Nat /\ 0 \in Nat
    OBVIOUS
  <1>12. RightFrom(s2, 0, n, known)
    <2>1. Implies(known1[Len(s) + 1], known[0 + Len(s) + 1])
      <3>1. 0 + Len(s) + 1 = m + 1
        BY <1>4
      <3>2. QED BY <1>1, <1>8, <3>1
    <2>2. 0 + Len(s) <= n /\ \A i \in 1..Len(s) : known[0 + i] = known1[i]
      BY <1>4, <1>6, <1>8
    <2>3. ASSUME NEW i \in 1..Len(s) PROVE Right(s2[i], 0 + i, n, known)
      <3>1. s2[i].do = s[i].do /\ s2[i].res = s[i].res /\ s2[i].next = s[i].next
        BY DEF Alike
      <3>2. \/ s2[i].fail = s[i].fail
            \/ 0 + i + s2[i].fail \in 1..n+1 /\ Implies(known1[i], known[0 + i + s2[i].fail])
        <4>1. CASE s2[i].fail = Len(s) + 2 - i
          <5>1. 0 + i + s2[i].fail = m + 2 /\ m + 2 \in 1..n+1
            BY <1>4, <1>6, <4>1
          <5>2. Implies(known1[i], known[m + 2])
            BY <1>1, <1>9, ImpliesTrans
          <5>3. QED BY <5>1, <5>2
        <4>2. QED BY <4>1
      <3>3. QED BY <1>1, <1>3, <1>11, <2>1, <2>2, <3>1, <3>2, RightElsewhere
    <2>4. QED BY <2>3 DEF RightFrom, Alike
  <1>13. RightFrom(J, m, n, known)
    <2>1. m + 1 + (k + 1) = n + 1 /\ n + 1 \in 1..n+1
      BY <1>6
    <2>2. Right([do |-> "jump", res |-> Nothing, undo |-> {}, next |-> k + 1, fail |-> 0],
                m + 1, n, known)
      BY <1>8, <2>1, NothingIs, ImpliesNone DEF Right, Branches, Ends
    <2>3. QED BY <1>10, <1>11, <2>2, RightStep
  <1>14. RightFrom(t, m + 1, n, known)
    <2>1. Implies(known2[Len(t) + 1], known[m + 1 + Len(t) + 1])
      <3>1. m + 1 + Len(t) + 1 = n + 1
        BY <1>5, <1>6
      <3>2. QED BY <1>2, <1>8, <3>1
    <2>2. m + 1 + Len(t) <= n
      BY <1>5, <1>6
    <2>3. \A i \in 1..Len(t) : known[m + 1 + i] = known2[i]
      BY <1>5, <1>8
    <2>4. QED BY <1>2, <1>3, <1>11, <2>1, <2>2, <2>3, RightPlaced
  <1>15. IsSteps(J) /\ Len(J) = 1
    BY <1>10, <1>11, StepIs
  <1>16. PICK G : G = s2 \o J
    OBVIOUS
  <1>17. RightFrom(G, 0, n, known) /\ IsSteps(G) /\ Len(G) = m + 1
    <2>1. m = 0 + Len(s2) /\ Len(s2) + Len(J) = m + 1
      BY <1>4, <1>15 DEF Alike
    <2>2. QED BY ONLY <1>3, <1>11, <1>12, <1>13, <1>15, <1>16, <2>1, RightJoin
  <1>18. RightFrom(G \o t, 0, n, known) /\ IsSteps(G \o t) /\ Len(G \o t) = n
    <2>1. m + 1 = 0 + Len(G) /\ Len(G) + Len(t) = n
      BY <1>5, <1>6, <1>17
    <2>2. QED BY ONLY <1>3, <1>11, <1>14, <1>17, <2>1, RightJoin
  <1>19. Fits(G \o t, a, b)
    BY <1>8, <1>9, <1>18, FitsShown, ImpliesNone
  <1>20. QED BY <1>5, <1>10, <1>16, <1>19, JumpIs

\* Only what a step frees when it fails differs.
LEMMA FitsAlike ==
    ASSUME NEW s, NEW s2, NEW a, NEW b, Fits(s, a, b), Alike(s, s2),
           \A i \in 1..Len(s) : s2[i].fail = s[i].fail
    PROVE  Fits(s2, a, b)
  <1>1. PICK known : /\ RightFrom(s, 0, Len(s), known)
                     /\ Implies(a, known[1]) /\ Implies(known[Len(s) + 1], b)
    BY FitsAre
  <1>2. RightFrom(s2, 0, Len(s2), known)
    BY <1>1 DEF RightFrom, Right, Alike
  <1>3. QED BY <1>1, <1>2, FitsShown DEF Alike

\* The branches of the models, as the two ways to go on.
LEMMA FitsIfKept ==
    ASSUME NEW f, f # "list", NEW s, NEW t, NEW a, NEW b, Fits(s, a, b), Fits(t, a, b)
    PROVE  Fits(IfKept(f, s, t), a, b)
  BY FitsBranch DEF IfKept

LEMMA FitsEither ==
    ASSUME NEW s, NEW t, NEW a, NEW b, Fits(s, a, b), Fits(t, a, b)
    PROVE  Fits(Either(s, t), a, b)
  <1>1. IsSteps(s) /\ Len(s) \in Nat /\ IsSteps(t) /\ Len(t) \in Nat
    BY FitsAre
  <1>2. PICK J : J = Jump(Len(t) + 1)
    OBVIOUS
  <1>3. IsSteps(J) /\ Len(J) = 1
    <2>1. PICK n \in Int : n = Len(t) + 1
      BY <1>1
    <2>2. J = Step("jump", Nothing, {}, n)
      BY <1>2, <2>1, JumpIs
    <2>3. QED BY <2>2, StepIs
  <1>4. Len(s \o J) + 1 = Len(s) + 2
    <2>1. Len(s \o J) = Len(s) + Len(J)
      BY ONLY <1>1, <1>3, IsStepsJoin
    <2>2. QED BY <1>1, <1>3, <2>1
  <1>5. PICK F : F = Step("fork", Nothing, {}, Len(s) + 2)
    OBVIOUS
  <1>6. IsSteps(F)
    <2>1. PICK n \in Int : n = Len(s) + 2
      BY <1>1
    <2>2. QED BY <1>5, <2>1, StepIs
  <1>7. F \o (s \o J) = (F \o s) \o J
    <2>1. PICK V : F \in Seq(StepsOver(V))
      BY <1>6 DEF IsSteps
    <2>2. PICK W : s \in Seq(StepsOver(W))
      BY <1>1 DEF IsSteps
    <2>3. PICK X : J \in Seq(StepsOver(X))
      BY <1>3 DEF IsSteps
    <2>4. PICK R : R = StepsOver(V) \cup StepsOver(W) \cup StepsOver(X)
      OBVIOUS
    <2>5. F \in Seq(R) /\ s \in Seq(R) /\ J \in Seq(R)
      BY <2>1, <2>2, <2>3, <2>4
    <2>6. QED BY <2>5
  <1>8. Fits(((F \o s) \o J) \o t, a, b)
    BY <1>2, <1>5, FitsBranch, NothingIs
  <1>9. Maybe(s \o J) = (F \o s) \o J
    BY <1>4, <1>5, <1>7, MaybeIs
  <1>10. Either(s, t) = ((F \o s) \o J) \o t
    BY <1>2, <1>9 DEF Either
  <1>11. QED BY <1>8, <1>10

LEMMA LoopIs ==
    \A s : /\ Loop(s) = (Step("loop", Nothing, {}, Len(s) + 2) \o s) \o Jump(-(Len(s) + 1))
          /\ EachCounted(s)
               = (Step("each", Nothing, {}, Len(s) + 2) \o s) \o Jump(-(Len(s) + 1))
  BY Zenon DEF Nothing, Loop, EachCounted

\* The loops of the models; a turn of a counted one uses up a row.
LEMMA FitsLoops ==
    /\ \A s, a : Fits(s, a, a) => Fits(Loop(s), a, a)
    /\ \A s : Fits(s, None, None) => Fits(EachCounted(s), None, None)
    /\ \A s, l : Fits(s, Spare(l), Counted(l)) => Fits(EachCounted(s), Counted(l), Counted(l))
  <1>1. ASSUME NEW s, NEW a, Fits(s, a, a) PROVE Fits(Loop(s), a, a)
    <2>1. Implies(After("loop", Nothing, a), a)
      BY ImpliesNone DEF After
    <2>2. QED BY <1>1, <2>1, FitsLoop, LoopIs
  <1>2. ASSUME NEW s, Fits(s, None, None) PROVE Fits(EachCounted(s), None, None)
    <2>1. Implies(After("each", Nothing, None), None)
      BY ImpliesNone
    <2>2. QED BY <1>2, <2>1, FitsLoop, LoopIs
  <1>3. ASSUME NEW s, NEW l, Fits(s, Spare(l), Counted(l))
        PROVE  Fits(EachCounted(s), Counted(l), Counted(l))
    <2>1. After("each", Nothing, Counted(l)) = Spare(l)
      BY DEF After, Counted, Spare, Level
    <2>2. Implies(After("each", Nothing, Counted(l)), Spare(l))
      BY <2>1, ImpliesNone
    <2>3. QED BY <1>3, <2>2, FitsLoop, LoopIs
  <1>4. QED BY <1>1, <1>2, <1>3

\* The fields of the steps of a program, and programs from such fields.
LEMMA FieldsOf ==
    ASSUME NEW s, IsSteps(s)
    PROVE  /\ DOMAIN s = 1..Len(s)
           /\ \E V : \A i \in 1..Len(s) : s[i] \in StepsOver(V)
  <1>1. PICK V : s \in Seq(StepsOver(V))
    BY DEF IsSteps
  <1>2. QED BY <1>1

LEMMA StepsShown ==
    ASSUME NEW n \in Nat, NEW V, NEW s, DOMAIN s = 1..n, s = [i \in 1..n |-> s[i]],
           \A i \in 1..n : s[i] \in StepsOver(V)
    PROVE  IsSteps(s) /\ Len(s) = n
  <1>1. s \in Seq(StepsOver(V)) /\ Len(s) = n
    OBVIOUS
  <1>2. QED BY <1>1 DEF IsSteps

\* Callers that go on, or that free more, when the callee fails.
LEMMA FitsOrElse ==
    ASSUME NEW s, NEW t, NEW a, NEW b, NEW c, FitsIn(s, a, b, c), Fits(t, c, b)
    PROVE  Fits(OrElse(s, t), a, b)
  <1>1. IsSteps(s) /\ Len(s) \in Nat
    BY StepsAre DEF FitsIn
  <1>2. PICK s2 : s2 = [i \in DOMAIN s |->
          IF s[i].fail = 0 THEN [s[i] EXCEPT !.fail = Len(s) + 2 - i] ELSE s[i]]
    OBVIOUS
  <1>3. PICK V : \A i \in 1..Len(s) : s[i] \in StepsOver(V)
    BY <1>1, FieldsOf
  <1>4. /\ DOMAIN s2 = 1..Len(s)
        /\ s2 = [i \in 1..Len(s) |-> s2[i]]
    BY <1>1, <1>2, FieldsOf
  <1>5. ASSUME NEW i \in 1..Len(s)
        PROVE  /\ s2[i] \in StepsOver(V)
               /\ s2[i].do = s[i].do /\ s2[i].res = s[i].res /\ s2[i].next = s[i].next
               /\ s2[i].fail = s[i].fail \/ s2[i].fail = Len(s) + 2 - i
    <2>1. s[i] \in StepsOver(V) /\ Len(s) + 2 - i \in Int
      BY <1>1, <1>3
    <2>2. \/ s2[i] = s[i]
          \/ s2[i] = [s[i] EXCEPT !.fail = Len(s) + 2 - i]
      BY <1>1, <1>2, FieldsOf
    <2>3. QED BY <2>1, <2>2 DEF StepsOver
  <1>6. Alike(s, s2)
    BY <1>1, <1>4, <1>5, StepsShown DEF Alike
  <1>7. Fits((s2 \o Jump(Len(t) + 1)) \o t, a, b)
    BY <1>5, <1>6, FitsInstead
  <1>8. QED BY <1>2, <1>7 DEF OrElse

LEMMA FitsWithin ==
    ASSUME NEW undo, NEW s, NEW a, NEW b, Fits(s, a, b)
    PROVE  Fits(Within(undo, s), a, b)
  <1>1. IsSteps(s) /\ Len(s) \in Nat
    BY FitsAre
  <1>2. PICK s2 : s2 = Within(undo, s)
    OBVIOUS
  <1>3. PICK V : \A i \in 1..Len(s) : s[i] \in StepsOver(V)
    BY <1>1, FieldsOf
  <1>4. PICK W : W = V \cup {u \cup undo : u \in V}
    OBVIOUS
  <1>5. /\ DOMAIN s2 = 1..Len(s)
        /\ s2 = [i \in 1..Len(s) |-> s2[i]]
    BY <1>1, <1>2, FieldsOf DEF Within
  <1>6. ASSUME NEW i \in 1..Len(s)
        PROVE  /\ s2[i] \in StepsOver(W)
               /\ s2[i].do = s[i].do /\ s2[i].res = s[i].res /\ s2[i].next = s[i].next
               /\ s2[i].fail = s[i].fail
    <2>1. s[i] \in StepsOver(V)
      BY <1>1, <1>3
    <2>2. \/ s2[i] = s[i]
          \/ s2[i] = [s[i] EXCEPT !.undo = s[i].undo \cup undo]
      BY <1>1, <1>2, FieldsOf DEF Within
    <2>3. s[i].undo \in V /\ s[i].undo \cup undo \in W
      BY <1>4, <2>1 DEF StepsOver
    <2>4. s[i] \in StepsOver(W)
      BY <1>4, <2>1, StepsOverMore
    <2>5. QED BY <2>2, <2>3, <2>4 DEF StepsOver
  <1>7. Alike(s, s2)
    BY <1>1, <1>5, <1>6, StepsShown DEF Alike
  <1>8. QED BY <1>2, <1>6, <1>7, FitsAlike

\* The same rows in another list.
Moved(a, l) == Level(a.kind, Rename(a.of, l))

LEMMA MovedKnown ==
    ASSUME NEW l \in Lists
    PROVE  /\ \A a, b : Implies(a, b) => Implies(Moved(a, l), Moved(b, l))
           /\ \A do, r, a : After(do, Rename(r, l), Moved(a, l)) = Moved(After(do, r, a), l)
           /\ Moved(None, l) = None
  <1>1. ASSUME NEW a, NEW b, Implies(a, b) PROVE Implies(Moved(a, l), Moved(b, l))
    BY <1>1 DEF Implies, Moved, Level
  <1>2. Moved(None, l) = None
    BY DEF Moved, None, Level, Rename
  <1>3. ASSUME NEW do, NEW r, NEW a
        PROVE  After(do, Rename(r, l), Moved(a, l)) = Moved(After(do, r, a), l)
    <2>1. /\ Moved(a, l).kind = a.kind /\ Moved(a, l).of = Rename(a.of, l)
          /\ Rename(r, l) \in Lists \cup {Moved(a, l).of} <=> r \in Lists \cup {a.of}
      BY DEF Moved, Level, Rename, Lists
    <2>2. /\ Moved(Room(r), l) = Room(Rename(r, l))
          /\ Moved(Counted(r), l) = Counted(Rename(r, l))
          /\ Moved(Spare(a.of), l) = Spare(Rename(a.of, l))
      BY DEF Moved, Room, Counted, Spare, Level
    <2>3. QED BY <1>2, <2>1, <2>2 DEF After
  <1>4. QED BY <1>1, <1>2, <1>3

\* The rows of a call in the list of another.
LEMMA FitsInList ==
    ASSUME NEW l \in Lists, NEW s, Safe(s)
    PROVE  Safe(InList(l, s))
  <1>1. IsSteps(s) /\ Len(s) \in Nat
    BY FitsAre DEF Safe
  <1>2. PICK known : /\ RightFrom(s, 0, Len(s), known)
                     /\ Implies(None, known[1]) /\ Implies(known[Len(s) + 1], None)
    BY FitsAre DEF Safe
  <1>3. PICK s2 : s2 = InList(l, s)
    OBVIOUS
  <1>4. PICK V : \A i \in 1..Len(s) : s[i] \in StepsOver(V)
    BY <1>1, FieldsOf
  <1>5. PICK W : W = V \cup {l} \cup {{Rename(r, l) : r \in u} : u \in V}
    OBVIOUS
  <1>6. /\ DOMAIN s2 = 1..Len(s)
        /\ s2 = [i \in 1..Len(s) |-> s2[i]]
    BY <1>1, <1>3, FieldsOf DEF InList
  <1>7. ASSUME NEW i \in 1..Len(s)
        PROVE  /\ s2[i] \in StepsOver(W)
               /\ s2[i].do = s[i].do /\ s2[i].res = Rename(s[i].res, l)
               /\ s2[i].next = s[i].next /\ s2[i].fail = s[i].fail
    <2>1. s[i] \in StepsOver(V) /\ s[i] \in StepsOver(W)
      BY <1>1, <1>4, <1>5, StepsOverMore
    <2>2. PICK u : u = {Rename(r, l) : r \in s[i].undo}
      OBVIOUS
    <2>3. s2[i] = [s[i] EXCEPT !.res = Rename(s[i].res, l), !.undo = u]
      BY <1>1, <1>3, <2>2, FieldsOf DEF InList
    <2>4. Rename(s[i].res, l) \in W /\ u \in W
      BY <1>5, <2>1, <2>2 DEF StepsOver, Rename
    <2>5. QED BY <2>1, <2>3, <2>4 DEF StepsOver
  <1>8. IsSteps(s2) /\ Len(s2) = Len(s)
    BY <1>1, <1>6, <1>7, StepsShown
  <1>9. PICK known2 : known2 = [i \in 1..Len(s)+1 |-> Moved(known[i], l)]
    OBVIOUS
  <1>10. ASSUME NEW i \in 1..Len(s) PROVE Right(s2[i], i, Len(s), known2)
    <2>1. Right(s[i], 0 + i, Len(s), known)
      BY <1>2 DEF RightFrom
    <2>2. Right(s[i], i, Len(s), known)
      BY <2>1
    <2>3. \A j \in 1..Len(s)+1 : known2[j] = Moved(known[j], l)
      BY <1>9
    <2>4. i + 1 \in 1..Len(s)+1 /\ i \in 1..Len(s)+1
      BY <1>1
    <2>5. s[i].do = "put" => known2[i].kind \in {"room", "spare"}
                               /\ known2[i].of = Rename(s[i].res, l)
      <3>1. known2[i].kind = known[i].kind /\ known2[i].of = Rename(known[i].of, l)
        <4>1. known2[i] = Moved(known[i], l)
          BY <2>3, <2>4
        <4>2. QED BY ONLY <4>1 DEF Moved, Level
      <3>2. s[i].do = "put" => known[i].kind \in {"room", "spare"} /\ known[i].of = s[i].res
        BY <2>2 DEF Right
      <3>3. QED BY <3>1, <3>2
    <2>6. s[i].do \in Ends \cup Branches \cup {"new_handle"} => Rename(s[i].res, l) # "list"
      BY <2>2 DEF Right, Rename
    <2>7. s[i].do \notin Ends =>
            Implies(After(s[i].do, Rename(s[i].res, l), known2[i]), known2[i + 1])
      BY <2>2, <2>3, <2>4, MovedKnown DEF Right
    <2>8. s[i].do \in Branches => i + s[i].next \in 1..Len(s)+1
                                   /\ Implies(known2[i], known2[i + s[i].next])
      BY <2>2, <2>3, <2>4, MovedKnown DEF Right
    <2>9. s[i].fail # 0 => i + s[i].fail \in 1..Len(s)+1
                           /\ Implies(known2[i], known2[i + s[i].fail])
      BY <2>2, <2>3, <2>4, MovedKnown DEF Right
    <2>10. QED BY <1>7, <2>5, <2>6, <2>7, <2>8, <2>9 DEF Right
  <1>11. RightFrom(s2, 0, Len(s2), known2)
    <2>1. \A i \in 1..Len(s) : 0 + i = i
      OBVIOUS
    <2>2. QED BY <1>8, <1>10, <2>1 DEF RightFrom
  <1>12. Implies(None, known2[1])
    BY <1>1, <1>2, <1>9, MovedKnown
  <1>13. QED BY <1>3, <1>8, <1>11, <1>12, FitsShown, ImpliesNone DEF Safe

\* Nothing is known of the rows of a list that is none any more.
Unlisted(a) == IF a.of = "list" THEN None ELSE a

LEMMA UnlistedKnown ==
    /\ \A a, b : Implies(a, b) => Implies(Unlisted(a), Unlisted(b))
    /\ \A do, r, a : (do = "put" => a.of = r) /\ r # "list" =>
         After(do, r, Unlisted(a)) = Unlisted(After(do, r, a))
    /\ \A do, a, b : do # "each" /\ Implies(After(do, "list", a), b) =>
         Implies(Unlisted(a), Unlisted(b))
  <1>1. ASSUME NEW a, NEW b, Implies(a, b) PROVE Implies(Unlisted(a), Unlisted(b))
    BY <1>1 DEF Implies, Unlisted, None, Level
  <1>2. ASSUME NEW do, NEW r, NEW a, do = "put" => a.of = r, r # "list"
        PROVE  After(do, r, Unlisted(a)) = Unlisted(After(do, r, a))
    BY <1>2 DEF After, Unlisted, None, Room, Counted, Spare, Level
  <1>3. ASSUME NEW do, NEW a, NEW b, do # "each", Implies(After(do, "list", a), b)
        PROVE  Implies(Unlisted(a), Unlisted(b))
    <2>1. CASE After(do, "list", a) = a
      BY <1>1, <1>3, <2>1
    <2>2. CASE After(do, "list", a) \in {Room("list"), Counted("list"), None}
      BY <1>3, <2>2 DEF Implies, Unlisted, None, Room, Counted, Level
    <2>3. QED BY <1>3, <2>1, <2>2 DEF After
  <1>4. QED BY <1>1, <1>2, <1>3

\* A call whose answer goes to a list that the handle keeps, of which no rows are counted.
LEMMA FitsOnKept ==
    ASSUME NEW f, NEW s, Safe(s)
    PROVE  Safe(OnKept(f, s))
  <1>1. IsSteps(s) /\ Len(s) \in Nat
    BY FitsAre DEF Safe
  <1>2. PICK known : /\ RightFrom(s, 0, Len(s), known)
                     /\ Implies(None, known[1]) /\ Implies(known[Len(s) + 1], None)
    BY FitsAre DEF Safe
  <1>3. PICK s2 : s2 = OnKept(f, s)
    OBVIOUS
  <1>4. PICK V : \A i \in 1..Len(s) : s[i] \in StepsOver(V)
    BY <1>1, FieldsOf
  <1>5. PICK W : W = V \cup {f, "use_kept"}
    OBVIOUS
  <1>6. /\ DOMAIN s2 = 1..Len(s)
        /\ s2 = [i \in 1..Len(s) |-> s2[i]]
    BY <1>1, <1>3, FieldsOf DEF OnKept
  <1>7. ASSUME NEW i \in 1..Len(s)
        PROVE  /\ s2[i] \in StepsOver(W)
               /\ s2[i].next = s[i].next /\ s2[i].fail = s[i].fail
               /\ s[i].res = "list" => s2[i].do = "use_kept"
               /\ s[i].res # "list" => s2[i].do = s[i].do /\ s2[i].res = s[i].res
    <2>1. s[i] \in StepsOver(W) /\ "use_kept" \in W /\ f \in W
      BY <1>1, <1>4, <1>5, StepsOverMore
    <2>2. s2[i] = IF s[i].res = "list" THEN [s[i] EXCEPT !.do = "use_kept", !.res = f] ELSE s[i]
      BY <1>1, <1>3, FieldsOf DEF OnKept
    <2>3. QED BY <2>1, <2>2 DEF StepsOver
  <1>8. IsSteps(s2) /\ Len(s2) = Len(s)
    BY <1>1, <1>6, <1>7, StepsShown
  <1>9. PICK known2 : known2 = [i \in 1..Len(s)+1 |-> Unlisted(known[i])]
    OBVIOUS
  <1>10. ASSUME NEW i \in 1..Len(s) PROVE Right(s2[i], i, Len(s), known2)
    <2>1. Right(s[i], 0 + i, Len(s), known)
      BY <1>2 DEF RightFrom
    <2>2. Right(s[i], i, Len(s), known)
      BY <2>1
    <2>3. \A j \in 1..Len(s)+1 : known2[j] = Unlisted(known[j])
      BY <1>9
    <2>4. i + 1 \in 1..Len(s)+1 /\ i \in 1..Len(s)+1
      BY <1>1
    <2>5. s[i].fail # 0 => i + s[i].fail \in 1..Len(s)+1
                           /\ Implies(known2[i], known2[i + s[i].fail])
      BY <2>2, <2>3, <2>4, UnlistedKnown DEF Right
    <2>6. CASE s[i].res = "list"
      <3>1. s[i].do \notin Ends \cup Branches
        BY <2>2, <2>6 DEF Right
      <3>2. Implies(known2[i], known2[i + 1])
        <4>1. Implies(After(s[i].do, "list", known[i]), known[i + 1]) /\ s[i].do # "each"
          BY <2>2, <2>6, <3>1 DEF Right, Branches
        <4>2. QED BY <2>3, <2>4, <4>1, UnlistedKnown
      <3>3. After("use_kept", s2[i].res, known2[i]) = known2[i]
        BY DEF After
      <3>4. QED BY <1>7, <2>5, <2>6, <3>2, <3>3 DEF Right, Ends, Branches
    <2>7. CASE s[i].res # "list"
      <3>1. s[i].do = "put" => known2[i].kind \in {"room", "spare"} /\ known2[i].of = s[i].res
        BY <2>2, <2>3, <2>4, <2>7 DEF Right, Unlisted
      <3>2. s[i].do \notin Ends => Implies(After(s[i].do, s[i].res, known2[i]), known2[i + 1])
        BY <2>2, <2>3, <2>4, <2>7, UnlistedKnown DEF Right
      <3>3. s[i].do \in Branches => i + s[i].next \in 1..Len(s)+1
                                     /\ Implies(known2[i], known2[i + s[i].next])
        BY <2>2, <2>3, <2>4, UnlistedKnown DEF Right
      <3>4. QED BY <1>7, <2>5, <2>7, <3>1, <3>2, <3>3 DEF Right
    <2>8. QED BY <2>6, <2>7
  <1>11. RightFrom(s2, 0, Len(s2), known2)
    <2>1. \A i \in 1..Len(s) : 0 + i = i
      OBVIOUS
    <2>2. QED BY <1>8, <1>10, <2>1 DEF RightFrom
  <1>12. Implies(None, known2[1])
    BY <1>1, <1>2, <1>9, UnlistedKnown DEF Unlisted, None, Level
  <1>13. QED BY <1>3, <1>8, <1>11, <1>12, FitsShown, ImpliesNone DEF Safe

\* The other steps that name no resource.
LEMMA StepsAreFor ==
    /\ \A u : AskOr(u) = Step("ask", Nothing, u, 1) /\ FailAfter(u) = Step("refuse", Nothing, u, 1)
    /\ Throws = Step("throws", Nothing, {}, 1) /\ NewHandle = Step("new_handle", Nothing, {}, 1)
    /\ Count = Step("count", Nothing, {}, 1)
  BY Zenon DEF AskOr, FailAfter, Throws, NewHandle, Count, Nothing

\* Steps that are not about rows leave known what is known.
LEMMA PlainSteps ==
    \A a, r, u :
      /\ FitsIn(Use(r), a, a, a) /\ FitsIn(Free(r), a, a, a) /\ FitsIn(FreeIf(r), a, a, a)
      /\ FitsIn(AskOr(u), a, a, a) /\ FitsIn(Throws, a, a, a) /\ FitsIn(NewHandle, a, a, a)
      /\ FitsIn(Keep(r), a, a, a) /\ FitsIn(UseKept(r), a, a, a) /\ FitsIn(Dispose(r), a, a, a)
      /\ FitsIn(Clear(r), a, a, a) /\ FitsIn(Overwrite(r), a, a, a) /\ FitsIn(Fill(r), a, a, a)
      /\ FitsIn(UseFilled(r), a, a, a)
      /\ r \notin Lists \cup {a.of} => FitsIn(OpenOr(r, u), a, a, a) /\ FitsIn(Take(r), a, a, a)
  <1>1. TAKE a, r, u
  <1>2. ASSUME NEW do, NEW x, NEW v, After(do, x, a) = a, do \notin Branches \cup Ends, do # "put",
               do = "new_handle" => x # "list"
        PROVE  FitsIn(Step(do, x, v, 1), a, a, a)
    BY <1>2, FitsStep, ImpliesNone
  <1>3. /\ FitsIn(Use(r), a, a, a) /\ FitsIn(Free(r), a, a, a) /\ FitsIn(FreeIf(r), a, a, a)
        /\ FitsIn(Keep(r), a, a, a) /\ FitsIn(UseKept(r), a, a, a) /\ FitsIn(Dispose(r), a, a, a)
    BY <1>2 DEF Use, Free, FreeIf, Keep, UseKept, Dispose, After, Branches, Ends
  <1>4. /\ FitsIn(Clear(r), a, a, a) /\ FitsIn(Overwrite(r), a, a, a) /\ FitsIn(Fill(r), a, a, a)
        /\ FitsIn(UseFilled(r), a, a, a)
    BY <1>2 DEF Clear, Overwrite, Fill, UseFilled, After, Branches, Ends
  <1>5. FitsIn(AskOr(u), a, a, a) /\ FitsIn(Throws, a, a, a) /\ FitsIn(NewHandle, a, a, a)
    BY <1>2, StepsAreFor, NothingIs DEF After, Branches, Ends
  <1>6. r \notin Lists \cup {a.of} => FitsIn(OpenOr(r, u), a, a, a) /\ FitsIn(Take(r), a, a, a)
    BY <1>2 DEF OpenOr, Take, After, Branches, Ends
  <1>7. QED BY <1>3, <1>4, <1>5, <1>6

\* Where nothing is known at a failure.
LEMMA FitsInFits ==
    \A s, a, b, c : FitsIn(s, a, b, c) => Fits(s, a, b)
  BY ImpliesNone DEF FitsIn, Fits

\* Steps about rows.
LEMMA RowSteps ==
    \A a, r, u :
      /\ Fits(OpenOr(r, u), a, None) /\ Fits(Take(r), a, None)
      /\ Fits(NewList(r), a, Room(r)) /\ Fits(Grow(r), a, Room(r))
      /\ Fits(Count, a, None) /\ Fits(NewCounted(r), a, Counted(r))
      /\ Fits(Put(r), Room(r), None) /\ Fits(Put(r), Spare(r), Counted(r))
  <1>1. TAKE a, r, u
  <1>2. ASSUME NEW do, NEW v, NEW b, NEW c, do \notin Branches \cup Ends \cup {"new_handle"},
               do = "put" => b.kind \in {"room", "spare"} /\ b.of = r,
               Implies(After(do, r, b), c)
        PROVE  Fits(Step(do, r, v, 1), b, c)
    BY <1>2, FitsStep, FitsInFits
  <1>3. Fits(OpenOr(r, u), a, None) /\ Fits(Take(r), a, None)
    BY <1>2, ImpliesNone DEF OpenOr, Take, Branches, Ends
  <1>4. Fits(NewList(r), a, Room(r)) /\ Fits(Grow(r), a, Room(r))
    BY <1>2, ImpliesNone DEF NewList, Grow, Branches, Ends, After
  <1>5. Fits(Count, a, None)
    <2>1. Implies(After("count", Nothing, a), None)
      BY ImpliesNone
    <2>2. FitsIn(Count, a, None, a)
      BY <2>1, StepsAreFor, FitsStep DEF Branches, Ends
    <2>3. QED BY <2>2, FitsInFits
  <1>6. Fits(NewCounted(r), a, Counted(r))
    BY <1>2, ImpliesNone DEF NewCounted, Branches, Ends, After
  <1>7. Fits(Put(r), Room(r), None)
    <2>1. Room(r).kind = "room" /\ Room(r).of = r
      BY DEF Room, Level
    <2>2. QED BY <1>2, <2>1, ImpliesNone DEF Put, Branches, Ends
  <1>8. Fits(Put(r), Spare(r), Counted(r))
    <2>1. Spare(r).kind = "spare" /\ Spare(r).of = r
      BY DEF Spare, Level
    <2>2. After("put", r, Spare(r)) = Counted(r)
      BY <2>1 DEF After
    <2>3. QED BY <1>2, <2>1, <2>2, ImpliesNone DEF Put, Branches, Ends
  <1>9. QED BY <1>3, <1>4, <1>5, <1>6, <1>7, <1>8

\* Behind a refusal the program may know anything.
LEMMA FitsFail == \A a, b, u : Fits(FailAfter(u), a, b)
  <1>1. TAKE a, b, u
  <1>2. PICK known : known = [i \in 1..2 |-> IF i = 1 THEN a ELSE b]
    OBVIOUS
  <1>3. known[1] = a /\ known[2] = b
    BY <1>2
  <1>4. PICK s : s = Step("refuse", Nothing, u, 1)
    OBVIOUS
  <1>5. IsSteps(s) /\ Len(s) = 1
    <2>1. \A n \in Int : /\ IsSteps(Step("refuse", Nothing, u, n))
                         /\ Len(Step("refuse", Nothing, u, n)) = 1
      BY StepIs
    <2>2. QED BY <1>4, <2>1
  <1>6. RightFrom(s, 0, 1, known)
    <2>1. Right([do |-> "refuse", res |-> Nothing, undo |-> u, next |-> 1, fail |-> 0],
                0 + 1, 1, known)
      BY NothingIs DEF Right, Branches, Ends
    <2>2. 0 \in Nat /\ 1 \in Nat /\ 1 \in Int
      OBVIOUS
    <2>3. QED BY <1>4, <2>1, <2>2, RightStep
  <1>7. Implies(a, known[1]) /\ Implies(known[1 + 1], b)
    BY <1>3, ImpliesNone
  <1>8. Fits(s, a, b)
    BY <1>5, <1>6, <1>7, FitsShown
  <1>9. QED BY <1>4, <1>8, StepsAreFor

LEMMA FitsSeq ==
    \A s, t, a, b, c : Fits(s, a, b) /\ Fits(t, b, c) => Fits(s \o t, a, c)
  BY FitsInSeq DEF Fits

(***************************************************************************)
(* Programs that know nothing of their lists at either end.                *)
(***************************************************************************)
LEMMA SafeSteps ==
    /\ Safe(Throws) /\ Safe(NewHandle) /\ Safe(Count) /\ Safe(<<>>) /\ Safe(Ask) /\ Safe(Fail)
    /\ \A r, u :
         /\ Safe(Use(r)) /\ Safe(Free(r)) /\ Safe(FreeIf(r)) /\ Safe(Open(r))
         /\ Safe(OpenOr(r, u)) /\ Safe(Take(r)) /\ Safe(AskOr(u)) /\ Safe(FailAfter(u))
         /\ Safe(Keep(r)) /\ Safe(UseKept(r)) /\ Safe(Dispose(r)) /\ Safe(Clear(r))
         /\ Safe(Overwrite(r)) /\ Safe(Fill(r)) /\ Safe(UseFilled(r))
         /\ Safe(NewList(r)) /\ Safe(Grow(r)) /\ Safe(AddTo(r))
  <1>1. \A r, u : Safe(Use(r)) /\ Safe(Free(r)) /\ Safe(FreeIf(r)) /\ Safe(AskOr(u))
                 /\ Safe(Throws) /\ Safe(NewHandle)
                 /\ Safe(Keep(r)) /\ Safe(UseKept(r)) /\ Safe(Dispose(r)) /\ Safe(Clear(r))
                 /\ Safe(Overwrite(r)) /\ Safe(Fill(r)) /\ Safe(UseFilled(r))
    BY PlainSteps, FitsInFits DEF Safe
  <1>2. \A r, u : Safe(OpenOr(r, u)) /\ Safe(Take(r)) /\ Safe(Count)
    BY RowSteps DEF Safe
  <1>3. \A r : Safe(NewList(r)) /\ Safe(Grow(r))
    BY RowSteps, FitsWeaker, ImpliesNone DEF Safe
  <1>4. \A r : Safe(AddTo(r))
    BY RowSteps, FitsSeq DEF Safe, AddTo
  <1>5. Safe(<<>>)
    BY FitsEmpty, FitsInFits DEF Safe
  <1>6. \A u : Safe(FailAfter(u))
    BY FitsFail DEF Safe
  <1>7. QED BY <1>1, <1>2, <1>3, <1>4, <1>5, <1>6 DEF Ask, Fail, Open

LEMMA SafeForms ==
    /\ \A s, t : Safe(s) /\ Safe(t) => Safe(s \o t) /\ Safe(Either(s, t)) /\ Safe(OrElse(s, t))
    /\ \A s : Safe(s) => Safe(Maybe(s)) /\ Safe(Loop(s)) /\ Safe(EachCounted(s)) /\ Safe(Try(s))
    /\ \A u, s : Safe(s) => Safe(Within(u, s))
    /\ \A f, s, t : f # "list" /\ Safe(s) /\ Safe(t) => Safe(IfKept(f, s, t))
    /\ \A f : f # "list" => Safe(FreeKept(f)) /\ Safe(KeepOnce(f))
    /\ \A f, s : Safe(s) => Safe(OnKept(f, s))
    /\ \A s : Safe(s) => Safe(InList("fslist", s))
  <1>1. \A s, t : Safe(s) /\ Safe(t) => Safe(s \o t) /\ Safe(Either(s, t)) /\ Safe(OrElse(s, t))
    <2>1. TAKE s, t
    <2>2. HAVE Safe(s) /\ Safe(t)
    <2>3. Safe(s \o t)
      BY <2>2, FitsSeq DEF Safe
    <2>4. Safe(Either(s, t))
      BY <2>2, FitsEither DEF Safe
    <2>5. Safe(OrElse(s, t))
      <3>1. FitsIn(s, None, None, None)
        BY <2>2 DEF Safe, Fits
      <3>2. QED BY <2>2, <3>1, FitsOrElse DEF Safe
    <2>6. QED BY <2>3, <2>4, <2>5
  <1>2. \A s : Safe(s) => Safe(Maybe(s)) /\ Safe(Loop(s)) /\ Safe(EachCounted(s)) /\ Safe(Try(s))
    <2>1. TAKE s
    <2>2. HAVE Safe(s)
    <2>3. Safe(Maybe(s))
      BY <2>2, FitsMaybe, ImpliesNone DEF Safe
    <2>4. Safe(Loop(s)) /\ Safe(EachCounted(s))
      BY <2>2, FitsLoops DEF Safe
    <2>5. Safe(Try(s))
      BY <1>1, <2>2, SafeSteps DEF Try
    <2>6. QED BY <2>3, <2>4, <2>5
  <1>3. \A u, s : Safe(s) => Safe(Within(u, s))
    BY FitsWithin DEF Safe
  <1>4. \A f, s, t : f # "list" /\ Safe(s) /\ Safe(t) => Safe(IfKept(f, s, t))
    BY FitsIfKept DEF Safe
  <1>5. \A f : f # "list" => Safe(FreeKept(f)) /\ Safe(KeepOnce(f))
    BY <1>4, SafeSteps DEF FreeKept, KeepOnce
  <1>6. \A f, s : Safe(s) => Safe(OnKept(f, s))
    BY FitsOnKept
  <1>7. \A s : Safe(s) => Safe(InList("fslist", s))
    BY FitsInList DEF Lists
  <1>8. QED BY <1>1, <1>2, <1>3, <1>4, <1>5, <1>6, <1>7

(***************************************************************************)
(* The calls that know something of their lists: a row behind the last is  *)
(* made room for before it is needed, or there is one per row counted.     *)
(***************************************************************************)
LEMMA FitsKnown ==
    /\ \A s, a : Safe(s) => Fits(s, a, None)
    /\ \A s, a, b : Fits(s, a, b) => Fits(s, a, None)
  BY FitsWeaker, ImpliesNone DEF Safe

\* Room is made first, and perhaps used.
LEMMA GrownBefore == \A l : Safe(Grow(l) \o Maybe(Put(l)))
  <1>1. TAKE l
  <1>2. Fits(Maybe(Put(l)), Room(l), None)
    BY RowSteps, FitsMaybe, ImpliesNone
  <1>3. QED BY <1>2, RowSteps, FitsSeq DEF Safe

\* A list for the rows counted, and a loop that stores no more.
LEMMA CountedRows ==
    ASSUME NEW s, Safe(s), NEW l, NEW rows, Fits(rows, Spare(l), Counted(l))
    PROVE  Safe(((s \o Count) \o NewCounted(l)) \o EachCounted(rows))
  <1>1. Fits(s \o Count, None, None)
    BY RowSteps, FitsSeq DEF Safe
  <1>2. Fits((s \o Count) \o NewCounted(l), None, Counted(l))
    BY <1>1, RowSteps, FitsSeq
  <1>3. Fits(EachCounted(rows), Counted(l), None)
    BY FitsLoops, FitsKnown
  <1>4. QED BY <1>2, <1>3, FitsSeq DEF Safe

LEMMA CommonSafe ==
    /\ Safe(File2Str) /\ Safe(ProcFdCount) /\ Safe(ProcfsList) /\ Safe(ProcfsArgs)
    /\ Safe(DlinfoModules) /\ Safe(RpcPing) /\ Safe(WhoUtmp) /\ Safe(WhoUtmpx)
    /\ \A P : Safe(P.fsList) => Safe(Iodev(P))
    /\ \A s : Safe(s) => Safe(WhoListGet(s)) /\ Safe(ConnectionListGet(s)) /\ Safe(NetInfo(s))
    /\ Safe(InterfaceList(TRUE)) /\ Safe(InterfaceList(FALSE))
    /\ Safe(InterfaceConfig(TRUE)) /\ Safe(InterfaceConfig(FALSE))
  <1>1. /\ Safe(File2Str) /\ Safe(ProcFdCount) /\ Safe(ProcfsList) /\ Safe(ProcfsArgs)
        /\ Safe(DlinfoModules) /\ Safe(RpcPing)
    BY SafeSteps, SafeForms
       DEF File2Str, ProcFdCount, ProcfsList, ProcfsArgs, DlinfoModules, RpcPing
  <1>2. Safe(WhoUtmp) /\ Safe(WhoUtmpx)
    BY SafeSteps, SafeForms DEF WhoUtmp, WhoUtmpx
  <1>3. \A P : Safe(P.fsList) => Safe(Iodev(P))
    BY SafeSteps, SafeForms DEF Iodev
  <1>4. \A s : Safe(s) => Safe(WhoListGet(s)) /\ Safe(ConnectionListGet(s)) /\ Safe(NetInfo(s))
    BY SafeSteps, SafeForms DEF WhoListGet, ConnectionListGet, NetInfo, DefaultGateway
  <1>5. ASSUME NEW linux \in BOOLEAN PROVE Safe(InterfaceList(linux))
    <2>1. PICK s : s = Open("sock") \o KeepOnce("ifconf_buf")
                         \o Loop(UseKept("ifconf_buf")) \o UseKept("ifconf_buf")
                         \o OrElse(Ask, Dispose("ifconf_buf") \o Fail) \o Free("sock")
      OBVIOUS
    <2>2. PICK t : t = IF linux
                         THEN Try(Open("fp") \o Loop(Maybe(AddTo("list"))) \o Free("fp"))
                         ELSE <<>>
      OBVIOUS
    <2>3. PICK rows : rows = UseKept("ifconf_buf") \o Put("list")
      OBVIOUS
    <2>4. Safe(s) /\ Safe(t)
      BY <2>1, <2>2, SafeSteps, SafeForms
    <2>5. Fits(rows, Spare("list"), Counted("list"))
      BY <2>3, PlainSteps, FitsInFits, RowSteps, FitsSeq
    <2>6. Safe((((s \o Count) \o NewCounted("list")) \o EachCounted(rows)) \o t)
      BY <2>4, <2>5, CountedRows, SafeForms
    <2>7. QED BY <2>1, <2>2, <2>3, <2>6 DEF InterfaceList
  <1>6. Safe(InterfaceConfig(TRUE)) /\ Safe(InterfaceConfig(FALSE))
    BY SafeSteps, SafeForms DEF InterfaceConfig
  <1>7. QED BY <1>1, <1>2, <1>3, <1>4, <1>5, <1>6

\* What the native methods need of the part of a platform.
SafePlatform(P) ==
  /\ Safe(P.open) /\ Safe(P.close) /\ Safe(P.fsList) /\ Safe(P.diskUsage) /\ Safe(P.fsUsage)
  /\ Safe(P.cpuInfoList) /\ Safe(P.cpuList) /\ Safe(P.cpu) /\ Safe(P.mem) /\ Safe(P.swap)
  /\ Safe(P.uptime) /\ Safe(P.procList) /\ Safe(P.procArgs) /\ Safe(P.procEnv) /\ Safe(P.procFd)
  /\ Safe(P.procExe) /\ Safe(P.procInfo) /\ Safe(P.connections) /\ Safe(P.procModules)
  /\ Safe(P.threadCpu) /\ Safe(P.routeList) /\ Safe(P.ifList) /\ Safe(P.ifConfig)
  /\ Safe(P.ifStat) /\ Safe(P.tcp) /\ Safe(P.nfs) /\ Safe(P.who) /\ Safe(P.netInfo)
  /\ Safe(P.rpcPing) /\ \A op \in DOMAIN P.more : Safe(P.more[op])

\* Linux makes room for the next row as soon as one is stored.
LEMMA LinuxRows == Safe(LinuxCpuList) /\ Safe(LinuxCpuInfoList) /\ Safe(LinuxRouteList)
  <1>1. Safe(LinuxCpuList)
    <2>1. PICK s : s = AddTo("list") \o Loop(Maybe(AddTo("list"))) \o Free("fp")
      OBVIOUS
    <2>2. PICK t : t = Free("fp") \o Put("list")
      OBVIOUS
    <2>3. Fits(s, Room("list"), None)
      BY <2>1, SafeSteps, SafeForms, FitsKnown
    <2>4. Fits(t, Room("list"), None)
      BY <2>2, PlainSteps, FitsInFits, RowSteps, FitsSeq
    <2>5. Fits(Open("fp") \o NewList("list"), None, Room("list"))
      BY SafeSteps, RowSteps, FitsSeq DEF Safe
    <2>6. QED BY <2>1, <2>2, <2>3, <2>4, <2>5, FitsEither, FitsSeq DEF LinuxCpuList, Safe
  <1>2. Safe(LinuxCpuInfoList)
    <2>1. FitsIn(File2Str, Room("list"), Room("list"), Room("list"))
      BY PlainSteps, FitsInSeq DEF File2Str, Open, Lists, Room, Level
    <2>2. Fits(Try(File2Str), Room("list"), Room("list"))
      BY <2>1, FitsOrElse, FitsEmpty, FitsInFits DEF Try
    <2>3. PICK s : s = Try(File2Str) \o Put("list") \o Grow("list")
      OBVIOUS
    <2>4. Fits(s, Room("list"), Room("list"))
      BY <2>2, <2>3, RowSteps, FitsSeq
    <2>5. Fits(Loop(Maybe(s)), Room("list"), Room("list"))
      BY <2>4, FitsMaybe, FitsLoops, ImpliesNone
    <2>6. Fits(Open("fp") \o NewList("list") \o Loop(Maybe(s)), None, Room("list"))
      BY <2>5, SafeSteps, RowSteps, FitsSeq DEF Safe
    <2>7. Fits(Free("fp"), Room("list"), None)
      BY SafeSteps, FitsKnown
    <2>8. QED BY <2>3, <2>6, <2>7, FitsSeq DEF LinuxCpuInfoList, Safe
  <1>3. Safe(LinuxRouteList)
    BY GrownBefore, SafeSteps, SafeForms DEF LinuxRouteList
  <1>4. QED BY <1>1, <1>2, <1>3

\* The six platforms, function by function.
LEMMA LinuxSafe == SafePlatform(Linux)
  <1>1. Safe(LinuxBootTime)
    BY SafeSteps, SafeForms DEF LinuxBootTime
  <1>2. /\ Safe(LinuxOpen) /\ Safe(LinuxClose) /\ Safe(LinuxRam)
    BY <1>1, SafeSteps, SafeForms DEF LinuxOpen, LinuxClose, LinuxRam
  <1>3. /\ Safe(LinuxMem) /\ Safe(LinuxSwap) /\ Safe(LinuxCpu) /\ Safe(LinuxUptime)
    BY <1>2, CommonSafe, SafeSteps, SafeForms DEF LinuxMem, LinuxSwap, LinuxCpu, LinuxUptime
  <1>4. Safe(LinuxCpuList)
    BY LinuxRows
  <1>5. Safe(LinuxIsThread)
    BY SafeSteps, SafeForms DEF LinuxIsThread
  <1>6. /\ Safe(LinuxProcList) /\ Safe(LinuxProcEnv) /\ Safe(LinuxProcExe)
        /\ Safe(LinuxProcModules) /\ Safe(LinuxFsList)
    BY <1>5, CommonSafe, SafeSteps, SafeForms
       DEF LinuxProcList, LinuxProcEnv, LinuxProcExe, LinuxProcModules, LinuxFsList
  <1>7. Safe(LinuxIodev)
    BY <1>6, CommonSafe, SafeSteps, SafeForms DEF LinuxIodev
  <1>8. /\ Safe(LinuxIostatSys) /\ Safe(LinuxIostatDstat) /\ Safe(LinuxIostatProcp)
    BY <1>7, CommonSafe, SafeSteps, SafeForms
       DEF LinuxIostatSys, LinuxIostatDstat, LinuxIostatProcp
  <1>9. Safe(LinuxDiskUsage)
    BY <1>3, <1>8, SafeSteps, SafeForms DEF LinuxDiskUsage
  <1>10. Safe(LinuxFsUsage)
    BY <1>9, SafeSteps, SafeForms DEF LinuxFsUsage
  <1>11. Safe(LinuxCpuInfoList)
    BY LinuxRows
  <1>12. Safe(LinuxRouteList)
    BY LinuxRows
  <1>13. /\ Safe(LinuxIfStat) /\ Safe(LinuxProcNetRead)
    BY SafeSteps, SafeForms DEF LinuxIfStat, LinuxProcNetRead
  <1>14. /\ Safe(LinuxConnections) /\ Safe(LinuxConnectionGet)
    BY <1>13, SafeSteps, SafeForms DEF LinuxConnections, LinuxConnectionGet
  <1>15. /\ Safe(LinuxProcPort) /\ Safe(LinuxTcp) /\ Safe(LinuxNfs)
    BY <1>14, SafeSteps, SafeForms DEF LinuxProcPort, LinuxTcp, LinuxNfs
  <1>16. Safe(Linux.ifList) /\ Safe(Linux.ifConfig) /\ Safe(Linux.netInfo)
    BY <1>12, CommonSafe, SafeSteps DEF Linux
  <1>17. \A op \in DOMAIN Linux.more : Safe(Linux.more[op])
    BY <1>15, SafeSteps, SafeForms DEF Linux
  <1>18. QED BY <1>2, <1>3, <1>4, <1>6, <1>9, <1>10, <1>11, <1>12, <1>13, <1>14, <1>15,
               <1>16, <1>17, CommonSafe, SafeSteps, SafeForms
       DEF SafePlatform, Linux

LEMMA AixSafe == SafePlatform(Aix)
  <1>1. /\ Safe(AixOpen) /\ Safe(AixClose) /\ Safe(AixSwap) /\ Safe(AixCpuList)
        /\ Safe(AixBootTime)
    BY SafeSteps, SafeForms DEF AixOpen, AixClose, AixSwap, AixCpuList, AixBootTime
  <1>2. /\ Safe(AixUptime) /\ Safe(AixWhoUtmp) /\ Safe(AixConnections) /\ Safe(AixProcList)
        /\ Safe(AixGetprocs)
    BY <1>1, SafeSteps, SafeForms
       DEF AixUptime, AixWhoUtmp, AixConnections, AixProcList, AixGetprocs
  <1>3. /\ Safe(AixProcArgs) /\ Safe(AixModulesLocal)
    BY SafeSteps, SafeForms DEF AixProcArgs, AixModulesLocal
  <1>4. /\ Safe(AixProcModules) /\ Safe(AixThreadCpu) /\ Safe(AixFsList) /\ Safe(AixDiskmap)
    BY <1>3, SafeSteps, SafeForms DEF AixProcModules, AixThreadCpu, AixFsList, AixDiskmap
  <1>5. /\ Safe(AixFsUsage) /\ Safe(AixOdmModel)
    BY <1>4, SafeSteps, SafeForms DEF AixFsUsage, AixOdmModel
  <1>6. Safe(AixCpuInfoList)
    BY <1>5, SafeSteps, SafeForms DEF AixCpuInfoList
  <1>7. Safe(Aix.ifList) /\ Safe(Aix.ifConfig) /\ Safe(Aix.netInfo)
    BY CommonSafe, SafeSteps DEF Aix
  <1>8. \A op \in DOMAIN Aix.more : Safe(Aix.more[op])
    BY SafeSteps, SafeForms DEF Aix
  <1>9. QED BY <1>1, <1>2, <1>3, <1>4, <1>5, <1>6, <1>7, <1>8, CommonSafe, SafeSteps,
              SafeForms
       DEF SafePlatform, Aix

LEMMA HpuxSafe == SafePlatform(Hpux)
  <1>1. /\ Safe(HpuxOpen) /\ Safe(HpuxClose) /\ Safe(HpuxCpuList) /\ Safe(HpuxProcList)
        /\ Safe(HpuxGetproc)
    BY SafeSteps, SafeForms DEF HpuxOpen, HpuxClose, HpuxCpuList, HpuxProcList, HpuxGetproc
  <1>2. /\ Safe(HpuxProcArgs) /\ Safe(HpuxProcFd) /\ Safe(HpuxProcExe) /\ Safe(HpuxFsList)
    BY SafeSteps, SafeForms DEF HpuxProcArgs, HpuxProcFd, HpuxProcExe, HpuxFsList
  <1>3. Safe(HpuxFsdevCache)
    BY <1>2, SafeSteps, SafeForms DEF HpuxFsdevCache
  <1>4. /\ Safe(HpuxFsUsage) /\ Safe(HpuxCpuInfoList) /\ Safe(HpuxMibInfo)
    BY <1>3, SafeSteps, SafeForms DEF HpuxFsUsage, HpuxCpuInfoList, HpuxMibInfo
  <1>5. Safe(HpuxPhysicalStat)
    BY <1>4, SafeSteps, SafeForms DEF HpuxPhysicalStat
  <1>6. /\ Safe(HpuxIfIndexToName) /\ Safe(HpuxIfStat)
    BY <1>5, SafeSteps, SafeForms DEF HpuxIfIndexToName, HpuxIfStat
  <1>7. /\ Safe(HpuxRouteList) /\ Safe(HpuxConnections) /\ Safe(HpuxTcp)
    BY <1>4, <1>6, SafeSteps, SafeForms DEF HpuxRouteList, HpuxConnections, HpuxTcp
  <1>8. Safe(Hpux.ifList) /\ Safe(Hpux.ifConfig) /\ Safe(Hpux.netInfo)
    BY <1>7, CommonSafe, SafeSteps DEF Hpux
  <1>9. \A op \in DOMAIN Hpux.more : Safe(Hpux.more[op])
    BY SafeSteps, SafeForms DEF Hpux
  <1>10. QED BY <1>1, <1>2, <1>4, <1>6, <1>7, <1>8, <1>9, CommonSafe, SafeSteps, SafeForms
       DEF SafePlatform, Hpux

LEMMA SolarisSafe == SafePlatform(Solaris)
  <1>1. Safe(SolarisGetKstats)
    BY SafeSteps, SafeForms DEF SolarisGetKstats
  <1>2. /\ Safe(SolarisOpen) /\ Safe(SolarisCloseMib2)
    BY <1>1, SafeSteps, SafeForms DEF SolarisOpen, SolarisCloseMib2
  <1>3. /\ Safe(SolarisClose) /\ Safe(SolarisKstatUpdate)
    BY <1>1, <1>2, SafeSteps, SafeForms DEF SolarisClose, SolarisKstatUpdate
  <1>4. /\ Safe(SolarisSwap) /\ Safe(SolarisChips)
    BY <1>3, SafeSteps, SafeForms DEF SolarisSwap, SolarisChips
  <1>5. /\ Safe(SolarisCpuList) /\ Safe(SolarisCpu) /\ Safe(SolarisLoadavg)
        /\ Safe(SolarisInitLibproc)
    BY <1>3, <1>4, SafeSteps, SafeForms
       DEF SolarisCpuList, SolarisCpu, SolarisLoadavg, SolarisInitLibproc
  <1>6. \A undo : Safe(SolarisPgrab(undo))
    BY SafeSteps, SafeForms DEF SolarisPgrab
  <1>7. /\ Safe(SolarisUcbPs) /\ Safe(SolarisPsinfo) /\ Safe(SolarisReadArgs)
    BY SafeSteps, SafeForms DEF SolarisUcbPs, SolarisPsinfo, SolarisReadArgs
  <1>8. /\ Safe(SolarisProcArgs) /\ Safe(SolarisProcEnv) /\ Safe(SolarisProcExe)
        /\ Safe(SolarisPgrabModules)
    BY <1>5, <1>6, <1>7, SafeSteps, SafeForms
       DEF SolarisProcArgs, SolarisProcEnv, SolarisProcExe, SolarisPgrabModules
  <1>9. /\ Safe(SolarisProcModules) /\ Safe(SolarisFsList) /\ Safe(SolarisFsdevPaths)
    BY <1>8, CommonSafe, SafeSteps, SafeForms
       DEF SolarisProcModules, SolarisFsList, SolarisFsdevPaths
  <1>10. /\ Safe(SolarisFsdevCache) /\ Safe(SolarisKstatDisk)
    BY <1>3, <1>9, SafeSteps, SafeForms DEF SolarisFsdevCache, SolarisKstatDisk
  <1>11. Safe(SolarisDiskUsage)
    BY <1>10, SafeSteps, SafeForms DEF SolarisDiskUsage
  <1>12. /\ Safe(SolarisFsUsage) /\ Safe(SolarisCpuInfoList) /\ Safe(SolarisOpenMib2)
    BY <1>3, <1>4, <1>11, SafeSteps, SafeForms
       DEF SolarisFsUsage, SolarisCpuInfoList, SolarisOpenMib2
  <1>13. Safe(SolarisGetMib2)
    BY <1>2, <1>12, SafeSteps, SafeForms DEF SolarisGetMib2
  <1>14. /\ Safe(SolarisRouteList) /\ Safe(SolarisTcp) /\ Safe(SolarisConnections)
         /\ Safe(SolarisFindPort)
    BY <1>2, <1>13, SafeSteps, SafeForms
       DEF SolarisRouteList, SolarisTcp, SolarisConnections, SolarisFindPort
  <1>15. /\ Safe(SolarisProcPort) /\ Safe(SolarisIfStat) /\ Safe(SolarisNfs)
    BY <1>3, <1>5, <1>6, <1>14, CommonSafe, SafeSteps, SafeForms
       DEF SolarisProcPort, SolarisIfStat, SolarisNfs
  <1>16. Safe(Solaris.ifList) /\ Safe(Solaris.ifConfig) /\ Safe(Solaris.netInfo)
    BY <1>14, CommonSafe, SafeSteps DEF Solaris
  <1>17. \A op \in DOMAIN Solaris.more : Safe(Solaris.more[op])
    BY <1>15, SafeSteps, SafeForms DEF Solaris
  <1>18. QED BY <1>2, <1>3, <1>4, <1>5, <1>7, <1>8, <1>9, <1>11, <1>12, <1>14, <1>15, <1>16,
               <1>17, CommonSafe, SafeSteps, SafeForms
       DEF SafePlatform, Solaris

LEMMA DarwinSafe == SafePlatform(Darwin)
  <1>1. /\ Safe(DarwinOpen) /\ Safe(DarwinClose) /\ Safe(DarwinSwapFs)
    BY SafeSteps, SafeForms DEF DarwinOpen, DarwinClose, DarwinSwapFs
  <1>2. /\ Safe(DarwinSwap) /\ Safe(DarwinCpuList)
    BY <1>1, SafeSteps, SafeForms DEF DarwinSwap, DarwinCpuList
  <1>3. \A buf : Safe(DarwinSysctl(buf))
    BY SafeSteps, SafeForms DEF DarwinSysctl
  <1>4. /\ Safe(DarwinProcList) /\ Safe(DarwinGetPinfo) /\ Safe(DarwinKernArgs)
    BY <1>3, SafeSteps, SafeForms DEF DarwinProcList, DarwinGetPinfo, DarwinKernArgs
  <1>5. /\ Safe(DarwinProcArgs) /\ Safe(DarwinProcEnv) /\ Safe(DarwinProcExe)
        /\ Safe(DarwinProcModules) /\ Safe(DarwinFsList)
    BY <1>3, <1>4, SafeSteps, SafeForms
       DEF DarwinProcArgs, DarwinProcEnv, DarwinProcExe, DarwinProcModules, DarwinFsList
  <1>6. Safe(DarwinDiskUsage)
    BY <1>5, CommonSafe, SafeSteps, SafeForms DEF DarwinDiskUsage
  <1>7. /\ Safe(DarwinFsUsage) /\ Safe(DarwinCpuInfoList) /\ Safe(DarwinRouteList)
        /\ Safe(DarwinConnections) /\ Safe(DarwinIfmsgInit)
    BY <1>3, <1>6, SafeSteps, SafeForms
       DEF DarwinFsUsage, DarwinCpuInfoList, DarwinRouteList, DarwinConnections,
          DarwinIfmsgInit
  <1>8. Safe(DarwinHasIfaddr)
    BY SafeSteps, SafeForms DEF DarwinHasIfaddr
  <1>9. /\ Safe(DarwinIfmsgIterList) /\ Safe(DarwinIfmsgIterGet)
    BY <1>8, SafeSteps, SafeForms DEF DarwinIfmsgIterList, DarwinIfmsgIterGet
  <1>10. /\ Safe(DarwinIfList) /\ Safe(DarwinIfConfig) /\ Safe(DarwinIfStat)
         /\ Safe(DarwinFdinfo)
    BY <1>7, <1>9, SafeSteps, SafeForms
       DEF DarwinIfList, DarwinIfConfig, DarwinIfStat, DarwinFdinfo
  <1>11. Safe(DarwinProcPort)
    BY <1>4, <1>10, SafeSteps, SafeForms DEF DarwinProcPort
  <1>12. QED BY <1>1, <1>2, <1>4, <1>5, <1>6, <1>7, <1>10, <1>11, CommonSafe, SafeSteps,
               SafeForms
       DEF SafePlatform, Darwin

LEMMA Win32Safe == SafePlatform(Win32)
  <1>1. \A m : m # "list" => Safe(Dll(m)) /\ Safe(DllFree(m))
    BY SafeSteps, SafeForms DEF Dll, DllFree, Spoil
  <1>2. /\ Safe(Win32Open) /\ Safe(Win32Close) /\ Safe(PerfbufInit)
    BY <1>1, SafeSteps, SafeForms DEF Win32Open, Win32Close, PerfbufInit
  <1>3. Safe(PerfObject)
    BY <1>2, SafeSteps, SafeForms DEF PerfObject
  <1>4. /\ Safe(Win32Mem) /\ Safe(Win32Swap) /\ Safe(Win32CpuPerflib)
    BY <1>1, <1>3, SafeSteps, SafeForms DEF Win32Mem, Win32Swap, Win32CpuPerflib
  <1>5. /\ Safe(Win32Cpu) /\ Safe(Win32CpuListPerflib) /\ Safe(Win32CpuListNtsys)
    BY <1>1, <1>3, <1>4, SafeSteps, SafeForms
       DEF Win32Cpu, Win32CpuListPerflib, Win32CpuListNtsys
  <1>6. /\ Safe(Win32CpuList) /\ Safe(Win32Uptime) /\ Safe(Win32ProcListPerf)
        /\ Safe(Win32ProcListEnum) /\ Safe(Win32CpuListUnmade) /\ Safe(IntoJava)
    BY <1>1, <1>2, <1>3, <1>5, SafeSteps, SafeForms
       DEF Win32CpuList, Win32Uptime, Win32ProcListPerf, Win32ProcListEnum, Win32CpuListUnmade,
           IntoJava
  <1>7. Safe(Win32ProcList)
    BY <1>1, <1>6, SafeSteps, SafeForms DEF Win32ProcList
  <1>8. \A buf : Safe(TokenName(buf))
    BY SafeSteps, SafeForms DEF TokenName
  <1>9. /\ Safe(Win32CredName) /\ Safe(Win32ProcInfo) /\ Safe(PebRead)
        /\ Safe(Win32ParseArgs)
    BY <1>1, <1>3, <1>8, SafeSteps, SafeForms
       DEF Win32CredName, Win32ProcInfo, PebRead, Win32ParseArgs
  <1>10. Safe(Win32RemoteArgs)
    BY <1>9, SafeSteps, SafeForms DEF Win32RemoteArgs
  <1>11. /\ Safe(Win32ProcArgs) /\ Safe(Win32LocalEnv) /\ Safe(Win32RemoteEnv)
    BY <1>9, <1>10, SafeSteps, SafeForms DEF Win32ProcArgs, Win32LocalEnv, Win32RemoteEnv
  <1>12. /\ Safe(Win32ProcEnv) /\ Safe(Win32ProcExe) /\ Safe(Win32ProcModules)
         /\ Safe(Win32FsList) /\ Safe(Win32DiskUsage)
    BY <1>1, <1>3, <1>9, <1>11, SafeSteps, SafeForms
       DEF Win32ProcEnv, Win32ProcExe, Win32ProcModules, Win32FsList, Win32DiskUsage
  <1>13. /\ Safe(Win32FsUsage) /\ Safe(Win32CpuInfo)
    BY <1>12, SafeSteps, SafeForms DEF Win32FsUsage, Win32CpuInfo
  <1>14. Safe(Win32CpuInfoList)
    BY <1>13, GrownBefore, SafeSteps, SafeForms DEF Win32CpuInfoList
  <1>15. Safe(Win32Table)
    BY <1>1, SafeSteps, SafeForms DEF Win32Table
  <1>16. /\ Safe(Win32IpAddr) /\ Safe(Win32NetInfo) /\ Safe(Win32IfTable)
         /\ Safe(Win32IfRow)
    BY <1>1, <1>15, SafeSteps, SafeForms
       DEF Win32IpAddr, Win32NetInfo, Win32IfTable, Win32IfRow
  <1>17. Safe(Win32IfList)
    <2>1. PICK rows : rows = Maybe(Put("list") \o Win32IfRow)
      OBVIOUS
    <2>2. Fits(Win32IfRow, Counted("list"), Counted("list"))
      BY PlainSteps, FitsInFits, FitsSeq DEF Win32IfRow
    <2>3. Implies(Spare("list"), Counted("list"))
      BY DEF Implies, Spare, Counted, Level
    <2>4. Fits(rows, Spare("list"), Counted("list"))
      BY <2>1, <2>2, <2>3, RowSteps, FitsSeq, FitsMaybe
    <2>5. Safe(((Win32IfTable \o Count) \o NewCounted("list")) \o EachCounted(rows))
      BY <1>16, <2>4, CountedRows
    <2>6. QED BY <2>1, <2>5 DEF Win32IfList
  <1>18. Safe(Win32MibIfrow)
    BY <1>16, SafeSteps, SafeForms DEF Win32MibIfrow
  <1>19. /\ Safe(Win32IfConfig) /\ Safe(Win32RouteList)
    BY <1>1, <1>16, <1>18, SafeSteps, SafeForms DEF Win32IfConfig, Win32RouteList
  <1>20. \A buf : Safe(Win32ConnTable(buf))
    BY <1>1, SafeSteps, SafeForms DEF Win32ConnTable
  <1>21. /\ Safe(Win32Connections) /\ Safe(Win32ProcPort) /\ Safe(Win32NetSessions)
         /\ Safe(Win32LogonInfo)
    BY <1>1, <1>20, SafeSteps, SafeForms
       DEF Win32Connections, Win32ProcPort, Win32NetSessions, Win32LogonInfo
  <1>22. /\ Safe(Win32WhoRegistry) /\ Safe(Win32WhoWts)
    BY <1>1, <1>21, SafeSteps, SafeForms DEF Win32WhoRegistry, Win32WhoWts
  <1>23. /\ Safe(Win32WhoList) /\ Safe(Win32ServicePid) /\ Safe(Win32FileVersion)
         /\ Safe(Winsock)
    BY <1>21, <1>22, CommonSafe, SafeSteps, SafeForms
       DEF Win32WhoList, Win32ServicePid, Win32FileVersion, Winsock
  <1>24. \A op \in DOMAIN Win32.more : Safe(Win32.more[op])
    <2>1. Safe(Either(Win32CpuList \o IntoJava, Win32CpuListUnmade)) /\ Safe(Winsock \o Ask)
      BY <1>6, <1>23, SafeSteps, SafeForms
    <2>2. PICK R : R = Win32.more
      OBVIOUS
    <2>3. /\ DOMAIN R = {"getCpuListNative", "getFQDN", "getProcPort", "getServicePid",
                         "getProcCredName", "getFileVersion"}
          /\ R["getCpuListNative"] = Either(Win32CpuList \o IntoJava, Win32CpuListUnmade)
          /\ R["getFQDN"] = Winsock \o Ask /\ R["getProcPort"] = Win32ProcPort
          /\ R["getServicePid"] = Win32ServicePid /\ R["getProcCredName"] = Win32CredName
          /\ R["getFileVersion"] = Win32FileVersion
      BY <2>2 DEF Win32
    <2>4. \A op \in DOMAIN R : Safe(R[op])
      BY ONLY <1>9, <1>21, <1>23, <2>1, <2>3
    <2>5. QED BY <2>2, <2>4
  <1>25. QED BY <1>1, <1>2, <1>4, <1>5, <1>6, <1>7, <1>9, <1>11, <1>12, <1>13, <1>14, <1>16,
               <1>17, <1>18, <1>19, <1>21, <1>23, <1>24, CommonSafe, SafeSteps, SafeForms
       DEF SafePlatform, Win32

\* The native methods of a platform whose parts are safe.
LEMMA JavaCallsSafe ==
    ASSUME NEW P, SafePlatform(P)
    PROVE  \A op \in DOMAIN JavaCalls(P) : Safe(JavaCalls(P)[op])
  <1>1. Safe(IntoJava) /\ Safe(PidsIntoJava)
    BY SafeSteps, SafeForms DEF IntoJava, PidsIntoJava
  <1>2. Safe(JavaOpen(P)) /\ Safe(JavaClose(P))
    BY SafeSteps, SafeForms DEF SafePlatform, JavaOpen, JavaClose, Open_, Close
  <1>3. Safe(ProcListGet(P)) /\ Safe(ProcListReused(P)) /\ Safe(ProcArgsGet(P))
    BY SafeSteps, SafeForms DEF SafePlatform, ProcListGet, ProcListReused, ProcArgsGet
  <1>4. Safe(InterfacePrimary(P)) /\ Safe(ConnectionListGet(P.connections))
    BY CommonSafe, SafeSteps, SafeForms DEF SafePlatform, InterfacePrimary
  <1>5. /\ Safe(P.fsList \o IntoJava) /\ Safe(P.cpuInfoList \o IntoJava)
        /\ Safe(P.cpuList \o IntoJava) /\ Safe(ProcListGet(P) \o PidsIntoJava)
        /\ Safe(ProcArgsGet(P) \o IntoJava) /\ Safe(P.routeList \o IntoJava)
        /\ Safe(P.ifList \o IntoJava) /\ Safe(ConnectionListGet(P.connections) \o IntoJava)
        /\ Safe(P.who \o IntoJava) /\ Safe(Either(P.ifConfig, InterfacePrimary(P)))
    BY <1>1, <1>3, <1>4, SafeForms DEF SafePlatform
  <1>6. /\ Safe(KeepOnce("proc_cpu") \o UseKept("proc_cpu") \o Ask)
        /\ Safe(KeepOnce("net_listen") \o Loop(UseKept("net_listen")))
        /\ Safe(Either(KeepOnce("services_tcp") \o UseKept("services_tcp"),
                       KeepOnce("services_udp") \o UseKept("services_udp")))
    BY SafeSteps, SafeForms
  <1>7. \A op \in DOMAIN NativeMethods(P) : Safe(NativeMethods(P)[op])
    <2>1. PICK R : R = NativeMethods(P)
      OBVIOUS
    <2>2. DOMAIN R = {
            "open", "nativeClose", "getFileSystemListNative", "getDiskUsage",
            "getFileSystemUsage", "getCpuInfoList", "getCpuListNative", "getCpu", "getMem",
            "getSwap", "getUptime", "getProcList", "getProcArgs", "getProcEnv", "getProcFd",
            "getProcExe", "getProcModulesNative", "getThreadCpu", "getNetRouteList",
            "getNetInterfaceList", "getNetInterfaceConfig", "getNetInterfaceStat",
            "getNetInfo", "getNetConnectionList", "getTcp", "getNfsClientV2", "getWhoList",
            "getProcMem", "RPC_ping", "findProcess", "getProcCpu", "getNetStat",
            "getNetServicesName"}
      BY <2>1 DEF NativeMethods
    <2>3. /\ R["open"] = JavaOpen(P)
          /\ R["nativeClose"] = JavaClose(P)
          /\ R["getFileSystemListNative"] = P.fsList \o IntoJava
          /\ R["getDiskUsage"] = P.diskUsage
          /\ R["getFileSystemUsage"] = P.fsUsage
          /\ R["getCpuInfoList"] = P.cpuInfoList \o IntoJava
          /\ R["getCpuListNative"] = P.cpuList \o IntoJava
          /\ R["getCpu"] = P.cpu
          /\ R["getMem"] = P.mem
          /\ R["getSwap"] = P.swap
          /\ R["getUptime"] = P.uptime
          /\ R["getProcList"] = ProcListGet(P) \o PidsIntoJava
          /\ R["getProcArgs"] = ProcArgsGet(P) \o IntoJava
          /\ R["getProcEnv"] = P.procEnv
          /\ R["getProcFd"] = P.procFd
          /\ R["getProcExe"] = P.procExe
          /\ R["getProcModulesNative"] = P.procModules
          /\ R["getThreadCpu"] = P.threadCpu
          /\ R["getNetRouteList"] = P.routeList \o IntoJava
          /\ R["getNetInterfaceList"] = P.ifList \o IntoJava
          /\ R["getNetInterfaceConfig"] = Either(P.ifConfig, InterfacePrimary(P))
          /\ R["getNetInterfaceStat"] = P.ifStat
          /\ R["getNetInfo"] = P.netInfo
          /\ R["getNetConnectionList"] = ConnectionListGet(P.connections) \o IntoJava
          /\ R["getTcp"] = P.tcp
          /\ R["getNfsClientV2"] = P.nfs
          /\ R["getWhoList"] = P.who \o IntoJava
          /\ R["getProcMem"] = P.procInfo
          /\ R["RPC_ping"] = P.rpcPing
          /\ R["findProcess"] = ProcListReused(P)
          /\ R["getProcCpu"] = KeepOnce("proc_cpu") \o UseKept("proc_cpu") \o Ask
          /\ R["getNetStat"] = KeepOnce("net_listen") \o Loop(UseKept("net_listen"))
          /\ R["getNetServicesName"] = Either(KeepOnce("services_tcp") \o UseKept("services_tcp"),
            KeepOnce("services_udp") \o UseKept("services_udp"))
      BY <2>1 DEF NativeMethods
    <2>4. \A op \in DOMAIN R : Safe(R[op])
      BY ONLY SafePlatform(P), <1>2, <1>3, <1>5, <1>6, <2>2, <2>3 DEF SafePlatform
    <2>5. QED BY <2>1, <2>4
  <1>8. \A op \in DOMAIN P.more : Safe(P.more[op])
    BY DEF SafePlatform
  <1>9. QED BY <1>7, <1>8 DEF JavaCalls

\* Every method of every platform.
LEMMA ProgramsSafe ==
    ASSUME platform \in Platforms
    PROVE  \A op \in DOMAIN Programs[platform] : Safe(Programs[platform][op])
  <1>1. \E P : SafePlatform(P) /\ Programs[platform] = JavaCalls(P)
    BY LinuxSafe, AixSafe, HpuxSafe, SolarisSafe, DarwinSafe, Win32Safe DEF Platforms, Programs
  <1>2. QED BY <1>1, JavaCallsSafe

(***************************************************************************)
(* The machine that runs the programs.                                     *)
(***************************************************************************)
IsCall(c) ==
  c = [op |-> c.op, pc |-> c.pc, status |-> c.status, held |-> c.held, counted |-> c.counted,
       turns |-> c.turns, lost |-> c.lost, bad |-> c.bad]

\* What is known of a list, as the call that is there has it.
Knows(a, c) ==
  a.of \in DOMAIN c.held =>
    /\ a.kind \in {"room", "spare"} => c.held[a.of] > 0
    /\ a.kind \in {"counted", "spare"} => c.held[a.of] >= c.counted
    /\ a.kind = "spare" => c.held[a.of] > c.counted

NatHeld(c) == c.counted \in Nat /\ \A r \in DOMAIN c.held : c.held[r] \in Nat

\* The call has come to a place of its program about which the program is right.
RightPlace(c) ==
  LET s == Programs[platform][c.op]
  IN  /\ c.op \in DOMAIN Programs[platform]
      /\ c.pc # 0 =>
           \E known : /\ RightFrom(s, 0, Len(s), known)
                      /\ c.pc \in 1..Len(s)+1 /\ Knows(known[c.pc], c)

Fine(c) == IsCall(c) /\ NatHeld(c) /\ (c.op # Nothing => RightPlace(c))

RowsIInv == platform \in Platforms /\ Fine(call) /\ step = StepOf(call)

LEMMA MachineIs ==
    /\ \A what : Doing(what) <=> call.op # Nothing /\ step.do = what
    /\ \A c : StepOf(c) = IF c.pc = 0 \/ c.op = Nothing
                            THEN Over[1] ELSE (Programs[platform][c.op] \o Over)[c.pc]
    /\ Over = Step("return", Nothing, {}, 1)
    /\ NoCall = [op |-> Nothing, pc |-> 1, status |-> "none", held |-> <<>>, counted |-> 0,
                 turns |-> 0, lost |-> {}, bad |-> {}]
  <1>1. \A what : Doing(what) <=> call.op # Nothing /\ step.do = what
    BY Zenon DEF Doing, Busy, Nothing
  <1>2. \A c : StepOf(c) = IF c.pc = 0 \/ c.op = Nothing
                            THEN Over[1] ELSE (Programs[platform][c.op] \o Over)[c.pc]
    BY Zenon DEF StepOf, Nothing
  <1>3. Over = Step("return", Nothing, {}, 1)
    BY Zenon DEF Over, Nothing
  <1>4. NoCall = [op |-> Nothing, pc |-> 1, status |-> "none", held |-> <<>>, counted |-> 0,
                 turns |-> 0, lost |-> {}, bad |-> {}]
    BY Zenon DEF NoCall, Nothing
  <1>5. QED BY <1>1, <1>2, <1>3, <1>4

\* What a call knows, it knows weakened.
LEMMA KnowsWeaker ==
    ASSUME NEW a, NEW b, NEW c, Implies(a, b), Knows(a, c)
    PROVE  Knows(b, c)
  BY DEF Implies, Knows

\* The call is at a step of its program, and what is known there is so.
AtPlace(known) ==
  LET s == Programs[platform][call.op]
  IN  /\ call.op \in DOMAIN Programs[platform]
      /\ RightFrom(s, 0, Len(s), known) /\ Len(s) \in Nat
      /\ call.pc \in 1..Len(s) /\ Knows(known[call.pc], call)
      /\ Right(step, call.pc, Len(s), known) /\ step.next \in Int /\ step.fail \in Int

\* A call that does something is at a step, and knows what its program says.
LEMMA AtStep ==
    ASSUME RowsIInv, NEW what, Doing(what), what # "return"
    PROVE  /\ step.do = what /\ call.op # Nothing /\ IsCall(call) /\ NatHeld(call)
           /\ \E known : AtPlace(known)
  <1>1. /\ call.op # Nothing /\ step.do = what /\ call.op \in DOMAIN Programs[platform]
        /\ IsCall(call) /\ NatHeld(call)
    BY MachineIs DEF RowsIInv, Fine, RightPlace
  <1>2. PICK s : s = Programs[platform][call.op]
    OBVIOUS
  <1>3. IsSteps(s) /\ Len(s) \in Nat
    BY <1>1, <1>2, ProgramsSafe, FitsAre DEF RowsIInv, Safe
  <1>4. IsSteps(Over) /\ Len(Over) = 1 /\ Over[1].do = "return"
    <2>1. PICK n \in Int : n = 1
      OBVIOUS
    <2>2. Over = Step("return", Nothing, {}, n)
      BY <2>1, MachineIs
    <2>3. IsSteps(Over) /\ Len(Over) = 1
      BY <2>2, StepIs
    <2>4. Over[1] = [do |-> "return", res |-> Nothing, undo |-> {}, next |-> n, fail |-> 0]
      BY <2>2, StepIs
    <2>5. QED BY <2>3, <2>4
  <1>5. call.pc # 0
    BY <1>1, <1>4, MachineIs DEF RowsIInv
  <1>6. PICK known : /\ RightFrom(s, 0, Len(s), known)
                     /\ call.pc \in 1..Len(s)+1 /\ Knows(known[call.pc], call)
    BY <1>1, <1>2, <1>5 DEF RowsIInv, Fine, RightPlace
  <1>7. step = (s \o Over)[call.pc]
    BY <1>1, <1>2, <1>5, MachineIs DEF RowsIInv
  <1>8. call.pc \in 1..Len(s) /\ step = s[call.pc]
    <2>1. CASE call.pc = Len(s) + 1
      <3>1. \A i \in 1..Len(Over) : (s \o Over)[Len(s) + i] = Over[i]
        BY ONLY <1>3, <1>4, IsStepsJoin
      <3>2. (s \o Over)[Len(s) + 1] = Over[1]
        BY <1>4, <3>1
      <3>3. QED BY <1>1, <1>4, <1>7, <2>1, <3>2
    <2>2. CASE call.pc # Len(s) + 1
      BY <1>3, <1>4, <1>6, <1>7, <2>2, IsStepsJoin
    <2>3. QED BY <2>1, <2>2
  <1>9. Right(step, call.pc, Len(s), known)
    <2>1. Right(s[call.pc], 0 + call.pc, Len(s), known)
      BY <1>6, <1>8 DEF RightFrom
    <2>2. QED BY <1>3, <1>8, <2>1
  <1>10. step.next \in Int /\ step.fail \in Int
    BY <1>3, <1>8, StepsAre
  <1>11. AtPlace(known)
    BY <1>1, <1>2, <1>3, <1>6, <1>8, <1>9, <1>10 DEF AtPlace
  <1>12. QED BY <1>1, <1>11

\* Where the call goes on after the step, and what has to be known there.
LEMMA GoesOn ==
    ASSUME NEW known, AtPlace(known), NEW d, IsCall(d), NatHeld(d), d.op = call.op,
           \/ d.pc = 0
           \/ /\ d.pc = call.pc + 1 /\ step.do \notin Ends
              /\ Knows(After(step.do, step.res, known[call.pc]), d)
           \/ d.pc = call.pc + step.next /\ step.do \in Branches /\ Knows(known[call.pc], d)
           \/ d.pc = call.pc + step.fail /\ step.fail # 0 /\ Knows(known[call.pc], d)
    PROVE  Fine(d)
  <1>1. PICK s : s = Programs[platform][call.op]
    OBVIOUS
  <1>2. /\ call.op \in DOMAIN Programs[platform] /\ RightFrom(s, 0, Len(s), known)
        /\ Len(s) \in Nat /\ call.pc \in 1..Len(s) /\ Right(step, call.pc, Len(s), known)
    BY <1>1 DEF AtPlace
  <1>3. d.pc # 0 => d.pc \in 1..Len(s)+1 /\ Knows(known[d.pc], d)
    <2>1. CASE d.pc = call.pc + 1 /\ step.do \notin Ends
               /\ Knows(After(step.do, step.res, known[call.pc]), d)
      BY <1>2, <2>1, KnowsWeaker DEF Right
    <2>2. CASE d.pc = call.pc + step.next /\ step.do \in Branches /\ Knows(known[call.pc], d)
      BY <1>2, <2>2, KnowsWeaker DEF Right
    <2>3. CASE d.pc = call.pc + step.fail /\ step.fail # 0 /\ Knows(known[call.pc], d)
      BY <1>2, <2>3, KnowsWeaker DEF Right
    <2>4. QED BY <2>1, <2>2, <2>3
  <1>4. RightPlace(d)
    BY <1>1, <1>2, <1>3 DEF RightPlace
  <1>5. QED BY <1>4 DEF Fine

\* A call after a change of what the rows depend on.
Changed(c, d, pc, held, counted) ==
  IsCall(d) /\ d.op = c.op /\ d.pc = pc /\ d.held = held /\ d.counted = counted

\* Fields that change one at a time leave the others alone.
LEMMA ChangedParts ==
    ASSUME NEW c, IsCall(c)
    PROVE  /\ \A x : Changed(c, [c EXCEPT !.pc = x], x, c.held, c.counted)
           /\ \A x : Changed(c, [c EXCEPT !.held = x], c.pc, x, c.counted)
           /\ \A x : Changed(c, [c EXCEPT !.counted = x], c.pc, c.held, x)
           /\ \A x : Changed(c, [c EXCEPT !.turns = x], c.pc, c.held, c.counted)
           /\ \A x : Changed(c, [c EXCEPT !.bad = x], c.pc, c.held, c.counted)
           /\ \A x : Changed(c, [c EXCEPT !.lost = x], c.pc, c.held, c.counted)
           /\ \A x, y : Changed(c, [c EXCEPT !.pc = x, !.status = y], x, c.held, c.counted)
           /\ \A x, y : Changed(c, [c EXCEPT !.held = x, !.lost = y], c.pc, x, c.counted)
           /\ \A x, y : Changed(c, [c EXCEPT !.held = x, !.bad = y], c.pc, x, c.counted)
  <1>1. \A x : Changed(c, [c EXCEPT !.pc = x], x, c.held, c.counted)
    BY DEF IsCall, Changed
  <1>2. \A x : Changed(c, [c EXCEPT !.held = x], c.pc, x, c.counted)
    BY DEF IsCall, Changed
  <1>3. \A x : Changed(c, [c EXCEPT !.counted = x], c.pc, c.held, x)
    BY DEF IsCall, Changed
  <1>4. \A x : Changed(c, [c EXCEPT !.turns = x], c.pc, c.held, c.counted)
    BY DEF IsCall, Changed
  <1>5. \A x : Changed(c, [c EXCEPT !.bad = x], c.pc, c.held, c.counted)
    BY DEF IsCall, Changed
  <1>6. \A x : Changed(c, [c EXCEPT !.lost = x], c.pc, c.held, c.counted)
    BY DEF IsCall, Changed
  <1>7. \A x, y : Changed(c, [c EXCEPT !.pc = x, !.status = y], x, c.held, c.counted)
    <2>1. TAKE x, y
    <2>2. PICK d : d = [c EXCEPT !.pc = x, !.status = y]
      OBVIOUS
    <2>3. IsCall(d)
      BY <2>2 DEF IsCall
    <2>4. d.op = c.op /\ d.pc = x /\ d.held = c.held /\ d.counted = c.counted
      BY <2>2 DEF IsCall
    <2>5. QED BY <2>2, <2>3, <2>4 DEF Changed
  <1>8. \A x, y : Changed(c, [c EXCEPT !.held = x, !.lost = y], c.pc, x, c.counted)
    <2>1. TAKE x, y
    <2>2. PICK d : d = [c EXCEPT !.held = x, !.lost = y]
      OBVIOUS
    <2>3. IsCall(d)
      BY <2>2 DEF IsCall
    <2>4. d.op = c.op /\ d.pc = c.pc /\ d.held = x /\ d.counted = c.counted
      BY <2>2 DEF IsCall
    <2>5. QED BY <2>2, <2>3, <2>4 DEF Changed
  <1>9. \A x, y : Changed(c, [c EXCEPT !.held = x, !.bad = y], c.pc, x, c.counted)
    <2>1. TAKE x, y
    <2>2. PICK d : d = [c EXCEPT !.held = x, !.bad = y]
      OBVIOUS
    <2>3. IsCall(d)
      BY <2>2 DEF IsCall
    <2>4. d.op = c.op /\ d.pc = c.pc /\ d.held = x /\ d.counted = c.counted
      BY <2>2 DEF IsCall
    <2>5. QED BY <2>2, <2>3, <2>4 DEF Changed
  <1>10. QED BY <1>1, <1>2, <1>3, <1>4, <1>5, <1>6, <1>7, <1>8, <1>9

\* The changes the actions are made of.
LEMMA ChangesOfSteps ==
    ASSUME NEW c, IsCall(c)
    PROVE  /\ Changed(c, On(c), c.pc + 1, c.held, c.counted)
           /\ Changed(c, JumpTo(c), c.pc + step.next, c.held, c.counted)
           /\ \A r, n : Changed(c, Got(c, r, n), c.pc, With(c.held, r, n), c.counted)
           /\ \A R : Changed(c, Freed(c, R), c.pc, Without(c.held, R), c.counted)
           /\ Changed(c, Failed(c), IF step.fail = 0 THEN 0 ELSE c.pc + step.fail,
                      Without(c.held, step.undo), c.counted)
  <1>1. Changed(c, On(c), c.pc + 1, c.held, c.counted)
    BY ChangedParts DEF On
  <1>2. Changed(c, JumpTo(c), c.pc + step.next, c.held, c.counted)
    BY ChangedParts DEF JumpTo
  <1>3. \A r, n : Changed(c, Got(c, r, n), c.pc, With(c.held, r, n), c.counted)
    BY ChangedParts DEF Got
  <1>4. \A R : Changed(c, Freed(c, R), c.pc, Without(c.held, R), c.counted)
    BY ChangedParts DEF Freed
  <1>5. Changed(c, Failed(c), IF step.fail = 0 THEN 0 ELSE c.pc + step.fail,
                Without(c.held, step.undo), c.counted)
    <2>1. PICK d : d = Freed(c, step.undo)
      OBVIOUS
    <2>2. Changed(c, d, c.pc, Without(c.held, step.undo), c.counted)
      BY <1>4, <2>1
    <2>3. Failed(c) = IF step.fail = 0 THEN [d EXCEPT !.pc = 0, !.status = "error"]
                                       ELSE [d EXCEPT !.pc = d.pc + step.fail]
      BY <2>1 DEF Failed
    <2>4. /\ Changed(d, [d EXCEPT !.pc = 0, !.status = "error"], 0, d.held, d.counted)
          /\ \A x : Changed(d, [d EXCEPT !.pc = x], x, d.held, d.counted)
      <3>1. IsCall(d)
        BY <2>2 DEF Changed
      <3>2. \A x, y : Changed(d, [d EXCEPT !.pc = x, !.status = y], x, d.held, d.counted)
        BY <3>1, ChangedParts
      <3>3. QED BY <3>1, <3>2, ChangedParts
    <2>5. PICK e : e = Failed(c)
      OBVIOUS
    <2>6. CASE step.fail = 0
      <3>1. Changed(d, e, 0, d.held, d.counted)
        BY <2>3, <2>4, <2>5, <2>6
      <3>2. QED BY <2>2, <2>5, <2>6, <3>1 DEF Changed
    <2>7. CASE step.fail # 0
      <3>1. Changed(d, e, d.pc + step.fail, d.held, d.counted)
        BY <2>3, <2>4, <2>5, <2>7
      <3>2. QED BY <2>2, <2>5, <2>7, <3>1 DEF Changed
    <2>8. QED BY <2>6, <2>7
  <1>6. QED BY <1>1, <1>2, <1>3, <1>4, <1>5

\* What the call holds no longer, or holds without any rows in it, changes
\* nothing that is known.
LEMMA KnowsHeld ==
    ASSUME NEW a, NEW d, IsCall(call), NatHeld(call), Knows(a, call), d.counted = call.counted
    PROVE  /\ d.held = call.held => NatHeld(d) /\ Knows(a, d)
           /\ \A R : d.held = Without(call.held, R) => NatHeld(d) /\ Knows(a, d)
           /\ \A r : \A n \in Nat : d.held = With(call.held, r, n) =>
                NatHeld(d) /\ (r # a.of => Knows(a, d))
  BY DEF NatHeld, Knows, Without, With

\* A step that goes on, jumps or fails with what the call held, or less of it.
LEMMA HeldOn ==
    ASSUME NEW known, AtPlace(known), IsCall(call), NatHeld(call), NEW c, NEW d, NEW R,
           c.held = call.held \/ c.held = Without(call.held, R),
           IsCall(c), c.op = call.op, c.pc = call.pc, c.counted = call.counted
    PROVE  /\ step.do \notin Ends /\ After(step.do, step.res, known[call.pc]) = known[call.pc]
                => Fine(On(c))
           /\ step.do \in Branches => Fine(JumpTo(c))
           /\ c = call => Fine(Failed(c))
  <1>1. NatHeld(c) /\ Knows(known[call.pc], c)
    BY KnowsHeld DEF AtPlace
  <1>2. step.do \notin Ends /\ After(step.do, step.res, known[call.pc]) = known[call.pc]
          => Fine(On(c))
    <2>1. PICK e : e = On(c)
      OBVIOUS
    <2>2. Changed(c, e, c.pc + 1, c.held, c.counted)
      BY <2>1, ChangesOfSteps
    <2>3. /\ IsCall(e) /\ e.op = call.op /\ NatHeld(e) /\ Knows(known[call.pc], e)
          /\ e.pc = call.pc + 1
      BY <1>1, <2>2 DEF Changed, NatHeld, Knows
    <2>4. QED BY <2>1, <2>3, GoesOn
  <1>3. step.do \in Branches => Fine(JumpTo(c))
    <2>1. PICK e : e = JumpTo(c)
      OBVIOUS
    <2>2. Changed(c, e, c.pc + step.next, c.held, c.counted)
      BY <2>1, ChangesOfSteps
    <2>3. /\ IsCall(e) /\ e.op = call.op /\ NatHeld(e) /\ Knows(known[call.pc], e)
          /\ e.pc = call.pc + step.next
      BY <1>1, <2>2 DEF Changed, NatHeld, Knows
    <2>4. QED BY <2>1, <2>3, GoesOn
  <1>4. Fine(Failed(call))
    <2>1. PICK e : e = Failed(call)
      OBVIOUS
    <2>2. Changed(call, e, IF step.fail = 0 THEN 0 ELSE call.pc + step.fail,
                  Without(call.held, step.undo), call.counted)
      BY <2>1, ChangesOfSteps
    <2>3. /\ IsCall(e) /\ e.op = call.op /\ e.counted = call.counted
          /\ e.held = Without(call.held, step.undo)
          /\ e.pc = 0 \/ (e.pc = call.pc + step.fail /\ step.fail # 0)
      BY <2>2 DEF Changed
    <2>4. NatHeld(e) /\ Knows(known[call.pc], e)
      BY <2>3, KnowsHeld DEF AtPlace
    <2>5. QED BY <2>1, <2>3, <2>4, GoesOn
  <1>5. QED BY <1>2, <1>3, <1>4

\* A step that is followed by the next one, whatever it does to the rows.
LEMMA GoesNext ==
    ASSUME NEW known, AtPlace(known), NEW d, IsCall(d), d.op = call.op, d.pc = call.pc, NatHeld(d),
           step.do \notin Ends, Knows(After(step.do, step.res, known[call.pc]), d)
    PROVE  Fine(On(d))
  <1>1. PICK e : e = On(d)
    OBVIOUS
  <1>2. Changed(d, e, d.pc + 1, d.held, d.counted)
    BY <1>1, ChangesOfSteps
  <1>3. /\ IsCall(e) /\ e.op = call.op /\ e.pc = call.pc + 1 /\ NatHeld(e)
        /\ Knows(After(step.do, step.res, known[call.pc]), e)
    BY <1>2 DEF Changed, NatHeld, Knows
  <1>4. QED BY <1>1, <1>3, GoesOn

\* A call starts with nothing known, at the first step of a safe program.
LEMMA BeginFine ==
    ASSUME RowsIInv, Begin
    PROVE  Fine(call')
  <1>1. PICK op \in DOMAIN Programs[platform] : call' = [NoCall EXCEPT !.op = op, !.status = "ok"]
    BY DEF Begin
  <1>2. PICK d : d = call'
    OBVIOUS
  <1>3. PICK c : c = NoCall
    OBVIOUS
  <1>4. IsCall(d) /\ d.op = op /\ d.pc = 1 /\ d.held = <<>> /\ d.counted = 0
    <2>1. IsCall(c) /\ c.pc = 1 /\ c.held = <<>> /\ c.counted = 0
      BY <1>3, MachineIs DEF IsCall
    <2>2. d = [c EXCEPT !.op = op, !.status = "ok"]
      BY <1>1, <1>2, <1>3
    <2>3. IsCall(d)
      BY ONLY <2>1, <2>2 DEF IsCall
    <2>4. d.op = op /\ d.pc = c.pc /\ d.held = c.held /\ d.counted = c.counted
      BY ONLY <2>1, <2>2 DEF IsCall
    <2>5. QED BY <2>1, <2>3, <2>4
  <1>5. PICK s : s = Programs[platform][op]
    OBVIOUS
  <1>6. Safe(s)
    BY <1>1, <1>5, ProgramsSafe DEF RowsIInv
  <1>7. PICK known : RightFrom(s, 0, Len(s), known) /\ Implies(None, known[1])
    BY <1>6, FitsAre DEF Safe
  <1>8. known[1].kind = "none"
    BY <1>7 DEF Implies, None, Level
  <1>9. 1 \in 1..Len(s)+1 /\ Knows(known[1], d) /\ NatHeld(d)
    BY <1>4, <1>6, <1>8, FitsAre DEF Safe, Knows, NatHeld
  <1>10. RightPlace(d)
    BY <1>1, <1>4, <1>5, <1>7, <1>9 DEF RightPlace
  <1>11. QED BY <1>2, <1>4, <1>9, <1>10 DEF Fine

LEMMA NoCallFine == Fine(NoCall)
  <1>1. PICK d : d = NoCall
    OBVIOUS
  <1>2. IsCall(d) /\ d.op = Nothing /\ d.held = <<>> /\ d.counted = 0
    BY <1>1, MachineIs DEF IsCall
  <1>3. QED BY <1>1, <1>2 DEF Fine, NatHeld

\* The actions of the machine.
LEMMA AcquireFine ==
    ASSUME RowsIInv, Acquire
    PROVE  Fine(call')
  <1>1. PICK what \in {"take", "open"} : Doing(what)
    BY DEF Acquire
  <1>2. /\ step.do = what /\ call.op # Nothing /\ IsCall(call) /\ NatHeld(call)
        /\ \E known : AtPlace(known)
    BY <1>1, AtStep
  <1>3. PICK known : AtPlace(known)
    BY <1>2
  <1>4. Fine(Failed(call))
    BY <1>2, <1>3, HeldOn
  <1>5. Fine(On(Got(call, step.res, 0)))
    <2>1. PICK d : d = Got(call, step.res, 0)
      OBVIOUS
    <2>2. PICK n \in Nat : n = 0
      OBVIOUS
    <2>3. Changed(call, d, call.pc, With(call.held, step.res, n), call.counted)
      BY <1>2, <2>1, <2>2, ChangesOfSteps
    <2>4. IsCall(d) /\ d.op = call.op /\ d.pc = call.pc /\ d.counted = call.counted
          /\ d.held = With(call.held, step.res, n)
      BY <2>3 DEF Changed
    <2>5. PICK a : a = known[call.pc]
      OBVIOUS
    <2>6. Knows(a, call)
      BY <1>3, <2>5 DEF AtPlace
    <2>7. NatHeld(d) /\ (step.res # a.of => Knows(a, d))
      BY <1>2, <2>4, <2>6, KnowsHeld
    <2>8. Knows(After(step.do, step.res, a), d)
      <3>1. CASE step.res \in Lists \cup {a.of}
        <4>1. After(step.do, step.res, a) = None
          BY <1>1, <1>2, <3>1 DEF After
        <4>2. QED BY <4>1 DEF Knows, None, Level
      <3>2. CASE step.res \notin Lists \cup {a.of}
        <4>1. After(step.do, step.res, a) = a
          BY <1>1, <1>2, <3>2 DEF After
        <4>2. QED BY <2>7, <3>2, <4>1
      <3>3. QED BY <3>1, <3>2
    <2>9. QED BY <1>1, <1>2, <1>3, <2>1, <2>4, <2>5, <2>7, <2>8, GoesNext DEF Ends
  <1>6. QED BY <1>4, <1>5 DEF Acquire

\* What a step does that is not about the rows.
LEMMA PlainFine ==
    ASSUME RowsIInv, NEW what, Doing(what),
           what \in {"free", "free_if", "use", "ask", "throws", "new_handle", "keep", "clear",
                     "dispose", "use_kept", "overwrite", "fill", "use_filled", "if_kept", "fork",
                     "refuse", "jump", "loop"},
           NEW c,
           \/ c = call
           \/ \E R : c = Freed(call, R)
           \/ \E x : c = [call EXCEPT !.bad = x]
           \/ \E x : c = [call EXCEPT !.lost = x]
           \/ \E x : c = [call EXCEPT !.turns = x]
    PROVE  /\ what \notin {"refuse", "jump"} => Fine(On(c))
           /\ what \in {"if_kept", "fork", "jump", "loop"} => Fine(JumpTo(c))
           /\ Fine(Failed(call))
  <1>1. /\ step.do = what /\ IsCall(call) /\ NatHeld(call)
        /\ \E known : AtPlace(known)
    BY AtStep
  <1>2. PICK known : AtPlace(known)
    BY <1>1
  <1>3. /\ c.held = call.held \/ \E R : c.held = Without(call.held, R)
        /\ IsCall(c) /\ c.op = call.op /\ c.pc = call.pc /\ c.counted = call.counted
    <2>1. CASE c = call
      BY <1>1, <2>1
    <2>2. CASE \E R : c = Freed(call, R)
      <3>1. PICK R : c = Freed(call, R)
        BY <2>2
      <3>2. Changed(call, c, call.pc, Without(call.held, R), call.counted)
        BY <1>1, <3>1, ChangesOfSteps
      <3>3. QED BY <3>2 DEF Changed
    <2>3. CASE \/ \E x : c = [call EXCEPT !.bad = x]
               \/ \E x : c = [call EXCEPT !.lost = x]
               \/ \E x : c = [call EXCEPT !.turns = x]
      <3>1. Changed(call, c, call.pc, call.held, call.counted)
        <4>1. \A x : /\ Changed(call, [call EXCEPT !.bad = x], call.pc, call.held, call.counted)
                     /\ Changed(call, [call EXCEPT !.lost = x], call.pc, call.held, call.counted)
                     /\ Changed(call, [call EXCEPT !.turns = x], call.pc, call.held, call.counted)
          BY <1>1, ChangedParts
        <4>2. QED BY ONLY <2>3, <4>1
      <3>2. QED BY <3>1 DEF Changed
    <2>4. QED BY <2>1, <2>2, <2>3
  <1>4. what \notin {"refuse", "jump"} =>
          what \notin Ends /\ After(what, step.res, known[call.pc]) = known[call.pc]
    BY DEF Ends, After
  <1>5. what \in {"if_kept", "fork", "jump", "loop"} => what \in Branches
    BY DEF Branches
  <1>6. PICK R : c.held = call.held \/ c.held = Without(call.held, R)
    BY <1>3
  <1>7. Fine(Failed(call))
    BY <1>1, <1>2, HeldOn
  <1>8. QED BY <1>1, <1>2, <1>3, <1>4, <1>5, <1>6, <1>7, HeldOn

LEMMA StepInCallFine ==
    ASSUME RowsIInv, StepInCall
    PROVE  Fine(call')
  <1>1. CASE Acquire
    BY <1>1, AcquireFine
  <1>2. CASE Release
    BY <1>2, PlainFine DEF Release
  <1>3. CASE UseResource
    <2>1. PICK c : c = [call EXCEPT !.bad = call.bad \cup ({step.res} \ DOMAIN call.held)]
      OBVIOUS
    <2>2. Doing("use") /\ call' = On(c)
      BY <1>3, <2>1 DEF UseResource
    <2>3. \E x : c = [call EXCEPT !.bad = x]
      BY <2>1
    <2>4. QED BY <2>2, <2>3, PlainFine
  <1>4. CASE AskSystem
    BY <1>4, PlainFine DEF AskSystem
  <1>5. CASE CallJava
    <2>1. Doing("throws") /\ call' \in {On(call), [call EXCEPT !.pc = 0, !.status = "thrown"]}
      BY <1>5 DEF CallJava
    <2>2. CASE call' = On(call)
      BY <2>1, <2>2, PlainFine
    <2>3. CASE call' = [call EXCEPT !.pc = 0, !.status = "thrown"]
      <3>1. PICK d : d = [call EXCEPT !.pc = 0, !.status = "thrown"]
        OBVIOUS
      <3>2. IsCall(call) /\ NatHeld(call) /\ \E known : AtPlace(known)
        BY <2>1, AtStep
      <3>3. \A x, y : Changed(call, [call EXCEPT !.pc = x, !.status = y],
                             x, call.held, call.counted)
        BY <3>2, ChangedParts
      <3>4. Changed(call, d, 0, call.held, call.counted)
        BY <3>1, <3>3
      <3>5. IsCall(d) /\ d.op = call.op /\ NatHeld(d) /\ d.pc = 0
        BY <3>2, <3>4 DEF Changed, NatHeld
      <3>6. QED BY <2>3, <3>1, <3>2, <3>5, GoesOn
    <2>4. QED BY <2>1, <2>2, <2>3
  <1>6. QED BY <1>1, <1>2, <1>3, <1>4, <1>5 DEF StepInCall

\* What is lost or bad changes nothing that is known.
LEMMA MarkedFine ==
    ASSUME NEW c, Fine(c), NEW x
    PROVE  Fine([c EXCEPT !.bad = x]) /\ Fine([c EXCEPT !.lost = x])
  <1>1. ASSUME NEW d, Changed(c, d, c.pc, c.held, c.counted)
        PROVE  Fine(d)
    BY <1>1 DEF Changed, Fine, NatHeld, RightPlace, Knows
  <1>2. /\ Changed(c, [c EXCEPT !.bad = x], c.pc, c.held, c.counted)
        /\ Changed(c, [c EXCEPT !.lost = x], c.pc, c.held, c.counted)
    BY ChangedParts DEF Fine
  <1>3. QED BY <1>1, <1>2

LEMMA OnFieldFine ==
    ASSUME RowsIInv, OnField
    PROVE  Fine(call')
  <1>1. PICK what \in {"new_handle", "keep", "clear", "dispose", "use_kept", "overwrite", "fill",
                       "use_filled", "if_kept"} : Doing(what)
    BY DEF OnField
  <1>2. Fine(On(call)) /\ (what = "if_kept" => Fine(JumpTo(call)))
    BY <1>1, PlainFine
  <1>3. \A x : Fine([On(call) EXCEPT !.bad = x]) /\ Fine([On(call) EXCEPT !.lost = x])
    BY <1>2, MarkedFine
  <1>4. Fine(Losing) /\ \A x : Fine(Unless(x))
    BY <1>2, <1>3 DEF Losing, Unless
  <1>5. step.do = what
    BY <1>1, MachineIs
  <1>6. \/ call' = On(call) \/ call' = Losing \/ (\E x : call' = Unless(x))
        \/ Doing("if_kept") /\ call' = JumpTo(call)
    BY DEF OnField, FieldNow
  <1>7. QED BY <1>1, <1>2, <1>4, <1>5, <1>6, MachineIs

LEMMA OnListFine ==
    ASSUME RowsIInv, OnList
    PROVE  Fine(call')
  <1>1. PICK what \in {"new_list", "count", "new_counted", "grow", "put"} : Doing(what)
    BY DEF OnList
  <1>2. step.do = what /\ IsCall(call) /\ NatHeld(call) /\ \E known : AtPlace(known)
    BY <1>1, AtStep
  <1>3. PICK known : AtPlace(known)
    BY <1>2
  <1>4. PICK a : a = known[call.pc]
    OBVIOUS
  <1>5. Knows(a, call) /\ Right(step, call.pc, Len(Programs[platform][call.op]), known)
    BY <1>3, <1>4 DEF AtPlace
  <1>6. PICK r : r = step.res
    OBVIOUS
  <1>7. ASSUME NEW d, IsCall(d), d.op = call.op, d.pc = call.pc, NatHeld(d),
               Knows(After(what, r, a), d), call' = On(d)
        PROVE  Fine(call')
    BY <1>1, <1>2, <1>3, <1>4, <1>6, <1>7, GoesNext DEF Ends
  <1>8. Chunk \in Nat /\ Chunk > 0
    BY CallBounds
  <1>9. ASSUME NEW n \in Nat, NEW d, d = Got(call, r, n)
        PROVE  /\ IsCall(d) /\ d.op = call.op /\ d.pc = call.pc /\ d.counted = call.counted
               /\ d.held[r] = n /\ r \in DOMAIN d.held /\ NatHeld(d)
    <2>1. Changed(call, d, call.pc, With(call.held, r, n), call.counted)
      BY <1>2, <1>9, ChangesOfSteps
    <2>2. QED BY <1>2, <1>5, <2>1, KnowsHeld DEF Changed, With
  <1>10. CASE what = "new_list"
    <2>1. PICK d : d = Got(call, r, Chunk)
      OBVIOUS
    <2>2. Knows(After(what, r, a), d)
      BY <1>8, <1>9, <1>10, <2>1 DEF After, Knows, Room, Level
    <2>3. call' = On(d)
      BY <1>2, <1>6, <1>10, <2>1, MachineIs DEF OnList
    <2>4. QED BY <1>7, <1>8, <1>9, <2>1, <2>2, <2>3
  <1>11. CASE what = "new_counted"
    <2>1. PICK d : d = Got(call, r, call.counted)
      OBVIOUS
    <2>2. Knows(After(what, r, a), d)
      BY <1>2, <1>9, <1>11, <2>1 DEF After, Knows, Counted, Level, NatHeld
    <2>3. call' = On(d)
      BY <1>2, <1>6, <1>11, <2>1, MachineIs DEF OnList
    <2>4. QED BY <1>2, <1>7, <1>9, <2>1, <2>2, <2>3 DEF NatHeld
  <1>12. CASE what = "count"
    <2>1. PICK n \in 0..MaxTurns : call' = On([call EXCEPT !.counted = n])
      BY <1>2, <1>12, MachineIs DEF OnList
    <2>2. PICK d : d = [call EXCEPT !.counted = n]
      OBVIOUS
    <2>3. Changed(call, d, call.pc, call.held, n)
      BY <1>2, <2>2, ChangedParts
    <2>4. IsCall(d) /\ d.op = call.op /\ d.pc = call.pc /\ NatHeld(d)
      BY <1>2, <2>3 DEF Changed, NatHeld
    <2>5. Knows(After(what, r, a), d)
      BY <1>12 DEF After, Knows, None, Level
    <2>6. QED BY <1>7, <2>1, <2>2, <2>4, <2>5
  <1>13. CASE what = "grow"
    <2>1. PICK h : h = [call.held EXCEPT ![r] = IF call.held[r] <= 0 THEN call.held[r] + Chunk
                                                                    ELSE call.held[r]]
      OBVIOUS
    <2>2. PICK d : d = [call EXCEPT !.held = h]
      OBVIOUS
    <2>3. Changed(call, d, call.pc, h, call.counted)
      BY <1>2, <2>2, ChangedParts
    <2>4. call' = On(d)
      BY <1>2, <1>6, <1>13, <2>1, <2>2, MachineIs DEF OnList
    <2>5. /\ DOMAIN h = DOMAIN call.held
          /\ \A x \in DOMAIN h : h[x] \in Nat /\ (x = r => h[x] > 0)
      BY <1>2, <1>8, <2>1 DEF NatHeld
    <2>6. IsCall(d) /\ d.op = call.op /\ d.pc = call.pc /\ NatHeld(d) /\ d.held = h
      BY <1>2, <2>3, <2>5 DEF Changed, NatHeld
    <2>7. Knows(After(what, r, a), d)
      BY <1>13, <2>5, <2>6 DEF After, Knows, Room, Level
    <2>8. QED BY <1>7, <2>4, <2>6, <2>7
  <1>14. CASE what = "put"
    <2>1. a.kind \in {"room", "spare"} /\ a.of = r
      BY <1>2, <1>4, <1>5, <1>6, <1>14 DEF Right
    <2>2. PICK h : h = [call.held EXCEPT ![r] = call.held[r] - 1]
      OBVIOUS
    <2>3. PICK d : d = [call EXCEPT !.held = h]
      OBVIOUS
    <2>4. Changed(call, d, call.pc, h, call.counted)
      BY <1>2, <2>3, ChangedParts
    <2>5. call' = On(d)
      BY <1>2, <1>6, <1>14, <2>2, <2>3, MachineIs DEF OnList
    <2>6. r \in DOMAIN call.held =>
            call.held[r] > 0 /\ (a.kind = "spare" => call.held[r] > call.counted)
      BY <1>5, <2>1 DEF Knows
    <2>7. /\ DOMAIN h = DOMAIN call.held
          /\ \A x \in DOMAIN h : h[x] \in Nat
          /\ r \in DOMAIN h /\ a.kind = "spare" => h[r] >= call.counted
      BY <1>2, <2>2, <2>6 DEF NatHeld
    <2>8. IsCall(d) /\ d.op = call.op /\ d.pc = call.pc /\ NatHeld(d) /\ d.held = h
          /\ d.counted = call.counted
      BY <1>2, <2>4, <2>7 DEF Changed, NatHeld
    <2>9. Knows(After(what, r, a), d)
      BY <1>14, <2>1, <2>7, <2>8 DEF After, Knows, Counted, None, Level
    <2>10. QED BY <1>7, <2>5, <2>8, <2>9
  <1>15. QED BY <1>10, <1>11, <1>12, <1>13, <1>14

LEMMA ControlFine ==
    ASSUME RowsIInv, Control
    PROVE  Fine(call')
  <1>1. CASE Doing("jump") /\ call' = JumpTo(call)
    BY <1>1, PlainFine
  <1>2. CASE Doing("fork") /\ call' \in {On(call), JumpTo(call)}
    BY <1>2, PlainFine
  <1>3. CASE /\ Doing("loop")
             /\ call' \in {JumpTo(call)} \cup {On([call EXCEPT !.turns = @ + 1]) :
                                                 t \in {call.turns} \cap 0..(MaxTurns - 1)}
    <2>1. PICK c : c = [call EXCEPT !.turns = call.turns + 1]
      OBVIOUS
    <2>2. \E x : c = [call EXCEPT !.turns = x]
      BY <2>1
    <2>3. call' = JumpTo(call) \/ call' = On(c)
      BY <1>3, <2>1
    <2>4. QED BY <1>3, <2>2, <2>3, PlainFine
  <1>4. CASE /\ Doing("each")
             /\ call' = IF call.counted = 0 THEN JumpTo(call)
                                            ELSE On([call EXCEPT !.counted = @ - 1])
    <2>1. step.do = "each" /\ IsCall(call) /\ NatHeld(call) /\ \E known : AtPlace(known)
      BY <1>4, AtStep
    <2>2. PICK known : AtPlace(known)
      BY <2>1
    <2>3. PICK a : a = known[call.pc]
      OBVIOUS
    <2>4. Knows(a, call)
      BY <2>2, <2>3 DEF AtPlace
    <2>5. CASE call.counted = 0
      <3>1. Fine(JumpTo(call))
        BY <2>1, <2>2, HeldOn DEF Branches
      <3>2. QED BY <1>4, <2>5, <3>1
    <2>6. CASE call.counted # 0
      <3>1. PICK n \in Nat : n = call.counted - 1
        BY <2>1, <2>6 DEF NatHeld
      <3>2. PICK d : d = [call EXCEPT !.counted = n]
        OBVIOUS
      <3>3. Changed(call, d, call.pc, call.held, n)
        BY <2>1, <3>2, ChangedParts
      <3>4. call' = On(d)
        BY <1>4, <2>6, <3>1, <3>2
      <3>5. IsCall(d) /\ d.op = call.op /\ d.pc = call.pc /\ NatHeld(d) /\ d.counted = n
            /\ d.held = call.held
        BY <2>1, <3>3 DEF Changed, NatHeld
      <3>6. Knows(After("each", step.res, a), d)
        <4>1. CASE a.kind = "counted"
          <5>1. After("each", step.res, a) = Spare(a.of)
            BY <4>1 DEF After
          <5>2. a.of \in DOMAIN d.held => d.held[a.of] \in Nat /\ d.held[a.of] > n
            BY <2>1, <2>4, <3>1, <3>5, <4>1 DEF Knows, NatHeld
          <5>3. QED BY <3>1, <3>5, <5>1, <5>2 DEF Knows, Spare, Level
        <4>2. CASE a.kind # "counted"
          BY <4>2 DEF After, Knows, None, Level
        <4>3. QED BY <4>1, <4>2
      <3>7. Fine(On(d))
        BY <2>1, <2>2, <2>3, <3>5, <3>6, GoesNext DEF Ends
      <3>8. QED BY <3>4, <3>7
    <2>7. QED BY <2>5, <2>6
  <1>5. QED BY <1>1, <1>2, <1>3, <1>4 DEF Control

\* The invariant holds at first, and every step keeps it.
LEMMA RowsStart == CallsInit => RowsIInv
  <1>1. SUFFICES ASSUME CallsInit PROVE RowsIInv
    OBVIOUS
  <1>2. platform \in Platforms /\ call = NoCall /\ step = Over[1]
    BY <1>1 DEF CallsInit
  <1>3. StepOf(call) = Over[1]
    <2>1. PICK c : c = call
      OBVIOUS
    <2>2. c.op = Nothing
      BY <1>2, <2>1, MachineIs
    <2>3. QED BY <2>1, <2>2, MachineIs
  <1>4. QED BY <1>2, <1>3, NoCallFine DEF RowsIInv

LEMMA RowsNext == RowsIInv /\ [CallsNext]_<<platform, callVars>> => RowsIInv'
  <1>1. SUFFICES ASSUME RowsIInv, [CallsNext]_<<platform, callVars>> PROVE RowsIInv'
    OBVIOUS
  <1>2. CASE UNCHANGED <<platform, callVars>>
    <2>1. platform' = platform /\ call' = call /\ step' = step
      BY <1>2 DEF callVars
    <2>2. QED BY <1>1, <2>1 DEF RowsIInv, Fine, RightPlace, StepOf
  <1>3. CASE CallsNext
    <2>1. Moves
      BY <1>3 DEF CallsNext
    <2>2. Fine(call')
      <3>1. CASE Begin
        BY <1>1, <3>1, BeginFine
      <3>2. CASE Return
        BY <3>2, NoCallFine DEF Return
      <3>3. CASE StepInCall
        BY <1>1, <3>3, StepInCallFine
      <3>4. CASE OnField
        BY <1>1, <3>4, OnFieldFine
      <3>5. CASE OnList
        BY <1>1, <3>5, OnListFine
      <3>6. CASE Control
        BY <1>1, <3>6, ControlFine
      <3>7. QED BY <1>3, <3>1, <3>2, <3>3, <3>4, <3>5, <3>6 DEF CallsNext
    <2>3. QED BY <1>1, <2>1, <2>2 DEF RowsIInv, Moves, Fine, RightPlace, StepOf
  <1>4. QED BY <1>1, <1>2, <1>3

\* For any chunk of rows, and any number of turns of any loop: whatever calls are
\* made on any of the six platforms, no row of a list is stored behind its end.
THEOREM RowsAlwaysFit == CallsSpec => []RowsFit
  <1>1. RowsIInv => RowsFit
    BY DEF RowsIInv, Fine, NatHeld, RowsFit
  <1>2. QED BY <1>1, RowsStart, RowsNext, PTL DEF CallsSpec

(***************************************************************************)
(* What SigarResources_proofs rests on. Every resource of a call and every *)
(* field of the handle is followed by itself: of a program it is shown how *)
(* it moves the one that is followed, from which values to which, and with *)
(* which it may end early; and how programs that are put together do.      *)
(***************************************************************************)

(***************************************************************************)
(* The values of what is followed. A resource is held or out, a field is   *)
(* what the machine says.                                                  *)
(***************************************************************************)
FieldValues == {"null", "garbage", "live", "filled", "dangling"}
Living == {"live", "filled"}
Gone == FieldValues \ Living
Values == FieldValues \cup {"out", "held"}

Taking == {"take", "open", "new_list", "new_counted"}
Failing == {"open", "ask", "refuse"}
EarlyEnds == {"error", "thrown"}

\* What a step makes of the value of what it names.
Then(do, v) ==
  CASE do \in Taking -> "held"
    [] do \in {"free", "free_if"} -> "out"
    [] do \in {"keep", "overwrite"} -> "live"
    [] do = "clear" -> "null"
    [] do = "dispose" -> "dangling"
    [] do = "fill" -> "filled"
    [] OTHER -> v

\* What it needs, so that nothing is lost and nothing used that is not there:
\* what the calls of platform p are known to use stale may be there or not.
Ready(p, do, n, v) ==
  /\ do \in Taking => v = "out"
  /\ do \in {"free", "use"} => v = "held" \/ (n \in StaleBuffers[p] /\ v = "out")
  /\ do = "free_if" => v \in {"out", "held"}
  /\ do \in {"keep", "clear"} => v \in Gone
  /\ do \in {"dispose", "use_kept", "overwrite", "fill"} =>
       v \in Living \/ (n \in StaleBuffers[p] /\ v \in FieldValues)
  /\ do = "use_filled" => v = "filled" \/ (n \in StaleBuffers[p] /\ v \in FieldValues)
  /\ do = "if_kept" => v \in FieldValues

\* What a new handle makes of the value of n.
Renewed(n, v) ==
  IF v \in {"out", "held"} \/ n = "jsigar" THEN v ELSE IF n = "handle" THEN "live" ELSE "garbage"

(***************************************************************************)
(* A step and the values w of the names that are followed.                 *)
(***************************************************************************)
Turned(st, w) ==
  IF st.do = "new_handle" THEN [n \in DOMAIN w |-> Renewed(n, w[n])]
    ELSE [n \in DOMAIN w |-> IF n = st.res THEN Then(st.do, w[n]) ELSE w[n]]
Undone(u, w) == [n \in DOMAIN w |-> IF n \in u THEN "out" ELSE w[n]]
CanUndo(u, w) == \A n \in u \cap DOMAIN w : w[n] = "held"

Good(p, st, w) ==
  /\ st.do # "return"
  /\ st.res \in DOMAIN w => Ready(p, st.do, st.res, w[st.res])
  /\ st.do \in Failing => CanUndo(st.undo, w)

\* Is it known which way a test of a field goes?
FoundNull(st, w) == st.do = "if_kept" /\ st.res \in DOMAIN w /\ w[st.res] = "null"
FoundSet(st, w) == st.do = "if_kept" /\ st.res \in DOMAIN w /\ w[st.res] # "null"

\* From w the step may go on d further with v, or end the call with v.
GoesOnTo(st, w, d, v) ==
  \/ st.do \notin Ends /\ ~FoundNull(st, w) /\ d = 1 /\ v = Turned(st, w)
  \/ st.do \in {"jump"} \cup Branches /\ ~FoundSet(st, w) /\ d = st.next /\ v = w
  \/ st.do \in Failing /\ st.fail # 0 /\ d = st.fail /\ v = Undone(st.undo, w)
EndsWith(st, w, status, v) ==
  \/ st.do \in Failing /\ st.fail = 0 /\ status = "error" /\ v = Undone(st.undo, w)
  \/ st.do = "throws" /\ status = "thrown" /\ v = w

\* The step at i of n is right when known has the values before every step and
\* behind the last, and exits those the call may end with early.
Sound(p, st, i, n, known, exits) ==
  \A w \in known[i] :
    /\ Good(p, st, w)
    /\ \A d, v : GoesOnTo(st, w, d, v) => i + d \in 1..n+1 /\ v \in known[i + d]
    /\ \A status, v : EndsWith(st, w, status, v) => <<status, v>> \in exits
SoundFrom(p, s, o, n, known, exits) == \A i \in 1..Len(s) : Sound(p, s[i], o + i, n, known, exits)

\* The program leads from values in a to values in b, and through those of all.
MovesIn(p, s, a, b, exits, all) ==
  /\ IsSteps(s)
  /\ \E known : /\ SoundFrom(p, s, 0, Len(s), known, exits)
                /\ a \subseteq known[1] /\ known[Len(s) + 1] \subseteq b
                /\ \A i \in 1..Len(s) : known[i] \subseteq all

\* What a program that moves its names so is.
LEMMA MovesAre ==
    ASSUME NEW p, NEW s, NEW a, NEW b, NEW exits, NEW all, MovesIn(p, s, a, b, exits, all)
    PROVE  /\ IsSteps(s) /\ Len(s) \in Nat
           /\ \E known : /\ SoundFrom(p, s, 0, Len(s), known, exits)
                         /\ a \subseteq known[1] /\ known[Len(s) + 1] \subseteq b
                         /\ \A i \in 1..Len(s) : known[i] \subseteq all
  BY StepsAre DEF MovesIn

\* What is enough to say so.
LEMMA MovesShown ==
    ASSUME NEW p, NEW s, NEW a, NEW b, NEW exits, NEW all, IsSteps(s), NEW known,
           SoundFrom(p, s, 0, Len(s), known, exits),
           a \subseteq known[1], known[Len(s) + 1] \subseteq b,
           \A i \in 1..Len(s) : known[i] \subseteq all
    PROVE  MovesIn(p, s, a, b, exits, all)
  BY DEF MovesIn

\* Fewer values before, more behind, and more ends.
LEMMA MovesWeaker ==
    ASSUME NEW p, NEW s, NEW a, NEW b, NEW exits, NEW all, MovesIn(p, s, a, b, exits, all),
           NEW a2, NEW b2, NEW exits2, NEW all2,
           a2 \subseteq a, b \subseteq b2, exits \subseteq exits2, all \subseteq all2
    PROVE  MovesIn(p, s, a2, b2, exits2, all2)
  BY DEF MovesIn, SoundFrom, Sound

\* A step that is right in a program is right at its place in a longer one.
LEMMA SoundElsewhere ==
    ASSUME NEW p, NEW st, NEW m \in Nat, NEW i \in 1..m, NEW known1, NEW exits1,
           Sound(p, st, i, m, known1, exits1),
           NEW n \in Nat, NEW o \in Nat, o + m <= n, NEW known, NEW exits,
           \A k \in 1..m : known[o + k] = known1[k],
           known1[m + 1] \subseteq known[o + m + 1], exits1 \subseteq exits,
           \A w \in known1[i] : \A d, v : GoesOnTo(st, w, d, v) => d \in Int
    PROVE  Sound(p, st, o + i, n, known, exits)
  <1>1. SUFFICES ASSUME NEW w \in known[o + i]
                 PROVE  /\ Good(p, st, w)
                        /\ \A d, v : GoesOnTo(st, w, d, v) =>
                             o + i + d \in 1..n+1 /\ v \in known[o + i + d]
                        /\ \A status, v : EndsWith(st, w, status, v) => <<status, v>> \in exits
    BY DEF Sound
  <1>2. w \in known1[i]
    OBVIOUS
  <1>3. ASSUME NEW d, NEW v, GoesOnTo(st, w, d, v)
        PROVE  o + i + d \in 1..n+1 /\ v \in known[o + i + d]
    <2>1. d \in Int /\ i + d \in 1..m+1 /\ v \in known1[i + d]
      BY <1>2, <1>3 DEF Sound
    <2>2. PICK j \in 1..m+1 : j = i + d
      BY <2>1
    <2>3. o + i + d = o + j /\ o + j \in 1..n+1
      BY <2>1, <2>2
    <2>4. v \in known[o + j]
      <3>1. CASE j = m + 1
        <4>1. o + j = o + m + 1
          BY <3>1
        <4>2. QED BY <2>1, <2>2, <3>1, <4>1
      <3>2. CASE j # m + 1
        BY <2>1, <2>2, <3>2
      <3>3. QED BY <3>1, <3>2
    <2>5. QED BY <2>3, <2>4
  <1>4. QED BY <1>2, <1>3 DEF Sound

\* Steps go a whole number of places on.
LEMMA StepLengths ==
    ASSUME NEW s, IsSteps(s), NEW i \in 1..Len(s), NEW w, NEW d, NEW v, GoesOnTo(s[i], w, d, v)
    PROVE  d \in Int
  <1>1. s[i].next \in Int /\ s[i].fail \in Int
    BY StepsAre
  <1>2. QED BY <1>1 DEF GoesOnTo

\* A program that is right is right as a part of a longer one.
LEMMA SoundPlaced ==
    ASSUME NEW p, NEW s, IsSteps(s), NEW known1, NEW exits, SoundFrom(p, s, 0, Len(s), known1, exits),
           NEW n \in Nat, NEW o \in Nat, o + Len(s) <= n, NEW known,
           \A k \in 1..Len(s) : known[o + k] = known1[k],
           known1[Len(s) + 1] \subseteq known[o + Len(s) + 1]
    PROVE  SoundFrom(p, s, o, n, known, exits)
  <1>1. SUFFICES ASSUME NEW i \in 1..Len(s) PROVE Sound(p, s[i], o + i, n, known, exits)
    BY DEF SoundFrom
  <1>2. Sound(p, s[i], i, Len(s), known1, exits)
    <2>1. Sound(p, s[i], 0 + i, Len(s), known1, exits) /\ 0 + i = i
      BY DEF SoundFrom
    <2>2. QED BY <2>1
  <1>3. Len(s) \in Nat
    BY StepsAre
  <1>4. \A w \in known1[i] : \A d, v : GoesOnTo(s[i], w, d, v) => d \in Int
    BY StepLengths
  <1>5. QED BY <1>2, <1>3, <1>4, SoundElsewhere

\* Two parts that are right, one behind the other.
LEMMA SoundJoin ==
    ASSUME NEW p, NEW s, NEW t, IsSteps(s), IsSteps(t), NEW o \in Nat, NEW q, q = o + Len(s),
           NEW n, NEW known, NEW exits,
           SoundFrom(p, s, o, n, known, exits), SoundFrom(p, t, q, n, known, exits)
    PROVE  /\ SoundFrom(p, s \o t, o, n, known, exits)
           /\ IsSteps(s \o t) /\ Len(s \o t) = Len(s) + Len(t)
  <1>1. Len(s) \in Nat /\ Len(t) \in Nat
    BY StepsAre
  <1> SUFFICES SoundFrom(p, s \o t, o, n, known, exits)
    BY IsStepsJoin
  <1>2. SUFFICES ASSUME NEW i \in 1..Len(s \o t)
                 PROVE  Sound(p, (s \o t)[i], o + i, n, known, exits)
    BY DEF SoundFrom
  <1>3. CASE i <= Len(s)
    BY <1>1, <1>3, IsStepsJoin DEF SoundFrom
  <1>4. CASE i > Len(s)
    <2>1. PICK j \in 1..Len(t) : i = Len(s) + j
      <3>1. i - Len(s) \in 1..Len(t) /\ i = Len(s) + (i - Len(s))
        BY <1>1, <1>2, <1>4, IsStepsJoin
      <3>2. QED BY <3>1
    <2>2. (s \o t)[i] = t[j] /\ o + i = q + j
      BY <1>1, <2>1, IsStepsJoin
    <2>3. QED BY <2>2 DEF SoundFrom
  <1>5. QED BY <1>1, <1>3, <1>4


\* Two programs, one behind the other.
LEMMA MovesSeq ==
    ASSUME NEW p, NEW s, NEW t, NEW a, NEW b, NEW c, NEW exits, NEW all,
           MovesIn(p, s, a, b, exits, all), MovesIn(p, t, b, c, exits, all)
    PROVE  MovesIn(p, s \o t, a, c, exits, all)
  <1>1. PICK known1 : /\ SoundFrom(p, s, 0, Len(s), known1, exits)
                      /\ a \subseteq known1[1] /\ known1[Len(s) + 1] \subseteq b
                      /\ \A i \in 1..Len(s) : known1[i] \subseteq all
    BY MovesAre
  <1>2. PICK known2 : /\ SoundFrom(p, t, 0, Len(t), known2, exits)
                      /\ b \subseteq known2[1] /\ known2[Len(t) + 1] \subseteq c
                      /\ \A i \in 1..Len(t) : known2[i] \subseteq all
    BY MovesAre
  <1>3. IsSteps(s) /\ IsSteps(t) /\ Len(s) \in Nat /\ Len(t) \in Nat
    BY MovesAre
  <1>4. PICK n \in Nat : n = Len(s) + Len(t)
    BY <1>3
  <1>5. PICK known : known = [i \in 1..n+1 |-> IF i <= Len(s) THEN known1[i]
                                                              ELSE known2[i - Len(s)]]
    OBVIOUS
  <1>6. \A i \in 1..Len(s) : known[i] = known1[i] /\ known[0 + i] = known1[i]
    BY <1>3, <1>4, <1>5
  <1>7. \A i \in 1..Len(t)+1 : known[Len(s) + i] = known2[i]
    BY <1>3, <1>4, <1>5
  <1>8. known1[Len(s) + 1] \subseteq known[0 + Len(s) + 1]
    <2>1. known[Len(s) + 1] = known2[1] /\ 0 + Len(s) + 1 = Len(s) + 1
      BY <1>3, <1>7
    <2>2. QED BY <1>1, <1>2, <2>1
  <1>9. known[Len(s) + Len(t) + 1] = known2[Len(t) + 1]
    <2>1. known[Len(s) + (Len(t) + 1)] = known2[Len(t) + 1]
      BY <1>3, <1>7
    <2>2. QED BY <1>3, <2>1
  <1>10. SoundFrom(p, s, 0, n, known, exits)
    <2>1. 0 \in Nat /\ 0 + Len(s) <= n
      BY <1>3, <1>4
    <2>2. QED BY <1>1, <1>3, <1>6, <1>8, <2>1, SoundPlaced
  <1>11. SoundFrom(p, t, Len(s), n, known, exits)
    <2>1. Len(s) + Len(t) <= n
      BY <1>3, <1>4
    <2>2. \A k \in 1..Len(t) : known[Len(s) + k] = known2[k]
      BY <1>3, <1>7
    <2>3. QED BY <1>2, <1>3, <1>9, <2>1, <2>2, SoundPlaced
  <1>12. SoundFrom(p, s \o t, 0, n, known, exits)
    <2>1. 0 \in Nat /\ Len(s) = 0 + Len(s)
      BY <1>3
    <2>2. QED BY <1>3, <1>10, <1>11, <2>1, SoundJoin
  <1>13. a \subseteq known[1]
    <2>1. CASE Len(s) = 0
      BY <1>1, <1>8, <2>1
    <2>2. CASE Len(s) # 0
      BY <1>1, <1>3, <1>6, <2>2
    <2>3. QED BY <2>1, <2>2
  <1>14. \A i \in 1..n : known[i] \subseteq all
    <2>1. ASSUME NEW i \in 1..n, i > Len(s) PROVE known[i] \subseteq all
      <3>1. i - Len(s) \in 1..Len(t) /\ known[i] = known2[i - Len(s)]
        BY <1>3, <1>4, <1>5, <2>1
      <3>2. QED BY <1>2, <3>1
    <2>2. QED BY <1>1, <1>3, <1>4, <1>6, <2>1
  <1>15. IsSteps(s \o t) /\ Len(s \o t) = n
    BY <1>3, <1>4, IsStepsJoin
  <1>16. known[n + 1] \subseteq c
    BY <1>2, <1>4, <1>9
  <1>17. QED BY <1>12, <1>13, <1>14, <1>15, <1>16, MovesShown

\* No steps move nothing.
LEMMA MovesEmpty == \A p, a, exits, all : MovesIn(p, <<>>, a, a, exits, all)
  <1>1. TAKE p, a, exits, all
  <1>2. PICK known : known = [i \in 1..1 |-> a]
    OBVIOUS
  <1>3. <<>> \in Seq(StepsOver({})) /\ Len(<<>>) = 0
    OBVIOUS
  <1>4. known[1] = a /\ 0 + 1 = 1
    BY <1>2
  <1>5. SoundFrom(p, <<>>, 0, 0, known, exits) /\ IsSteps(<<>>)
    BY <1>3 DEF SoundFrom, IsSteps
  <1>6. \A i \in 1..0 : known[i] \subseteq all
    OBVIOUS
  <1>7. QED BY <1>3, <1>4, <1>5, <1>6, MovesShown

\* The step of a program of one.
LEMMA SoundStep ==
    ASSUME NEW p, NEW do, NEW r, NEW undo, NEW next \in Int, NEW o \in Nat, NEW n, NEW known,
           NEW exits,
           Sound(p, [do |-> do, res |-> r, undo |-> undo, next |-> next, fail |-> 0],
                 o + 1, n, known, exits)
    PROVE  SoundFrom(p, Step(do, r, undo, next), o, n, known, exits)
  BY StepIs DEF SoundFrom

\* A single step that does not branch.
LEMMA MovesStep ==
    ASSUME NEW p, NEW do, NEW r, NEW undo, NEW a, NEW b, NEW exits, NEW all,
           do \notin Branches, a \subseteq all,
           NEW st, st = [do |-> do, res |-> r, undo |-> undo, next |-> 1, fail |-> 0],
           \A w \in a : /\ Good(p, st, w)
                        /\ do \notin Ends => Turned(st, w) \in b
                        /\ do \in Failing => <<"error", Undone(undo, w)>> \in exits
                        /\ do = "throws" => <<"thrown", w>> \in exits
    PROVE  MovesIn(p, Step(do, r, undo, 1), a, b, exits, all)
  <1>1. PICK known : known = [i \in 1..2 |-> IF i = 1 THEN a ELSE b]
    OBVIOUS
  <1>2. known[1] = a /\ known[2] = b
    BY <1>1
  <1>3. Sound(p, st, 1, 1, known, exits)
    <2>1. st.do = do /\ st.undo = undo /\ st.fail = 0 /\ do # "jump" /\ do \notin Branches
      BY DEF Branches
    <2>2. ASSUME NEW w \in a
          PROVE  /\ Good(p, st, w)
                 /\ \A d, v : GoesOnTo(st, w, d, v) => 1 + d \in 1..1+1 /\ v \in known[1 + d]
                 /\ \A status, v : EndsWith(st, w, status, v) => <<status, v>> \in exits
      <3>1. /\ Good(p, st, w)
            /\ do \notin Ends => Turned(st, w) \in b
            /\ do \in Failing => <<"error", Undone(undo, w)>> \in exits
            /\ do = "throws" => <<"thrown", w>> \in exits
        BY <2>2
      <3>2. ASSUME NEW d, NEW v, GoesOnTo(st, w, d, v)
            PROVE  1 + d \in 1..1+1 /\ v \in known[1 + d]
        <4>1. do \notin Ends /\ d = 1 /\ v = Turned(st, w)
          BY ONLY <2>1, <3>2 DEF GoesOnTo
        <4>2. 1 + d = 2 /\ v \in b
          BY <3>1, <4>1
        <4>3. QED BY <1>2, <4>2
      <3>3. ASSUME NEW status, NEW v, EndsWith(st, w, status, v) PROVE <<status, v>> \in exits
        BY ONLY <2>1, <3>1, <3>3 DEF EndsWith
      <3>4. QED BY <3>1, <3>2, <3>3
    <2>3. QED BY ONLY <1>2, <2>2 DEF Sound
  <1>4. SoundFrom(p, Step(do, r, undo, 1), 0, 1, known, exits)
    <2>1. 0 + 1 = 1 /\ 0 \in Nat /\ 1 \in Int
      OBVIOUS
    <2>2. QED BY <1>3, <2>1, SoundStep
  <1>5. PICK s : s = Step(do, r, undo, 1)
    OBVIOUS
  <1>6. IsSteps(s) /\ Len(s) = 1
    <2>1. \A m \in Int : IsSteps(Step(do, r, undo, m)) /\ Len(Step(do, r, undo, m)) = 1
      BY StepIs
    <2>2. QED BY <1>5, <2>1
  <1>7. /\ SoundFrom(p, s, 0, Len(s), known, exits)
        /\ a \subseteq known[1] /\ known[Len(s) + 1] \subseteq b
        /\ \A i \in 1..Len(s) : known[i] \subseteq all
    <2>1. SoundFrom(p, s, 0, Len(s), known, exits)
      BY <1>4, <1>5, <1>6
    <2>2. Len(s) + 1 = 2 /\ 1..Len(s) = {1}
      BY <1>6
    <2>3. QED BY ONLY a \subseteq all, <1>2, <2>1, <2>2
  <1>8. QED BY ONLY <1>5, <1>6, <1>7, MovesShown

\* Values are functions on the names that are followed.
AreValues(a) == \A w \in a : w = [n \in DOMAIN w |-> w[n]]

\* Where a jump or a branch that asks nothing leads.
LEMMA SoundBranch ==
    ASSUME NEW p, NEW do \in {"jump", "fork", "loop", "each"}, NEW next \in Int,
           NEW i \in Nat, NEW n \in Nat, NEW known, NEW exits,
           i + next \in 1..n+1, known[i] \subseteq known[i + next],
           do # "jump" => i + 1 \in 1..n+1 /\ known[i] \subseteq known[i + 1],
           NEW r, AreValues(known[i])
    PROVE  Sound(p, [do |-> do, res |-> r, undo |-> {}, next |-> next, fail |-> 0],
                 i, n, known, exits)
  <1>1. PICK st : st = [do |-> do, res |-> r, undo |-> {}, next |-> next, fail |-> 0]
    OBVIOUS
  <1>2. /\ st.do = do /\ st.next = next /\ do \notin Failing /\ do # "throws"
        /\ do \in Ends => do = "jump"
        /\ do # "if_kept" /\ do # "new_handle"
    BY <1>1 DEF Failing, Ends
  <1>3. SUFFICES ASSUME NEW w \in known[i]
                 PROVE  /\ Good(p, st, w)
                        /\ \A d, v : GoesOnTo(st, w, d, v) => i + d \in 1..n+1 /\ v \in known[i + d]
                        /\ \A status, v : EndsWith(st, w, status, v) => <<status, v>> \in exits
    BY <1>1 DEF Sound
  <1>4. Turned(st, w) = w
    <2>1. \A v : Then(do, v) = v
      BY DEF Then, Taking
    <2>2. QED BY <1>2, <2>1 DEF Turned, AreValues
  <1>5. Good(p, st, w)
    BY <1>2 DEF Good, Ready, Taking
  <1>6. \A d, v : GoesOnTo(st, w, d, v) => i + d \in 1..n+1 /\ v \in known[i + d]
    BY <1>2, <1>4 DEF GoesOnTo, Ends
  <1>7. \A status, v : ~EndsWith(st, w, status, v)
    BY <1>2 DEF EndsWith
  <1>8. QED BY <1>5, <1>6, <1>7

\* A part that may be left out has to leave the values that were before it.
LEMMA MovesMaybe ==
    ASSUME NEW p, NEW s, NEW a, NEW b, NEW exits, NEW all, MovesIn(p, s, a, b, exits, all),
           a \subseteq b, a \subseteq all, AreValues(a)
    PROVE  MovesIn(p, Maybe(s), a, b, exits, all)
  <1>1. PICK known1 : /\ SoundFrom(p, s, 0, Len(s), known1, exits)
                      /\ a \subseteq known1[1] /\ known1[Len(s) + 1] \subseteq b
                      /\ \A i \in 1..Len(s) : known1[i] \subseteq all
    BY MovesAre
  <1>2. IsSteps(s) /\ Len(s) \in Nat
    BY MovesAre
  <1>3. PICK m \in Nat : m = Len(s)
    BY <1>2
  <1>4. PICK known : known = [i \in 1..m+2 |->
          IF i = 1 THEN a ELSE IF i <= m + 1 THEN known1[i - 1] ELSE b]
    OBVIOUS
  <1>5. /\ known[1] = a /\ known[m + 2] = b
        /\ \A k \in 1..m : known[1 + k] = known1[k]
    BY <1>3, <1>4
  <1>6. a \subseteq known[2]
    <2>1. CASE m = 0
      BY <1>5, <2>1
    <2>2. CASE m # 0
      BY <1>1, <1>3, <1>5, <2>2
    <2>3. QED BY <2>1, <2>2
  <1>7. PICK F : F = Step("fork", Nothing, {}, m + 1)
    OBVIOUS
  <1>8. SoundFrom(p, F, 0, m + 1, known, exits)
    <2>1. /\ 1 + (m + 1) = m + 2 /\ m + 2 \in 1..m+1+1 /\ 1 + 1 \in 1..m+1+1 /\ 1 + 1 = 2
          /\ 0 + 1 = 1 /\ 0 \in Nat /\ 1 \in Nat /\ m + 1 \in Nat /\ m + 1 \in Int
      BY <1>3
    <2>2. Sound(p, [do |-> "fork", res |-> Nothing, undo |-> {}, next |-> m + 1, fail |-> 0],
                1, m + 1, known, exits)
      BY <1>5, <1>6, <2>1, SoundBranch
    <2>3. QED BY <1>7, <2>1, <2>2, SoundStep
  <1>9. SoundFrom(p, s, 1, m + 1, known, exits)
    <2>1. known1[Len(s) + 1] \subseteq known[1 + Len(s) + 1]
      <3>1. 1 + Len(s) + 1 = m + 2
        BY <1>3
      <3>2. QED BY <1>1, <1>5, <3>1
    <2>2. 1 + Len(s) <= m + 1 /\ 1 \in Nat /\ m + 1 \in Nat
      BY <1>3
    <2>3. \A k \in 1..Len(s) : known[1 + k] = known1[k]
      BY <1>3, <1>5
    <2>4. QED BY <1>1, <1>2, <2>1, <2>2, <2>3, SoundPlaced
  <1>10. IsSteps(F) /\ Len(F) = 1
    <2>1. m + 1 \in Int
      BY <1>3
    <2>2. QED BY <1>7, <2>1, StepIs
  <1>11. /\ SoundFrom(p, F \o s, 0, m + 1, known, exits)
         /\ IsSteps(F \o s) /\ Len(F \o s) = m + 1
    <2>1. 1 = 0 + Len(F) /\ 0 \in Nat
      BY <1>10
    <2>2. Len(F) + Len(s) = m + 1
      BY <1>3, <1>10
    <2>3. QED BY ONLY <1>2, <1>8, <1>9, <1>10, <2>1, <2>2, SoundJoin
  <1>12. MovesIn(p, F \o s, a, b, exits, all)
    <2>1. a \subseteq known[1] /\ known[m + 1 + 1] \subseteq b
      <3>1. m + 1 + 1 = m + 2
        OBVIOUS
      <3>2. QED BY <1>5, <3>1
    <2>2. ASSUME NEW i \in 1..m+1 PROVE known[i] \subseteq all
      <3>1. CASE i = 1
        BY <1>5, <3>1
      <3>2. CASE i # 1
        <4>1. i - 1 \in 1..Len(s) /\ known[i] = known1[i - 1]
          BY <1>3, <1>4, <3>2
        <4>2. QED BY <1>1, <4>1
      <3>3. QED BY <3>1, <3>2
    <2>3. QED BY <1>11, <2>1, <2>2, MovesShown
  <1>13. QED BY <1>3, <1>7, <1>12, MaybeIs

\* A loop: the values before its test are there again behind a turn.
LEMMA MovesLoop ==
    ASSUME NEW p, NEW s, NEW a, NEW exits, NEW all, MovesIn(p, s, a, a, exits, all),
           a \subseteq all, AreValues(a), NEW do \in {"loop", "each"}
    PROVE  MovesIn(p, Step(do, Nothing, {}, Len(s) + 2) \o s \o Jump(-(Len(s) + 1)),
                   a, a, exits, all)
  <1>1. PICK known1 : /\ SoundFrom(p, s, 0, Len(s), known1, exits)
                      /\ a \subseteq known1[1] /\ known1[Len(s) + 1] \subseteq a
                      /\ \A i \in 1..Len(s) : known1[i] \subseteq all
    BY MovesAre
  <1>2. IsSteps(s) /\ Len(s) \in Nat
    BY MovesAre
  <1>3. PICK m \in Nat : m = Len(s)
    BY <1>2
  <1>4. PICK known : known = [i \in 1..m+3 |->
          IF i = 1 THEN a ELSE IF i <= m + 1 THEN known1[i - 1] ELSE a]
    OBVIOUS
  <1>5. /\ known[1] = a /\ known[m + 2] = a /\ known[m + 3] = a
        /\ \A k \in 1..m : known[1 + k] = known1[k]
    BY <1>3, <1>4
  <1>a. PICK F : F = Step(do, Nothing, {}, m + 2)
    OBVIOUS
  <1>b. PICK J : J = Step("jump", Nothing, {}, -(m + 1))
    OBVIOUS
  <1>c. /\ m + 1 \in Nat /\ m + 2 \in Nat /\ m + 2 \in Int /\ -(m + 1) \in Int
        /\ m + 2 + -(m + 1) = 1 /\ m + 2 + 1 = m + 3
    BY <1>3
  <1>6. a \subseteq known[2]
    <2>1. CASE m = 0
      BY <1>5, <2>1
    <2>2. CASE m # 0
      BY <1>1, <1>5, <2>2
    <2>3. QED BY <2>1, <2>2
  <1>7. SoundFrom(p, F, 0, m + 2, known, exits)
    <2>1. /\ 1 + (m + 2) = m + 3 /\ m + 3 \in 1..m+2+1 /\ 1 + 1 \in 1..m+2+1 /\ 1 + 1 = 2
          /\ 0 + 1 = 1 /\ 0 \in Nat /\ 1 \in Nat
      BY <1>3
    <2>2. do \in {"jump", "fork", "loop", "each"}
      OBVIOUS
    <2>3. Sound(p, [do |-> do, res |-> Nothing, undo |-> {}, next |-> m + 2, fail |-> 0],
                1, m + 2, known, exits)
      BY <1>5, <1>6, <1>c, <2>1, <2>2, SoundBranch
    <2>4. QED BY <1>a, <1>c, <2>1, <2>3, SoundStep
  <1>8. SoundFrom(p, s, 1, m + 2, known, exits)
    <2>1. known1[Len(s) + 1] \subseteq known[1 + Len(s) + 1]
      <3>1. 1 + Len(s) + 1 = m + 2
        BY <1>3
      <3>2. QED BY <1>1, <1>5, <3>1
    <2>2. 1 + Len(s) <= m + 2 /\ 1 \in Nat
      BY <1>3
    <2>3. \A k \in 1..Len(s) : known[1 + k] = known1[k]
      BY <1>3, <1>5
    <2>4. QED BY <1>1, <1>2, <1>c, <2>1, <2>2, <2>3, SoundPlaced
  <1>9. SoundFrom(p, J, m + 1, m + 2, known, exits)
    <2>1. /\ m + 1 + 1 = m + 2 /\ 1 \in 1..m+2+1
      BY <1>3
    <2>2. Sound(p, [do |-> "jump", res |-> Nothing, undo |-> {}, next |-> -(m + 1), fail |-> 0],
                m + 2, m + 2, known, exits)
      BY <1>5, <1>c, <2>1, SoundBranch
    <2>3. QED BY <1>b, <1>c, <2>1, <2>2, SoundStep
  <1>10. IsSteps(F) /\ Len(F) = 1 /\ IsSteps(J) /\ Len(J) = 1
    BY <1>a, <1>b, <1>c, StepIs
  <1>11. /\ SoundFrom(p, F \o s, 0, m + 2, known, exits)
         /\ IsSteps(F \o s) /\ Len(F \o s) = m + 1
    <2>1. 1 = 0 + Len(F) /\ 0 \in Nat
      BY <1>10
    <2>2. Len(F) + Len(s) = m + 1
      BY <1>3, <1>10
    <2>3. QED BY ONLY <1>2, <1>7, <1>8, <1>10, <2>1, <2>2, SoundJoin
  <1>12. /\ SoundFrom(p, (F \o s) \o J, 0, m + 2, known, exits)
         /\ IsSteps((F \o s) \o J) /\ Len((F \o s) \o J) = m + 2
    <2>1. PICK G : G = F \o s
      OBVIOUS
    <2>2. m + 1 = 0 + Len(G) /\ 0 \in Nat /\ Len(G) + Len(J) = m + 2
      BY <1>3, <1>10, <1>11, <2>1
    <2>3. IsSteps(G) /\ SoundFrom(p, G, 0, m + 2, known, exits)
      BY <1>11, <2>1
    <2>4. /\ SoundFrom(p, G \o J, 0, m + 2, known, exits)
          /\ IsSteps(G \o J) /\ Len(G \o J) = Len(G) + Len(J)
      BY ONLY <1>9, <1>10, <2>2, <2>3, SoundJoin
    <2>5. QED BY <2>1, <2>2, <2>4
  <1>13. MovesIn(p, (F \o s) \o J, a, a, exits, all)
    <2>1. a \subseteq known[1] /\ known[m + 2 + 1] \subseteq a
      BY <1>5, <1>c
    <2>2. ASSUME NEW i \in 1..m+2 PROVE known[i] \subseteq all
      <3>1. CASE i \in 2..m+1
        <4>1. i - 1 \in 1..Len(s) /\ known[i] = known1[i - 1]
          BY <1>3, <1>4, <3>1
        <4>2. QED BY <1>1, <4>1
      <3>2. CASE i = 1 \/ i = m + 2
        BY <1>5, <3>2
      <3>3. QED BY <3>1, <3>2
    <2>3. QED BY <1>12, <2>1, <2>2, MovesShown
  <1>14. QED BY <1>3, <1>a, <1>b, <1>13, JumpIs

\* Two ways to go on, s and then over t, or t at once; a test of the field that
\* is followed tells them apart.
LEMMA MovesBranch ==
    ASSUME NEW p, NEW do \in {"fork", "if_kept"}, NEW r, NEW s, NEW t,
           NEW a, NEW a1, NEW a2, NEW b, NEW exits, NEW all,
           MovesIn(p, s, a1, b, exits, all), MovesIn(p, t, a2, b, exits, all),
           a \subseteq all, b \subseteq all, AreValues(a), AreValues(b),
           \A w \in a : \/ do = "fork" /\ w \in a1 /\ w \in a2
                        \/ do = "if_kept" /\ r \notin DOMAIN w /\ w \in a1 /\ w \in a2
                        \/ do = "if_kept" /\ r \in DOMAIN w /\ w[r] = "null" /\ w \in a2
                        \/ do = "if_kept" /\ r \in DOMAIN w /\ w[r] \in FieldValues \ {"null"}
                             /\ w \in a1
    PROVE  MovesIn(p, ((Step(do, r, {}, Len(s) + 2) \o s) \o Jump(Len(t) + 1)) \o t,
                   a, b, exits, all)
  <1>1. PICK known1 : /\ SoundFrom(p, s, 0, Len(s), known1, exits)
                      /\ a1 \subseteq known1[1] /\ known1[Len(s) + 1] \subseteq b
                      /\ \A i \in 1..Len(s) : known1[i] \subseteq all
    BY MovesAre
  <1>2. PICK known2 : /\ SoundFrom(p, t, 0, Len(t), known2, exits)
                      /\ a2 \subseteq known2[1] /\ known2[Len(t) + 1] \subseteq b
                      /\ \A i \in 1..Len(t) : known2[i] \subseteq all
    BY MovesAre
  <1>3. IsSteps(s) /\ Len(s) \in Nat /\ IsSteps(t) /\ Len(t) \in Nat
    BY MovesAre
  <1>4. PICK m \in Nat : m = Len(s)
    BY <1>3
  <1>5. PICK k \in Nat : k = Len(t)
    BY <1>3
  <1>6. PICK n \in Nat : n = m + 2 + k
    OBVIOUS
  <1>7. PICK known : known = [i \in 1..n+1 |->
          IF i = 1 THEN a ELSE IF i <= m + 1 THEN known1[i - 1]
            ELSE IF i = m + 2 \/ i = n + 1 THEN b ELSE known2[i - m - 2]]
    OBVIOUS
  <1>8. /\ known[1] = a /\ known[m + 2] = b /\ known[n + 1] = b
        /\ \A i \in 1..m : known[1 + i] = known1[i]
        /\ \A i \in 1..k : known[m + 2 + i] = known2[i]
    BY <1>6, <1>7
  <1>9. a1 \subseteq known[2] /\ a2 \subseteq known[m + 3]
    <2>1. ASSUME m = 0 PROVE a1 \subseteq known[2]
      BY <1>1, <1>4, <1>8, <2>1
    <2>2. ASSUME m # 0 PROVE a1 \subseteq known[2]
      BY <1>1, <1>8, <2>2
    <2>3. ASSUME k = 0 PROVE a2 \subseteq known[m + 3]
      <3>1. m + 3 = n + 1 /\ Len(t) + 1 = 1
        BY <1>5, <1>6, <2>3
      <3>2. QED BY <1>2, <1>8, <3>1
    <2>4. ASSUME k # 0 PROVE a2 \subseteq known[m + 3]
      <3>1. m + 3 = m + 2 + 1 /\ 1 \in 1..k
        BY <2>4
      <3>2. QED BY <1>2, <1>8, <3>1
    <2>5. QED BY <2>1, <2>2, <2>3, <2>4
  <1>10. PICK F : F = Step(do, r, {}, m + 2)
    OBVIOUS
  <1>11. PICK J : J = Step("jump", Nothing, {}, k + 1)
    OBVIOUS
  <1>12. m + 2 \in Int /\ k + 1 \in Int /\ m + 1 \in Nat /\ m + 2 \in Nat /\ 0 \in Nat /\ 1 \in Nat
    OBVIOUS
  <1>13. SoundFrom(p, F, 0, n, known, exits)
    <2>1. PICK st : st = [do |-> do, res |-> r, undo |-> {}, next |-> m + 2, fail |-> 0]
      OBVIOUS
    <2>2. st.do = do /\ st.res = r /\ st.next = m + 2 /\ st.fail = 0
      BY <2>1
    <2>3. /\ 1 + (m + 2) = m + 3 /\ m + 3 \in 1..n+1 /\ 1 + 1 = 2 /\ 2 \in 1..n+1
      BY <1>6
    <2>4. ASSUME NEW w \in a
          PROVE  /\ Good(p, st, w)
                 /\ \A d, v : GoesOnTo(st, w, d, v) => 1 + d \in 1..n+1 /\ v \in known[1 + d]
                 /\ \A status, v : EndsWith(st, w, status, v) => <<status, v>> \in exits
      <3>1. /\ do \notin Failing /\ do # "throws" /\ do # "new_handle" /\ do # "jump"
            /\ do \notin Ends
        BY DEF Failing, Ends
      <3>2. Turned(st, w) = w
        <4>1. \A v : Then(do, v) = v
          BY DEF Then, Taking
        <4>2. w = [x \in DOMAIN w |-> w[x]]
          BY <2>4 DEF AreValues
        <4>3. QED BY <2>2, <3>1, <4>1, <4>2 DEF Turned
      <3>3. Good(p, st, w)
        BY <2>2, <2>4, <3>1 DEF Good, Ready, Taking, FieldValues
      <3>4. ~FoundNull(st, w) => w \in a1
        BY <2>2, <2>4 DEF FoundNull
      <3>5. ~FoundSet(st, w) => w \in a2
        BY <2>2, <2>4, <3>1 DEF FoundSet, FieldValues
      <3>6. ASSUME NEW d, NEW v, GoesOnTo(st, w, d, v)
            PROVE  1 + d \in 1..n+1 /\ v \in known[1 + d]
        <4>1. \/ ~FoundNull(st, w) /\ d = 1 /\ v = w
              \/ ~FoundSet(st, w) /\ d = m + 2 /\ v = w
          BY ONLY <2>2, <3>1, <3>2, <3>6 DEF GoesOnTo
        <4>2. QED BY <1>9, <2>3, <3>4, <3>5, <4>1
      <3>7. \A status, v : ~EndsWith(st, w, status, v)
        BY <2>2, <3>1 DEF EndsWith
      <3>8. QED BY <3>3, <3>6, <3>7
    <2>5. Sound(p, st, 1, n, known, exits)
      BY ONLY <1>8, <2>4 DEF Sound
    <2>6. 0 + 1 = 1
      OBVIOUS
    <2>7. QED BY <1>10, <1>12, <2>1, <2>5, <2>6, SoundStep
  <1>14. SoundFrom(p, s, 1, n, known, exits)
    <2>1. known1[Len(s) + 1] \subseteq known[1 + Len(s) + 1]
      <3>1. 1 + Len(s) + 1 = m + 2
        BY <1>4
      <3>2. QED BY <1>1, <1>8, <3>1
    <2>2. 1 + Len(s) <= n
      BY <1>4, <1>6
    <2>3. \A i \in 1..Len(s) : known[1 + i] = known1[i]
      BY <1>4, <1>8
    <2>4. QED BY <1>1, <1>3, <1>12, <2>1, <2>2, <2>3, SoundPlaced
  <1>15. SoundFrom(p, J, m + 1, n, known, exits)
    <2>1. m + 1 + 1 = m + 2 /\ m + 2 + (k + 1) = n + 1 /\ n + 1 \in 1..n+1
      BY <1>6
    <2>2. Sound(p, [do |-> "jump", res |-> Nothing, undo |-> {}, next |-> k + 1, fail |-> 0],
                m + 2, n, known, exits)
      BY <1>8, <1>12, <2>1, SoundBranch
    <2>3. QED BY <1>11, <1>12, <2>1, <2>2, SoundStep
  <1>16. SoundFrom(p, t, m + 2, n, known, exits)
    <2>1. known2[Len(t) + 1] \subseteq known[m + 2 + Len(t) + 1]
      <3>1. m + 2 + Len(t) + 1 = n + 1
        BY <1>5, <1>6
      <3>2. QED BY <1>2, <1>8, <3>1
    <2>2. m + 2 + Len(t) <= n
      BY <1>5, <1>6
    <2>3. \A i \in 1..Len(t) : known[m + 2 + i] = known2[i]
      BY <1>5, <1>8
    <2>4. QED BY <1>2, <1>3, <1>12, <2>1, <2>2, <2>3, SoundPlaced
  <1>17. IsSteps(F) /\ Len(F) = 1 /\ IsSteps(J) /\ Len(J) = 1
    BY <1>10, <1>11, <1>12, StepIs
  <1>18. PICK G : G = F \o s
    OBVIOUS
  <1>19. SoundFrom(p, G, 0, n, known, exits) /\ IsSteps(G) /\ Len(G) = m + 1
    <2>1. Len(F) + Len(s) = m + 1
      BY <1>4, <1>17
    <2>2. PICK o, q : o \in Nat /\ q = o + Len(F) /\ o = 0 /\ q = 1
      BY <1>17
    <2>3. SoundFrom(p, F, o, n, known, exits) /\ SoundFrom(p, s, q, n, known, exits)
      BY ONLY <1>13, <1>14, <2>2
    <2>4. IsSteps(F) /\ IsSteps(s) /\ o \in Nat /\ q = o + Len(F)
      BY ONLY <1>3, <1>17, <2>2
    <2>5. /\ SoundFrom(p, F \o s, o, n, known, exits)
          /\ IsSteps(F \o s) /\ Len(F \o s) = Len(F) + Len(s)
      BY ONLY <2>3, <2>4, SoundJoin
    <2>6. QED BY ONLY <1>18, <2>1, <2>2, <2>5
  <1>20. PICK H : H = G \o J
    OBVIOUS
  <1>21. SoundFrom(p, H, 0, n, known, exits) /\ IsSteps(H) /\ Len(H) = m + 2
    <2>1. m + 1 = 0 + Len(G) /\ Len(G) + Len(J) = m + 2
      BY <1>17, <1>19
    <2>2. QED BY ONLY <1>12, <1>15, <1>17, <1>19, <1>20, <2>1, SoundJoin
  <1>22. SoundFrom(p, H \o t, 0, n, known, exits) /\ IsSteps(H \o t) /\ Len(H \o t) = n
    <2>1. m + 2 = 0 + Len(H) /\ Len(H) + Len(t) = n
      BY <1>5, <1>6, <1>21
    <2>2. QED BY ONLY <1>3, <1>12, <1>16, <1>21, <2>1, SoundJoin
  <1>23. ASSUME NEW i \in 1..n PROVE known[i] \subseteq all
    <2>1. CASE i = 1 \/ i = m + 2
      BY <1>8, <2>1
    <2>2. CASE i \in 2..m+1
      <3>1. i - 1 \in 1..Len(s) /\ known[i] = known1[i - 1]
        BY <1>4, <1>6, <1>7, <2>2
      <3>2. QED BY <1>1, <3>1
    <2>3. CASE i \in m+3..n
      <3>1. i - m - 2 \in 1..Len(t) /\ known[i] = known2[i - m - 2]
        BY <1>5, <1>6, <1>7, <2>3
      <3>2. QED BY <1>2, <3>1
    <2>4. QED BY <1>6, <2>1, <2>2, <2>3
  <1>24. MovesIn(p, H \o t, a, b, exits, all)
    BY <1>8, <1>22, <1>23, MovesShown
  <1>25. QED BY <1>4, <1>5, <1>10, <1>11, <1>18, <1>20, <1>24, JumpIs

\* A step whose failure, where it ended the call, goes on behind the program.
LEMMA SoundInstead ==
    ASSUME NEW p, NEW st, NEW m \in Nat, NEW i \in 1..m, NEW known1, NEW exits1,
           Sound(p, st, i, m, known1, exits1), st.next \in Int, st.fail \in Int,
           NEW st2, st2.do = st.do, st2.res = st.res, st2.undo = st.undo, st2.next = st.next,
           st2.fail = IF st.fail = 0 THEN m + 2 - i ELSE st.fail,
           NEW n \in Nat, m + 1 <= n, NEW known, NEW exits,
           \A k \in 1..m : known[k] = known1[k], known1[m + 1] \subseteq known[m + 1],
           \A w : <<"error", w>> \in exits1 => w \in known[m + 2],
           \A w : <<"thrown", w>> \in exits1 => <<"thrown", w>> \in exits
    PROVE  Sound(p, st2, i, n, known, exits)
  <1>1. SUFFICES ASSUME NEW w \in known1[i]
                 PROVE  /\ Good(p, st2, w)
                        /\ \A d, v : GoesOnTo(st2, w, d, v) => i + d \in 1..n+1 /\ v \in known[i + d]
                        /\ \A status, v : EndsWith(st2, w, status, v) => <<status, v>> \in exits
    BY DEF Sound
  <1>2. /\ Good(p, st, w)
        /\ \A d, v : GoesOnTo(st, w, d, v) => i + d \in 1..m+1 /\ v \in known1[i + d]
        /\ \A status, v : EndsWith(st, w, status, v) => <<status, v>> \in exits1
    BY DEF Sound
  <1>3. Good(p, st2, w)
    BY <1>2 DEF Good
  <1>4. m + 2 - i # 0 /\ i + (m + 2 - i) = m + 2 /\ m + 2 \in 1..n+1
    OBVIOUS
  <1>5. ASSUME NEW d, NEW v, GoesOnTo(st2, w, d, v)
        PROVE  i + d \in 1..n+1 /\ v \in known[i + d]
    <2>1. /\ Turned(st2, w) = Turned(st, w)
          /\ FoundNull(st2, w) <=> FoundNull(st, w)
          /\ FoundSet(st2, w) <=> FoundSet(st, w)
      BY DEF Turned, FoundNull, FoundSet
    <2>2. CASE GoesOnTo(st, w, d, v)
      <3>1. d \in Int /\ i + d \in 1..m+1 /\ v \in known1[i + d]
        BY <1>2, <2>2 DEF GoesOnTo
      <3>2. PICK j \in 1..m+1 : j = i + d
        BY <3>1
      <3>3. v \in known[j]
        BY <3>1, <3>2
      <3>4. QED BY <3>2, <3>3
    <2>3. CASE ~GoesOnTo(st, w, d, v)
      <3>1. /\ st.do \in Failing /\ st.fail = 0 /\ d = m + 2 - i /\ v = Undone(st.undo, w)
        BY <1>5, <2>1, <2>3 DEF GoesOnTo
      <3>2. <<"error", v>> \in exits1
        <4>1. EndsWith(st, w, "error", v)
          BY <3>1 DEF EndsWith
        <4>2. QED BY <1>2, <4>1
      <3>3. QED BY <1>4, <3>1, <3>2
    <2>4. QED BY <2>2, <2>3
  <1>6. ASSUME NEW status, NEW v, EndsWith(st2, w, status, v) PROVE <<status, v>> \in exits
    <2>1. st.do = "throws" /\ status = "thrown" /\ v = w
      BY <1>4, <1>6 DEF EndsWith
    <2>2. EndsWith(st, w, "thrown", w)
      BY <2>1 DEF EndsWith
    <2>3. QED BY <1>2, <2>1, <2>2
  <1>7. QED BY <1>3, <1>5, <1>6

\* The steps that s2 changes are those of s in what the others do.
LEMMA ChangedSteps ==
    ASSUME NEW s, IsSteps(s), NEW s2, NEW W,
           DOMAIN s2 = 1..Len(s), s2 = [i \in 1..Len(s) |-> s2[i]],
           \A i \in 1..Len(s) : s2[i] \in StepsOver(W)
    PROVE  IsSteps(s2) /\ Len(s2) = Len(s)
  BY StepsAre, StepsShown

\* A program whose failures go on behind it, in another one.
LEMMA MovesOrElse ==
    ASSUME NEW p, NEW s, NEW t, NEW a, NEW b, NEW c, NEW exits1, NEW exits, NEW all,
           MovesIn(p, s, a, b, exits1, all), MovesIn(p, t, c, b, exits, all),
           b \subseteq all, AreValues(b),
           \A w : <<"error", w>> \in exits1 => w \in c,
           \A w : <<"thrown", w>> \in exits1 => <<"thrown", w>> \in exits
    PROVE  MovesIn(p, OrElse(s, t), a, b, exits, all)
  <1>1. PICK known1 : /\ SoundFrom(p, s, 0, Len(s), known1, exits1)
                      /\ a \subseteq known1[1] /\ known1[Len(s) + 1] \subseteq b
                      /\ \A i \in 1..Len(s) : known1[i] \subseteq all
    BY MovesAre
  <1>2. PICK known2 : /\ SoundFrom(p, t, 0, Len(t), known2, exits)
                      /\ c \subseteq known2[1] /\ known2[Len(t) + 1] \subseteq b
                      /\ \A i \in 1..Len(t) : known2[i] \subseteq all
    BY MovesAre
  <1>3. IsSteps(s) /\ Len(s) \in Nat /\ IsSteps(t) /\ Len(t) \in Nat
    BY MovesAre
  <1>4. PICK s2 : s2 = [i \in DOMAIN s |-> IF s[i].fail = 0
                                             THEN [s[i] EXCEPT !.fail = Len(s) + 2 - i]
                                             ELSE s[i]]
    OBVIOUS
  <1>5. PICK V : \A i \in 1..Len(s) : s[i] \in StepsOver(V)
    BY <1>3, FieldsOf
  <1>6. ASSUME NEW i \in 1..Len(s)
        PROVE  /\ s2[i] \in StepsOver(V)
               /\ s2[i].do = s[i].do /\ s2[i].res = s[i].res /\ s2[i].undo = s[i].undo
               /\ s2[i].next = s[i].next
               /\ s2[i].fail = IF s[i].fail = 0 THEN Len(s) + 2 - i ELSE s[i].fail
    <2>1. s[i] \in StepsOver(V) /\ Len(s) + 2 - i \in Int
      BY <1>3, <1>5
    <2>2. s2[i] = IF s[i].fail = 0 THEN [s[i] EXCEPT !.fail = Len(s) + 2 - i] ELSE s[i]
      BY <1>3, <1>4, FieldsOf
    <2>3. QED BY <2>1, <2>2 DEF StepsOver
  <1>7. IsSteps(s2) /\ Len(s2) = Len(s)
    <2>1. DOMAIN s2 = 1..Len(s) /\ s2 = [i \in 1..Len(s) |-> s2[i]]
      BY <1>3, <1>4, FieldsOf
    <2>2. QED BY <1>3, <1>6, <2>1, ChangedSteps
  <1>8. PICK m \in Nat : m = Len(s)
    BY <1>3
  <1>9. PICK k \in Nat : k = Len(t)
    BY <1>3
  <1>10. PICK n \in Nat : n = m + 1 + k
    OBVIOUS
  <1>11. PICK known : known = [i \in 1..n+1 |->
          IF i <= m THEN known1[i]
            ELSE IF i = m + 1 \/ i = n + 1 THEN b ELSE known2[i - m - 1]]
    OBVIOUS
  <1>12. /\ known[m + 1] = b /\ known[n + 1] = b
         /\ \A i \in 1..m : known[i] = known1[i]
         /\ \A i \in 1..k : known[m + 1 + i] = known2[i]
    BY <1>10, <1>11
  <1>13. a \subseteq known[1] /\ c \subseteq known[m + 2]
    <2>1. ASSUME m = 0 PROVE a \subseteq known[1]
      BY <1>1, <1>8, <1>12, <2>1
    <2>2. ASSUME m # 0 PROVE a \subseteq known[1]
      BY <1>1, <1>12, <2>2
    <2>3. ASSUME k = 0 PROVE c \subseteq known[m + 2]
      <3>1. m + 2 = n + 1 /\ Len(t) + 1 = 1
        BY <1>9, <1>10, <2>3
      <3>2. QED BY <1>2, <1>12, <3>1
    <2>4. ASSUME k # 0 PROVE c \subseteq known[m + 2]
      <3>1. m + 2 = m + 1 + 1 /\ 1 \in 1..k
        BY <2>4
      <3>2. QED BY <1>2, <1>12, <3>1
    <2>5. QED BY <2>1, <2>2, <2>3, <2>4
  <1>14. PICK J : J = Step("jump", Nothing, {}, k + 1)
    OBVIOUS
  <1>15. k + 1 \in Int /\ m + 1 \in Nat /\ 0 \in Nat
    OBVIOUS
  <1>16. SoundFrom(p, s2, 0, n, known, exits)
    <2>1. ASSUME NEW i \in 1..m PROVE Sound(p, s2[i], i, n, known, exits)
      <3>1. /\ s2[i].do = s[i].do /\ s2[i].res = s[i].res /\ s2[i].undo = s[i].undo
            /\ s2[i].next = s[i].next
            /\ s2[i].fail = IF s[i].fail = 0 THEN m + 2 - i ELSE s[i].fail
        BY <1>6, <1>8
      <3>2. s[i].next \in Int /\ s[i].fail \in Int
        BY <1>3, <1>8, StepsAre
      <3>3. Sound(p, s[i], i, m, known1, exits1)
        <4>1. Sound(p, s[i], 0 + i, m, known1, exits1) /\ 0 + i = i
          BY <1>1, <1>8 DEF SoundFrom
        <4>2. QED BY <4>1
      <3>4. m + 1 <= n /\ known1[m + 1] \subseteq known[m + 1]
        BY <1>1, <1>8, <1>10, <1>12
      <3>5. \A w : <<"error", w>> \in exits1 => w \in known[m + 2]
        BY <1>13
      <3>6. QED BY <1>12, <3>1, <3>2, <3>3, <3>4, <3>5, SoundInstead
    <2>2. \A i \in 1..m : 0 + i = i
      OBVIOUS
    <2>3. QED BY <1>7, <1>8, <2>1, <2>2 DEF SoundFrom
  <1>17. SoundFrom(p, J, m, n, known, exits)
    <2>1. m + 1 + (k + 1) = n + 1 /\ n + 1 \in 1..n+1
      BY <1>10
    <2>2. Sound(p, [do |-> "jump", res |-> Nothing, undo |-> {}, next |-> k + 1, fail |-> 0],
                m + 1, n, known, exits)
      BY <1>12, <1>15, <2>1, SoundBranch
    <2>3. QED BY <1>14, <1>15, <2>2, SoundStep
  <1>18. SoundFrom(p, t, m + 1, n, known, exits)
    <2>1. known2[Len(t) + 1] \subseteq known[m + 1 + Len(t) + 1]
      <3>1. m + 1 + Len(t) + 1 = n + 1
        BY <1>9, <1>10
      <3>2. QED BY <1>2, <1>12, <3>1
    <2>2. m + 1 + Len(t) <= n
      BY <1>9, <1>10
    <2>3. \A i \in 1..Len(t) : known[m + 1 + i] = known2[i]
      BY <1>9, <1>12
    <2>4. QED BY <1>2, <1>3, <1>15, <2>1, <2>2, <2>3, SoundPlaced
  <1>19. IsSteps(J) /\ Len(J) = 1
    BY <1>14, <1>15, StepIs
  <1>20. PICK G : G = s2 \o J
    OBVIOUS
  <1>21. SoundFrom(p, G, 0, n, known, exits) /\ IsSteps(G) /\ Len(G) = m + 1
    <2>1. m = 0 + Len(s2) /\ Len(s2) + Len(J) = m + 1 /\ IsSteps(s2)
      BY <1>7, <1>8, <1>19
    <2>2. QED BY ONLY <1>15, <1>16, <1>17, <1>19, <1>20, <2>1, SoundJoin
  <1>22. SoundFrom(p, G \o t, 0, n, known, exits) /\ IsSteps(G \o t) /\ Len(G \o t) = n
    <2>1. m + 1 = 0 + Len(G) /\ Len(G) + Len(t) = n
      BY <1>9, <1>10, <1>21
    <2>2. QED BY ONLY <1>3, <1>15, <1>18, <1>21, <2>1, SoundJoin
  <1>23. ASSUME NEW i \in 1..n PROVE known[i] \subseteq all
    <2>1. CASE i = m + 1
      BY <1>12, <2>1
    <2>2. CASE i \in 1..m
      BY <1>1, <1>8, <1>12, <2>2
    <2>3. CASE i \in m+2..n
      <3>1. i - m - 1 \in 1..Len(t) /\ known[i] = known2[i - m - 1]
        BY <1>9, <1>10, <1>11, <2>3
      <3>2. QED BY <1>2, <3>1
    <2>4. QED BY <1>10, <2>1, <2>2, <2>3
  <1>24. MovesIn(p, G \o t, a, b, exits, all)
    BY <1>12, <1>13, <1>22, <1>23, MovesShown
  <1>25. QED BY <1>4, <1>9, <1>14, <1>20, <1>24, JumpIs DEF OrElse

\* A callee whose failures undo what the caller has.
LEMMA MovesWithin ==
    ASSUME NEW p, NEW s, NEW u, NEW a, NEW b, NEW exits1, NEW exits, NEW all,
           MovesIn(p, s, a, b, exits1, all),
           \A w : <<"error", w>> \in exits1 =>
             CanUndo(u, w) /\ <<"error", Undone(u, w)>> \in exits,
           \A w : <<"thrown", w>> \in exits1 => <<"thrown", w>> \in exits
    PROVE  MovesIn(p, Within(u, s), a, b, exits, all)
  <1>1. PICK known : /\ SoundFrom(p, s, 0, Len(s), known, exits1)
                     /\ a \subseteq known[1] /\ known[Len(s) + 1] \subseteq b
                     /\ \A i \in 1..Len(s) : known[i] \subseteq all
    BY MovesAre
  <1>2. IsSteps(s) /\ Len(s) \in Nat
    BY MovesAre
  <1>3. PICK s2 : s2 = Within(u, s)
    OBVIOUS
  <1>4. PICK V : \A i \in 1..Len(s) : s[i] \in StepsOver(V)
    BY <1>2, FieldsOf
  <1>5. PICK W : W = V \cup {v \cup u : v \in V}
    OBVIOUS
  <1>6. ASSUME NEW i \in 1..Len(s)
        PROVE  /\ s2[i] \in StepsOver(W)
               /\ s2[i].do = s[i].do /\ s2[i].res = s[i].res
               /\ s2[i].next = s[i].next /\ s2[i].fail = s[i].fail
               /\ s[i].fail # 0 => s2[i].undo = s[i].undo
               /\ s[i].fail = 0 => s2[i].undo = s[i].undo \cup u
    <2>1. s[i] \in StepsOver(V)
      BY <1>2, <1>4
    <2>2. s2[i] = IF s[i].fail = 0 THEN [s[i] EXCEPT !.undo = s[i].undo \cup u] ELSE s[i]
      BY <1>2, <1>3, FieldsOf DEF Within
    <2>3. s[i].undo \in V /\ s[i].undo \cup u \in W
      BY <1>5, <2>1 DEF StepsOver
    <2>4. s[i] \in StepsOver(W)
      BY <1>5, <2>1, StepsOverMore
    <2>5. QED BY <2>2, <2>3, <2>4 DEF StepsOver
  <1>7. IsSteps(s2) /\ Len(s2) = Len(s)
    <2>1. DOMAIN s2 = 1..Len(s) /\ s2 = [i \in 1..Len(s) |-> s2[i]]
      BY <1>2, <1>3, FieldsOf DEF Within
    <2>2. QED BY <1>2, <1>6, <2>1, ChangedSteps
  <1>8. ASSUME NEW i \in 1..Len(s) PROVE Sound(p, s2[i], i, Len(s), known, exits)
    <2>1. Sound(p, s[i], i, Len(s), known, exits1)
      <3>1. Sound(p, s[i], 0 + i, Len(s), known, exits1) /\ 0 + i = i
        BY <1>1 DEF SoundFrom
      <3>2. QED BY <3>1
    <2>2. PICK st : st = s[i]
      OBVIOUS
    <2>3. PICK st2 : st2 = s2[i]
      OBVIOUS
    <2>4. /\ st2.do = st.do /\ st2.res = st.res /\ st2.next = st.next /\ st2.fail = st.fail
          /\ st.fail # 0 => st2.undo = st.undo
          /\ st.fail = 0 => st2.undo = st.undo \cup u
      BY <1>6, <2>2, <2>3
    <2>5. SUFFICES ASSUME NEW w \in known[i]
                   PROVE  /\ Good(p, st2, w)
                          /\ \A d, v : GoesOnTo(st2, w, d, v) => i + d \in 1..Len(s)+1 /\ v \in known[i + d]
                          /\ \A status, v : EndsWith(st2, w, status, v) => <<status, v>> \in exits
      BY <2>3 DEF Sound
    <2>6. /\ Good(p, st, w)
          /\ \A d, v : GoesOnTo(st, w, d, v) => i + d \in 1..Len(s)+1 /\ v \in known[i + d]
          /\ \A status, v : EndsWith(st, w, status, v) => <<status, v>> \in exits1
      BY <2>1, <2>2 DEF Sound
    <2>7. \A d, v : GoesOnTo(st2, w, d, v) => GoesOnTo(st, w, d, v)
      BY ONLY <2>4 DEF GoesOnTo, Turned, FoundNull, FoundSet
    <2>8. ASSUME st.do \in Failing, st.fail = 0
          PROVE  /\ CanUndo(st2.undo, w) /\ <<"error", Undone(st2.undo, w)>> \in exits
      <3>1. PICK v : v = Undone(st.undo, w)
        OBVIOUS
      <3>2. <<"error", v>> \in exits1
        <4>1. EndsWith(st, w, "error", v)
          BY <2>8, <3>1 DEF EndsWith
        <4>2. QED BY <2>6, <4>1
      <3>3. CanUndo(u, v) /\ <<"error", Undone(u, v)>> \in exits
        BY <3>2
      <3>4. CanUndo(st.undo, w)
        BY <2>6, <2>8 DEF Good
      <3>5. CanUndo(st2.undo, w)
        BY <2>4, <2>8, <3>1, <3>3, <3>4 DEF CanUndo, Undone
      <3>6. Undone(u, v) = Undone(st2.undo, w)
        BY <2>4, <2>8, <3>1 DEF Undone
      <3>7. QED BY <3>3, <3>5, <3>6
    <2>9. Good(p, st2, w)
      BY <2>4, <2>6, <2>8 DEF Good
    <2>10. ASSUME NEW status, NEW v, EndsWith(st2, w, status, v) PROVE <<status, v>> \in exits
      <3>1. CASE st.do \in Failing /\ st.fail = 0 /\ status = "error" /\ v = Undone(st2.undo, w)
        BY <2>8, <3>1
      <3>2. CASE st.do = "throws" /\ status = "thrown" /\ v = w
        <4>1. EndsWith(st, w, "thrown", w)
          BY <3>2 DEF EndsWith
        <4>2. QED BY <2>6, <3>2, <4>1
      <3>3. QED BY <2>4, <2>10, <3>1, <3>2 DEF EndsWith
    <2>11. QED BY <2>6, <2>7, <2>9, <2>10
  <1>9. SoundFrom(p, s2, 0, Len(s2), known, exits)
    <2>1. \A i \in 1..Len(s) : 0 + i = i
      OBVIOUS
    <2>2. QED BY <1>7, <1>8, <2>1 DEF SoundFrom
  <1>10. QED BY <1>1, <1>3, <1>7, <1>9, MovesShown

\* A call whose answer goes to a list that the handle keeps: the steps on the
\* list turn into uses of the field, which has to be there.
LEMMA MovesOnKept ==
    ASSUME NEW p, NEW s, Safe(s), NEW f, NEW a, NEW b, NEW exits, NEW all,
           MovesIn(p, s, a, b, exits, all), AreValues(all), b \subseteq all,
           \A w \in all : f \in DOMAIN w => w[f] \in Living,
           \A w, v \in all : "list" \in DOMAIN w => v = w
    PROVE  MovesIn(p, OnKept(f, s), a, b, exits, all)
  <1>1. PICK known : /\ SoundFrom(p, s, 0, Len(s), known, exits)
                     /\ a \subseteq known[1] /\ known[Len(s) + 1] \subseteq b
                     /\ \A i \in 1..Len(s) : known[i] \subseteq all
    BY MovesAre
  <1>2. IsSteps(s) /\ Len(s) \in Nat
    BY MovesAre
  <1>3. PICK s2 : s2 = OnKept(f, s)
    OBVIOUS
  <1>4. PICK V : \A i \in 1..Len(s) : s[i] \in StepsOver(V)
    BY <1>2, FieldsOf
  <1>5. PICK W : W = V \cup {f, "use_kept"}
    OBVIOUS
  <1>6. ASSUME NEW i \in 1..Len(s)
        PROVE  /\ s2[i] \in StepsOver(W)
               /\ s[i].res = "list" => s2[i].do = "use_kept" /\ s2[i].res = f
               /\ s[i].res # "list" => s2[i] = s[i]
    <2>1. s[i] \in StepsOver(W) /\ "use_kept" \in W /\ f \in W
      BY <1>2, <1>4, <1>5, StepsOverMore
    <2>2. s2[i] = IF s[i].res = "list" THEN [s[i] EXCEPT !.do = "use_kept", !.res = f] ELSE s[i]
      BY <1>2, <1>3, FieldsOf DEF OnKept
    <2>3. QED BY <2>1, <2>2 DEF StepsOver
  <1>7. IsSteps(s2) /\ Len(s2) = Len(s)
    <2>1. DOMAIN s2 = 1..Len(s) /\ s2 = [i \in 1..Len(s) |-> s2[i]]
      BY <1>2, <1>3, FieldsOf DEF OnKept
    <2>2. QED BY <1>2, <1>6, <2>1, ChangedSteps
  <1>8. \A i \in 1..Len(s)+1 : known[i] \subseteq all
    <2>1. \A i \in 1..Len(s)+1 : i \in 1..Len(s) \/ i = Len(s) + 1
      BY <1>2
    <2>2. QED BY <1>1, <2>1
  <1>9. PICK rows : RightFrom(s, 0, Len(s), rows)
    BY FitsAre DEF Safe
  <1>10. ASSUME NEW i \in 1..Len(s) PROVE Sound(p, s2[i], i, Len(s), known, exits)
    <2>1. Sound(p, s[i], i, Len(s), known, exits)
      <3>1. Sound(p, s[i], 0 + i, Len(s), known, exits) /\ 0 + i = i
        BY <1>1 DEF SoundFrom
      <3>2. QED BY <3>1
    <2>2. CASE s[i].res # "list"
      BY <1>6, <2>1, <2>2
    <2>3. CASE s[i].res = "list"
      <3>1. s[i].do \notin Ends \cup Branches \cup {"new_handle"}
        BY <1>9, <2>3 DEF RightFrom, Right
      <3>2. PICK st : st = s[i]
        OBVIOUS
      <3>3. PICK st2 : st2 = s2[i]
        OBVIOUS
      <3>4. st2.do = "use_kept" /\ st2.res = f
        BY <1>6, <2>3, <3>3
      <3>5. SUFFICES ASSUME NEW w \in known[i]
                     PROVE  /\ Good(p, st2, w)
                            /\ \A d, v : GoesOnTo(st2, w, d, v) => i + d \in 1..Len(s)+1 /\ v \in known[i + d]
                            /\ \A status, v : ~EndsWith(st2, w, status, v)
        BY <3>3 DEF Sound
      <3>6. w \in all
        BY <1>1
      <3>7. Good(p, st2, w)
        BY <3>4, <3>6 DEF Good, Ready, Failing, Taking
      <3>8. \A status, v : ~EndsWith(st2, w, status, v)
        BY <3>4 DEF EndsWith, Failing
      <3>9. Turned(st2, w) = w
        BY <3>4, <3>6 DEF Turned, Then, Taking, AreValues
      <3>10. i + 1 \in 1..Len(s)+1 /\ Turned(st, w) \in known[i + 1]
        <4>1. GoesOnTo(st, w, 1, Turned(st, w))
          BY <3>1, <3>2 DEF GoesOnTo, FoundNull, Branches
        <4>2. QED BY <2>1, <3>2, <4>1 DEF Sound
      <3>11. Turned(st, w) = w
        <4>1. CASE "list" \in DOMAIN w
          BY <1>8, <3>6, <3>10, <4>1
        <4>2. CASE "list" \notin DOMAIN w
          BY <2>3, <3>1, <3>2, <3>6, <4>2 DEF Turned, AreValues
        <4>3. QED BY <4>1, <4>2
      <3>12. ASSUME NEW d, NEW v, GoesOnTo(st2, w, d, v)
             PROVE  i + d \in 1..Len(s)+1 /\ v \in known[i + d]
        <4>1. d = 1 /\ v = w
          BY <3>4, <3>9, <3>12 DEF GoesOnTo, Branches, Failing
        <4>2. QED BY <3>10, <3>11, <4>1
      <3>13. QED BY <3>7, <3>8, <3>12
    <2>4. QED BY <2>2, <2>3
  <1>11. SoundFrom(p, s2, 0, Len(s2), known, exits)
    <2>1. \A i \in 1..Len(s) : 0 + i = i
      OBVIOUS
    <2>2. QED BY <1>7, <1>10, <2>1 DEF SoundFrom
  <1>12. QED BY <1>1, <1>3, <1>7, <1>11, MovesShown
=============================================================================
