------------------------- MODULE SigarResources_proofs -------------------------
(***************************************************************************)
(* What a call of the library has taken it gives back, what it uses is     *)
(* there, and a closed handle keeps nothing: NothingLost, NothingStale and *)
(* HandleClosed, for any number of turns and any sequence of calls.        *)
(*                                                                         *)
(* The first part shows which values the programs that are put together    *)
(* find and leave, the second that every program of the six platforms      *)
(* leaves what the next call needs, or one of the known leaks; the third   *)
(* that the machine keeps to what its programs do.                         *)
(***************************************************************************)
EXTENDS SigarCalls_proofs

(***************************************************************************)
(* What is followed for the name x on platform p: x itself, and with the   *)
(* two buffers of the mib2 stream of Solaris the descriptor of the stream, *)
(* which says whether they are there.                                      *)
(***************************************************************************)
Beside(x) == IF x \in {"smb", "db"} THEN {"sd", x} ELSE {x}
Tracked(p, x) == IF p = "solaris" THEN Beside(x) ELSE {x}
Alone(p, x) == Tracked(p, x) = {x}
States(p, x) == [Tracked(p, x) -> Values]

\* Fields that are there as long as the handle is.
Lasting(p) == {"jsigar", "handle"} \cup (IF p = "solaris" THEN {"kc"} ELSE {})

\* The values of x between two calls ("rest"), where a call has it ("work"),
\* before it is there ("null"), after it was freed ("gone"), when an open failed
\* ("left"), and all it may have.
At(p, x, m) ==
  IF x \notin Kept[p]
    THEN CASE m = "work" -> {"held"} [] m = "any" -> {"out", "held"} [] OTHER -> {"out"}
    ELSE CASE m = "rest" -> IF x \in StaleBuffers[p] THEN FieldValues
                              ELSE IF x \in Lasting(p) THEN {"live"} ELSE {"null", "live"}
           [] m = "work" -> IF x \in StaleBuffers[p] THEN FieldValues ELSE {"live"}
           [] m = "null" -> {"null"}
           [] m = "gone" -> Gone
           [] m = "left" -> IF x \in LeftByOpen[p] THEN FieldValues ELSE Gone
           [] OTHER -> FieldValues

\* Without a stream none of its buffers is there.
Mode(p, x, m) ==
  {w \in States(p, x) :
     /\ w[x] \in At(p, x, m)
     /\ m = "rest" /\ ~Alone(p, x) =>
          w["sd"] \in {"null", "live"} /\ (w["sd"] = "null" => w[x] \notin Living)}

\* From one mode to another, with errors in a third.
Leads(p, x, s, k, l, e) ==
  MovesIn(p, s, Mode(p, x, k), Mode(p, x, l), {"error"} \X Mode(p, x, e), States(p, x))

\* Whatever is followed stays as it is, also where the call fails; or the call
\* does not fail.
Passes(p, x, s) ==
  \A V \in SUBSET States(p, x) : MovesIn(p, s, V, V, {"error"} \X V, V)
Steady(p, x, s) == \A V \in SUBSET States(p, x) : MovesIn(p, s, V, V, {}, V)

\* Modes are sets of the values that names may have.
LEMMA ModesAre ==
    \A p, x : /\ \A m : Mode(p, x, m) \subseteq States(p, x) /\ AreValues(Mode(p, x, m))
              /\ AreValues(States(p, x))
              /\ \A V \in SUBSET States(p, x) : AreValues(V)
              /\ x \in Tracked(p, x) /\ Tracked(p, x) \subseteq Beside(x)
              /\ \A w \in States(p, x) : DOMAIN w = Tracked(p, x) /\ w[x] \in Values
  <1>1. TAKE p, x
  <1>2. \A m : Mode(p, x, m) \subseteq States(p, x)
    BY DEF Mode
  <1>3. AreValues(States(p, x))
    BY DEF AreValues, States
  <1>4. \A V \in SUBSET States(p, x) : AreValues(V)
    BY <1>3 DEF AreValues
  <1>5. \A m : AreValues(Mode(p, x, m))
    BY <1>2, <1>4
  <1>6. x \in Tracked(p, x) /\ Tracked(p, x) \subseteq Beside(x)
    BY DEF Tracked, Beside
  <1>7. \A w \in States(p, x) : DOMAIN w = Tracked(p, x) /\ w[x] \in Values
    BY <1>6 DEF States
  <1>8. QED BY <1>2, <1>3, <1>4, <1>5, <1>6, <1>7

\* The modes that are part of others.
Part(p, x, k, l) == Mode(p, x, k) \subseteq Mode(p, x, l)

\* Which modes are part of which, by what x is.
LEMMA PartsAre ==
    /\ \A p, x, k : Part(p, x, k, k) /\ Part(p, x, k, "any")
    /\ \A p, x : Part(p, x, "null", "gone") /\ Part(p, x, "gone", "left")
    /\ \A p, x : x \in LeftByOpen[p] => \A k : Part(p, x, k, "left") \/ x \notin Kept[p]
    /\ \A p, x : Alone(p, x) /\ x \in Kept[p] =>
         /\ Part(p, x, "work", "rest")
         /\ x \notin Lasting(p) => Part(p, x, "null", "rest")
         /\ x \in Lasting(p) \cup StaleBuffers[p] => Part(p, x, "rest", "work")
         /\ x \in StaleBuffers[p] => Part(p, x, "any", "rest") /\ Part(p, x, "any", "work")
    /\ \A p, x : Alone(p, x) /\ x \notin Kept[p] =>
         /\ Part(p, x, "rest", "gone") /\ Part(p, x, "gone", "rest")
         /\ Part(p, x, "rest", "left") /\ Part(p, x, "left", "rest")
         /\ Part(p, x, "rest", "null") /\ Part(p, x, "null", "rest")
  <1>1. \A p, x, k : At(p, x, k) \subseteq At(p, x, "any")
    BY DEF At, FieldValues, Gone, Living
  <1>2. \A p, x, k, l : At(p, x, k) \subseteq At(p, x, l) /\ (l # "rest" \/ Alone(p, x)) =>
           Part(p, x, k, l)
    BY DEF Part, Mode
  <1>3. \A p, x : /\ At(p, x, "null") \subseteq At(p, x, "gone")
                  /\ At(p, x, "gone") \subseteq At(p, x, "left")
    BY DEF At, FieldValues, Gone, Living
  <1>4. \A p, x, k : x \in LeftByOpen[p] /\ x \in Kept[p] => At(p, x, k) \subseteq At(p, x, "left")
    BY DEF At, FieldValues, Gone, Living
  <1>5. \A p, x : x \in Kept[p] =>
          /\ At(p, x, "work") \subseteq At(p, x, "rest")
          /\ x \notin Lasting(p) => At(p, x, "null") \subseteq At(p, x, "rest")
          /\ x \in Lasting(p) \cup StaleBuffers[p] => At(p, x, "rest") \subseteq At(p, x, "work")
          /\ x \in StaleBuffers[p] => At(p, x, "any") \subseteq At(p, x, "rest")
                                      /\ At(p, x, "any") \subseteq At(p, x, "work")
    BY DEF At, FieldValues, Gone, Living
  <1>6. \A p, x : x \notin Kept[p] =>
          \A k, l \in {"rest", "gone", "left", "null"} : At(p, x, k) \subseteq At(p, x, l)
    BY DEF At
  <1>7. \A p, x, k : Part(p, x, k, k)
    BY DEF Part
  <1>8. QED BY <1>1, <1>2, <1>3, <1>4, <1>5, <1>6, <1>7

\* Fewer values before, more behind, and more when it fails.
LEMMA LeadsWeaker ==
    \A p, x, s, k, l, e, k2, l2, e2 :
      Leads(p, x, s, k, l, e) /\ Part(p, x, k2, k) /\ Part(p, x, l, l2) /\ Part(p, x, e, e2) =>
        Leads(p, x, s, k2, l2, e2)
  <1>1. TAKE p, x, s, k, l, e, k2, l2, e2
  <1>2. HAVE Leads(p, x, s, k, l, e) /\ Part(p, x, k2, k) /\ Part(p, x, l, l2) /\ Part(p, x, e, e2)
  <1>3. {"error"} \X Mode(p, x, e) \subseteq {"error"} \X Mode(p, x, e2)
    BY <1>2 DEF Part
  <1>4. QED BY <1>2, <1>3, MovesWeaker DEF Leads, Part

\* What stays as it is keeps every mode.
LEMMA LeadsOfPasses ==
    /\ \A p, x, s : Steady(p, x, s) => Passes(p, x, s)
    /\ \A p, x, s, k : Passes(p, x, s) => Leads(p, x, s, k, k, k)
    /\ \A p, x, s, k, e : Steady(p, x, s) => Leads(p, x, s, k, k, e)
  <1>1. ASSUME NEW p, NEW x, NEW s, Steady(p, x, s) PROVE Passes(p, x, s)
    <2>1. ASSUME NEW V \in SUBSET States(p, x) PROVE MovesIn(p, s, V, V, {"error"} \X V, V)
      <3>1. MovesIn(p, s, V, V, {}, V)
        BY <1>1 DEF Steady
      <3>2. {} \subseteq {"error"} \X V /\ V \subseteq V
        OBVIOUS
      <3>3. QED BY <3>1, <3>2, MovesWeaker
    <2>2. QED BY <2>1 DEF Passes
  <1>2. ASSUME NEW p, NEW x, NEW s, Passes(p, x, s), NEW k PROVE Leads(p, x, s, k, k, k)
    <2>1. PICK V : V = Mode(p, x, k)
      OBVIOUS
    <2>2. V \in SUBSET States(p, x)
      BY <2>1, ModesAre
    <2>3. MovesIn(p, s, V, V, {"error"} \X V, V)
      BY <1>2, <2>2 DEF Passes
    <2>4. MovesIn(p, s, V, V, {"error"} \X V, States(p, x))
      BY <2>2, <2>3, MovesWeaker
    <2>5. QED BY <2>1, <2>4 DEF Leads
  <1>3. ASSUME NEW p, NEW x, NEW s, Steady(p, x, s), NEW k, NEW e PROVE Leads(p, x, s, k, k, e)
    <2>1. PICK V : V = Mode(p, x, k)
      OBVIOUS
    <2>2. V \in SUBSET States(p, x)
      BY <2>1, ModesAre
    <2>3. MovesIn(p, s, V, V, {}, V)
      BY <1>3, <2>2 DEF Steady
    <2>4. {} \subseteq {"error"} \X Mode(p, x, e)
      OBVIOUS
    <2>5. MovesIn(p, s, V, V, {"error"} \X Mode(p, x, e), States(p, x))
      BY <2>2, <2>3, <2>4, MovesWeaker
    <2>6. QED BY <2>1, <2>5 DEF Leads
  <1>4. QED BY <1>1, <1>2, <1>3

(***************************************************************************)
(* How programs that are put together lead, pass and stay steady.          *)
(***************************************************************************)
LEMMA LoopForms ==
    ASSUME NEW p, NEW s, NEW a, NEW exits, NEW all, MovesIn(p, s, a, a, exits, all),
           a \subseteq all, AreValues(a)
    PROVE  /\ MovesIn(p, Maybe(s), a, a, exits, all) /\ MovesIn(p, Loop(s), a, a, exits, all)
           /\ MovesIn(p, EachCounted(s), a, a, exits, all)
  <1>1. MovesIn(p, Maybe(s), a, a, exits, all)
    BY MovesMaybe
  <1>2. MovesIn(p, Loop(s), a, a, exits, all) /\ MovesIn(p, EachCounted(s), a, a, exits, all)
    BY MovesLoop, LoopIs
  <1>3. QED BY <1>1, <1>2

\* The steps of a choice between two programs.
LEMMA EitherIs ==
    ASSUME NEW s, NEW t, IsSteps(s), IsSteps(t)
    PROVE  Either(s, t)
             = ((Step("fork", Nothing, {}, Len(s) + 2) \o s) \o Jump(Len(t) + 1)) \o t
  <1>1. Len(s) \in Nat /\ Len(t) \in Nat
    BY StepsAre
  <1>2. PICK J : J = Jump(Len(t) + 1)
    OBVIOUS
  <1>3. IsSteps(J) /\ Len(J) = 1
    <2>1. PICK n \in Int : n = Len(t) + 1
      BY <1>1
    <2>2. J = Step("jump", Nothing, {}, n)
      BY <1>2, <2>1, JumpIs
    <2>3. QED BY <2>2, StepIs
  <1>4. Len(s \o J) + 1 = Len(s) + 2
    <2>1. Len(s \o J) = Len(s) + Len(J)
      BY ONLY IsSteps(s), <1>3, IsStepsJoin
    <2>2. QED BY <1>1, <1>3, <2>1
  <1>5. PICK F : F = Step("fork", Nothing, {}, Len(s) + 2)
    OBVIOUS
  <1>6. IsSteps(F)
    <2>1. PICK n \in Int : n = Len(s) + 2
      BY <1>1
    <2>2. QED BY <1>5, <2>1, StepIs
  <1>7. F \o (s \o J) = (F \o s) \o J
    <2>1. PICK V : F \in Seq(StepsOver(V))
      BY <1>6 DEF IsSteps
    <2>2. PICK W : s \in Seq(StepsOver(W))
      BY DEF IsSteps
    <2>3. PICK X : J \in Seq(StepsOver(X))
      BY <1>3 DEF IsSteps
    <2>4. PICK R : R = StepsOver(V) \cup StepsOver(W) \cup StepsOver(X)
      OBVIOUS
    <2>5. F \in Seq(R) /\ s \in Seq(R) /\ J \in Seq(R)
      BY <2>1, <2>2, <2>3, <2>4
    <2>6. QED BY <2>5
  <1>8. Maybe(s \o J) = (F \o s) \o J
    BY <1>4, <1>5, <1>7, MaybeIs
  <1>9. QED BY <1>2, <1>5, <1>8 DEF Either

\* A choice between two programs moves names as each of them does.
LEMMA EitherForms ==
    ASSUME NEW p, NEW s, NEW t, NEW a, NEW b, NEW exits, NEW all,
           MovesIn(p, s, a, b, exits, all), MovesIn(p, t, a, b, exits, all),
           a \subseteq all, b \subseteq all, AreValues(a), AreValues(b)
    PROVE  /\ MovesIn(p, Either(s, t), a, b, exits, all)
           /\ \A f : (\A w \in a : f \notin DOMAIN w) =>
                MovesIn(p, IfKept(f, s, t), a, b, exits, all)
  <1>1. IsSteps(s) /\ IsSteps(t)
    BY MovesAre
  <1>2. MovesIn(p, Either(s, t), a, b, exits, all)
    <2>1. "fork" \in {"fork", "if_kept"}
      OBVIOUS
    <2>2. MovesIn(p, ((Step("fork", Nothing, {}, Len(s) + 2) \o s) \o Jump(Len(t) + 1)) \o t,
                  a, b, exits, all)
      BY <2>1, MovesBranch
    <2>3. QED BY <1>1, <2>2, EitherIs
  <1>3. ASSUME NEW f, \A w \in a : f \notin DOMAIN w
        PROVE  MovesIn(p, IfKept(f, s, t), a, b, exits, all)
    <2>1. "if_kept" \in {"fork", "if_kept"}
      OBVIOUS
    <2>2. QED BY <1>3, <2>1, MovesBranch DEF IfKept
  <1>4. QED BY <1>2, <1>3

\* Other names are not followed.
LEMMA OthersAre ==
    \A p, x : /\ \A f : f # x /\ f # "sd" => f \notin Tracked(p, x)
              /\ \A u : x \notin u /\ "sd" \notin u => u \cap Tracked(p, x) = {}
  BY DEF Tracked, Beside

\* What leaves a name alone, put together, leaves it alone.
LEMMA PassesForms ==
    \A p, x :
      /\ Passes(p, x, <<>>)
      /\ \A s, t : Passes(p, x, s) /\ Passes(p, x, t) =>
           /\ Passes(p, x, s \o t) /\ Passes(p, x, Either(s, t)) /\ Passes(p, x, OrElse(s, t))
           /\ \A f : f # x /\ f # "sd" => Passes(p, x, IfKept(f, s, t))
      /\ \A s : Passes(p, x, s) =>
           /\ Passes(p, x, Maybe(s)) /\ Passes(p, x, Loop(s)) /\ Passes(p, x, EachCounted(s))
           /\ Passes(p, x, Try(s))
           /\ \A u : x \notin u /\ "sd" \notin u => Passes(p, x, Within(u, s))
           /\ \A f : f # x /\ f # "sd" /\ x \notin {"list", "sd"} /\ Safe(s) =>
                Passes(p, x, OnKept(f, s))
  <1>1. TAKE p, x
  <1>2. Passes(p, x, <<>>)
    BY MovesEmpty DEF Passes
  <1>3. ASSUME NEW s, NEW t, Passes(p, x, s), Passes(p, x, t)
        PROVE  /\ Passes(p, x, s \o t) /\ Passes(p, x, Either(s, t)) /\ Passes(p, x, OrElse(s, t))
               /\ \A f : f # x /\ f # "sd" => Passes(p, x, IfKept(f, s, t))
    <2>1. ASSUME NEW V \in SUBSET States(p, x)
          PROVE  /\ MovesIn(p, s \o t, V, V, {"error"} \X V, V)
                 /\ MovesIn(p, Either(s, t), V, V, {"error"} \X V, V)
                 /\ MovesIn(p, OrElse(s, t), V, V, {"error"} \X V, V)
                 /\ \A f : f # x /\ f # "sd" => MovesIn(p, IfKept(f, s, t), V, V, {"error"} \X V, V)
      <3>1. MovesIn(p, s, V, V, {"error"} \X V, V) /\ MovesIn(p, t, V, V, {"error"} \X V, V)
        BY <1>3, <2>1 DEF Passes
      <3>2. V \subseteq V /\ AreValues(V) /\ \A w \in V : DOMAIN w = Tracked(p, x)
        BY <2>1, ModesAre
      <3>3. MovesIn(p, s \o t, V, V, {"error"} \X V, V)
        BY <3>1, MovesSeq
      <3>4. /\ MovesIn(p, Either(s, t), V, V, {"error"} \X V, V)
            /\ \A f : (\A w \in V : f \notin DOMAIN w) =>
                 MovesIn(p, IfKept(f, s, t), V, V, {"error"} \X V, V)
        BY <3>1, <3>2, EitherForms
      <3>5. MovesIn(p, OrElse(s, t), V, V, {"error"} \X V, V)
        <4>1. \A w : <<"error", w>> \in {"error"} \X V => w \in V
          OBVIOUS
        <4>2. \A w : <<"thrown", w>> \in {"error"} \X V => <<"thrown", w>> \in {"error"} \X V
          OBVIOUS
        <4>3. QED BY <3>1, <3>2, <4>1, <4>2, MovesOrElse
      <3>6. QED BY <3>2, <3>3, <3>4, <3>5, OthersAre
    <2>2. QED BY <2>1 DEF Passes
  <1>4. ASSUME NEW s, Passes(p, x, s)
        PROVE  /\ Passes(p, x, Maybe(s)) /\ Passes(p, x, Loop(s)) /\ Passes(p, x, EachCounted(s))
               /\ Passes(p, x, Try(s))
               /\ \A u : x \notin u /\ "sd" \notin u => Passes(p, x, Within(u, s))
               /\ \A f : f # x /\ f # "sd" /\ x \notin {"list", "sd"} /\ Safe(s) =>
                    Passes(p, x, OnKept(f, s))
    <2>1. ASSUME NEW V \in SUBSET States(p, x)
          PROVE  /\ MovesIn(p, Maybe(s), V, V, {"error"} \X V, V)
                 /\ MovesIn(p, Loop(s), V, V, {"error"} \X V, V)
                 /\ MovesIn(p, EachCounted(s), V, V, {"error"} \X V, V)
      <3>1. MovesIn(p, s, V, V, {"error"} \X V, V)
        BY <1>4, <2>1 DEF Passes
      <3>2. V \subseteq V /\ AreValues(V)
        BY <2>1, ModesAre
      <3>3. QED BY <3>1, <3>2, LoopForms
    <2>2. Passes(p, x, Try(s))
      BY <1>2, <1>3, <1>4 DEF Try
    <2>3. ASSUME NEW u, x \notin u, "sd" \notin u PROVE Passes(p, x, Within(u, s))
      <3>1. ASSUME NEW V \in SUBSET States(p, x)
            PROVE  MovesIn(p, Within(u, s), V, V, {"error"} \X V, V)
        <4>1. MovesIn(p, s, V, V, {"error"} \X V, V)
          BY <1>4, <3>1 DEF Passes
        <4>2. ASSUME NEW w, <<"error", w>> \in {"error"} \X V
              PROVE  CanUndo(u, w) /\ <<"error", Undone(u, w)>> \in {"error"} \X V
          <5>1. w \in V /\ w \in [Tracked(p, x) -> Values]
            BY <3>1, <4>2 DEF States
          <5>2. u \cap Tracked(p, x) = {}
            BY <2>3, OthersAre
          <5>3. Undone(u, w) = w /\ CanUndo(u, w)
            BY <5>1, <5>2 DEF Undone, CanUndo
          <5>4. QED BY <5>1, <5>3
        <4>3. \A w : <<"thrown", w>> \in {"error"} \X V => <<"thrown", w>> \in {"error"} \X V
          OBVIOUS
        <4>4. QED BY <4>1, <4>2, <4>3, MovesWithin
      <3>2. QED BY <3>1 DEF Passes
    <2>4. ASSUME NEW f, f # x, f # "sd", x \notin {"list", "sd"}, Safe(s)
          PROVE  Passes(p, x, OnKept(f, s))
      <3>1. ASSUME NEW V \in SUBSET States(p, x)
            PROVE  MovesIn(p, OnKept(f, s), V, V, {"error"} \X V, V)
        <4>1. MovesIn(p, s, V, V, {"error"} \X V, V)
          BY <1>4, <3>1 DEF Passes
        <4>2. V \subseteq V /\ AreValues(V) /\ \A w \in V : DOMAIN w = Tracked(p, x)
          BY <3>1, ModesAre
        <4>3. f \notin Tracked(p, x) /\ "list" \notin Tracked(p, x)
          BY <2>4 DEF Tracked, Beside
        <4>4. \A w \in V : f \in DOMAIN w => w[f] \in Living
          BY <4>2, <4>3
        <4>5. \A w, v \in V : "list" \in DOMAIN w => v = w
          BY <4>2, <4>3
        <4>6. QED BY <2>4, <4>1, <4>2, <4>4, <4>5, MovesOnKept
      <3>2. QED BY <3>1 DEF Passes
    <2>5. QED BY <2>1, <2>2, <2>3, <2>4 DEF Passes
  <1>5. QED BY <1>2, <1>3, <1>4

(***************************************************************************)
(* Names by what they are: of the call alone, or fields of the handle; and *)
(* among these the ones of which nothing is known but that they are fields.*)
(***************************************************************************)
Local(p, r) == r \notin Kept[p] /\ Alone(p, r)
Field(p, f) == f \in Kept[p] /\ Alone(p, f)
Passing(p, f) == Field(p, f) /\ f \notin Lasting(p)

\* The modes of a resource of a call, and of a field that comes and goes.
LEMMA AtNames ==
    /\ \A p, r : Local(p, r) =>
         /\ At(p, r, "rest") = {"out"} /\ At(p, r, "work") = {"held"}
         /\ At(p, r, "any") = {"out", "held"}
    /\ \A p, f : Passing(p, f) =>
         /\ \A v \in At(p, f, "rest") : v \in FieldValues /\ (v # "null" => v \in At(p, f, "work"))
         /\ \A v \in At(p, f, "null") : v = "null"
    /\ \A p, x, m : m # "rest" \/ Alone(p, x) =>
         Mode(p, x, m) = {w \in States(p, x) : w[x] \in At(p, x, m)}
  <1>1. \A p, r : Local(p, r) =>
          /\ At(p, r, "rest") = {"out"} /\ At(p, r, "work") = {"held"}
          /\ At(p, r, "any") = {"out", "held"}
    BY DEF Local, At
  <1>2. \A p, f : Passing(p, f) =>
          /\ \A v \in At(p, f, "rest") : v \in FieldValues /\ (v # "null" => v \in At(p, f, "work"))
          /\ \A v \in At(p, f, "null") : v = "null"
    BY DEF Passing, Field, At, FieldValues
  <1>3. \A p, x, m : m # "rest" \/ Alone(p, x) =>
          Mode(p, x, m) = {w \in States(p, x) : w[x] \in At(p, x, m)}
    BY DEF Mode
  <1>4. QED BY <1>1, <1>2, <1>3

\* Two programs, one behind the other, by the modes between them.
LEMMA LeadsSeq ==
    \A p, x, s, t, k, l, e :
      \/ Leads(p, x, s, k, "rest", e) /\ Leads(p, x, t, "rest", l, e)
      \/ Leads(p, x, s, k, "work", e) /\ Leads(p, x, t, "work", l, e)
      \/ Leads(p, x, s, k, "null", e) /\ Leads(p, x, t, "null", l, e)
      \/ Leads(p, x, s, k, "gone", e) /\ Leads(p, x, t, "gone", l, e)
      \/ Leads(p, x, s, k, "any", e) /\ Leads(p, x, t, "any", l, e)
      => Leads(p, x, s \o t, k, l, e)
  <1>1. \A p, x, s, t, k, l, e, m :
          Leads(p, x, s, k, m, e) /\ Leads(p, x, t, m, l, e) => Leads(p, x, s \o t, k, l, e)
    BY MovesSeq DEF Leads
  <1>2. QED BY <1>1

\* Choices and loops.
LEMMA LeadsChoices ==
    \A p, x :
      /\ \A s, k, e : Leads(p, x, s, k, k, e) =>
           /\ Leads(p, x, Maybe(s), k, k, e) /\ Leads(p, x, Loop(s), k, k, e)
           /\ Leads(p, x, EachCounted(s), k, k, e)
      /\ \A s, k, e : Leads(p, x, s, k, "any", e) => Leads(p, x, Maybe(s), k, "any", e)
      /\ \A s, t, k, l, e : Leads(p, x, s, k, l, e) /\ Leads(p, x, t, k, l, e) =>
           /\ Leads(p, x, Either(s, t), k, l, e)
           /\ \A f : f # x /\ f # "sd" => Leads(p, x, IfKept(f, s, t), k, l, e)
  <1>1. TAKE p, x
  <1>2. ASSUME NEW s, NEW k, NEW e, Leads(p, x, s, k, k, e)
        PROVE  /\ Leads(p, x, Maybe(s), k, k, e) /\ Leads(p, x, Loop(s), k, k, e)
               /\ Leads(p, x, EachCounted(s), k, k, e)
    <2>1. PICK a, exits : a = Mode(p, x, k) /\ exits = {"error"} \X Mode(p, x, e)
      OBVIOUS
    <2>2. MovesIn(p, s, a, a, exits, States(p, x))
      BY <1>2, <2>1 DEF Leads
    <2>3. a \subseteq States(p, x) /\ AreValues(a)
      BY <2>1, ModesAre
    <2>4. /\ MovesIn(p, Maybe(s), a, a, exits, States(p, x))
          /\ MovesIn(p, Loop(s), a, a, exits, States(p, x))
          /\ MovesIn(p, EachCounted(s), a, a, exits, States(p, x))
      BY <2>2, <2>3, LoopForms
    <2>5. QED BY <2>1, <2>4 DEF Leads
  <1>3. ASSUME NEW s, NEW k, NEW e, Leads(p, x, s, k, "any", e)
        PROVE  Leads(p, x, Maybe(s), k, "any", e)
    <2>1. PICK a, b, exits : a = Mode(p, x, k) /\ b = Mode(p, x, "any")
                               /\ exits = {"error"} \X Mode(p, x, e)
      OBVIOUS
    <2>2. MovesIn(p, s, a, b, exits, States(p, x))
      BY <1>3, <2>1 DEF Leads
    <2>3. a \subseteq States(p, x) /\ AreValues(a)
      BY <2>1, ModesAre
    <2>4. a \subseteq b
      BY <2>1, PartsAre DEF Part
    <2>5. MovesIn(p, Maybe(s), a, b, exits, States(p, x))
      BY <2>2, <2>3, <2>4, MovesMaybe
    <2>6. QED BY <2>1, <2>5 DEF Leads
  <1>4. ASSUME NEW s, NEW t, NEW k, NEW l, NEW e, Leads(p, x, s, k, l, e), Leads(p, x, t, k, l, e)
        PROVE  /\ Leads(p, x, Either(s, t), k, l, e)
               /\ \A f : f # x /\ f # "sd" => Leads(p, x, IfKept(f, s, t), k, l, e)
    <2>1. PICK a, b, exits : a = Mode(p, x, k) /\ b = Mode(p, x, l)
                               /\ exits = {"error"} \X Mode(p, x, e)
      OBVIOUS
    <2>2. MovesIn(p, s, a, b, exits, States(p, x)) /\ MovesIn(p, t, a, b, exits, States(p, x))
      BY <1>4, <2>1 DEF Leads
    <2>3. /\ a \subseteq States(p, x) /\ AreValues(a) /\ b \subseteq States(p, x) /\ AreValues(b)
          /\ \A w \in a : DOMAIN w = Tracked(p, x)
      BY <2>1, ModesAre
    <2>4. /\ MovesIn(p, Either(s, t), a, b, exits, States(p, x))
          /\ \A f : (\A w \in a : f \notin DOMAIN w) =>
               MovesIn(p, IfKept(f, s, t), a, b, exits, States(p, x))
      BY <2>2, <2>3, EitherForms
    <2>5. QED BY <2>1, <2>3, <2>4, OthersAre DEF Leads
  <1>5. QED BY <1>2, <1>3, <1>4

\* A test of the field that is followed tells the two modes apart.
LEMMA LeadsIfKept ==
    \A p, x, s, t, l, e :
      Passing(p, x) /\ Leads(p, x, s, "work", l, e) /\ Leads(p, x, t, "null", l, e) =>
        Leads(p, x, IfKept(x, s, t), "rest", l, e)
  <1>1. TAKE p, x, s, t, l, e
  <1>2. HAVE Passing(p, x) /\ Leads(p, x, s, "work", l, e) /\ Leads(p, x, t, "null", l, e)
  <1>3. PICK a, a1, a2, b, exits, all :
          /\ a = Mode(p, x, "rest") /\ a1 = Mode(p, x, "work") /\ a2 = Mode(p, x, "null")
          /\ b = Mode(p, x, l) /\ exits = {"error"} \X Mode(p, x, e) /\ all = States(p, x)
    OBVIOUS
  <1>4. MovesIn(p, s, a1, b, exits, all) /\ MovesIn(p, t, a2, b, exits, all)
    BY <1>2, <1>3 DEF Leads
  <1>5. a \subseteq all /\ b \subseteq all /\ AreValues(a) /\ AreValues(b)
    BY <1>3, ModesAre
  <1>6. ASSUME NEW w \in a
        PROVE  \/ x \in DOMAIN w /\ w[x] = "null" /\ w \in a2
               \/ x \in DOMAIN w /\ w[x] \in FieldValues \ {"null"} /\ w \in a1
    <2>1. w \in States(p, x) /\ w[x] \in At(p, x, "rest") /\ x \in DOMAIN w
      BY <1>3, <1>6, ModesAre DEF Mode
    <2>2. CASE w[x] = "null"
      <3>1. "null" \in At(p, x, "null")
        BY <1>2 DEF At, Passing, Field
      <3>2. QED BY <1>3, <2>1, <2>2, <3>1, AtNames
    <2>3. CASE w[x] # "null"
      BY <1>2, <1>3, <2>1, <2>3, AtNames
    <2>4. QED BY <2>2, <2>3
  <1>7. "if_kept" \in {"fork", "if_kept"}
    OBVIOUS
  <1>8. MovesIn(p, ((Step("if_kept", x, {}, Len(s) + 2) \o s) \o Jump(Len(t) + 1)) \o t,
                a, b, exits, all)
    BY <1>4, <1>5, <1>6, <1>7, MovesBranch
  <1>9. QED BY <1>3, <1>8 DEF Leads, IfKept

\* What follows a failure begins where the failure left off.
LEMMA LeadsOrElse ==
    /\ \A p, x, s, t, k, l, e :
         \/ Leads(p, x, s, k, l, "rest") /\ Leads(p, x, t, "rest", l, e)
         \/ Leads(p, x, s, k, l, "work") /\ Leads(p, x, t, "work", l, e)
         \/ Leads(p, x, s, k, l, "null") /\ Leads(p, x, t, "null", l, e)
         \/ Leads(p, x, s, k, l, "gone") /\ Leads(p, x, t, "gone", l, e)
         \/ Leads(p, x, s, k, l, "any") /\ Leads(p, x, t, "any", l, e)
         => Leads(p, x, OrElse(s, t), k, l, e)
    /\ \A p, x, s, k, l, e : Leads(p, x, s, k, l, l) => Leads(p, x, Try(s), k, l, e)
    /\ \A p, x, k, e : Leads(p, x, <<>>, k, k, e)
  <1>1. ASSUME NEW p, NEW x, NEW s, NEW t, NEW k, NEW l, NEW e, NEW m,
               Leads(p, x, s, k, l, m), Leads(p, x, t, m, l, e)
        PROVE  Leads(p, x, OrElse(s, t), k, l, e)
    <2>1. PICK a, b, c, exits1, exits, all :
            /\ a = Mode(p, x, k) /\ b = Mode(p, x, l) /\ c = Mode(p, x, m)
            /\ exits1 = {"error"} \X c /\ exits = {"error"} \X Mode(p, x, e) /\ all = States(p, x)
      OBVIOUS
    <2>2. MovesIn(p, s, a, b, exits1, all) /\ MovesIn(p, t, c, b, exits, all)
      BY <1>1, <2>1 DEF Leads
    <2>3. b \subseteq all /\ AreValues(b)
      BY <2>1, ModesAre
    <2>4. \A w : <<"error", w>> \in exits1 => w \in c
      BY <2>1
    <2>5. \A w : <<"thrown", w>> \in exits1 => <<"thrown", w>> \in exits
      BY <2>1
    <2>6. MovesIn(p, OrElse(s, t), a, b, exits, all)
      BY <2>2, <2>3, <2>4, <2>5, MovesOrElse
    <2>7. QED BY <2>1, <2>6 DEF Leads
  <1>2. \A p, x, k, e : Leads(p, x, <<>>, k, k, e)
    BY MovesEmpty DEF Leads
  <1>3. \A p, x, s, k, l, e : Leads(p, x, s, k, l, l) => Leads(p, x, Try(s), k, l, e)
    BY <1>1, <1>2 DEF Try
  <1>4. QED BY <1>1, <1>2, <1>3

\* What the caller frees when the callee fails.
LEMMA LeadsWithin ==
    /\ \A p, x, s, u, k, l, e : x \notin u /\ "sd" \notin u /\ Leads(p, x, s, k, l, e) =>
         Leads(p, x, Within(u, s), k, l, e)
    /\ \A p, x, s, u, k, l : x \in u /\ Local(p, x) /\ Leads(p, x, s, k, l, "work") =>
         Leads(p, x, Within(u, s), k, l, "rest")
  <1>1. ASSUME NEW p, NEW x, NEW s, NEW u, NEW k, NEW l, NEW e, NEW e2, Leads(p, x, s, k, l, e),
               \A w \in Mode(p, x, e) : CanUndo(u, w) /\ Undone(u, w) \in Mode(p, x, e2)
        PROVE  Leads(p, x, Within(u, s), k, l, e2)
    <2>1. PICK a, b, exits1, exits, all :
            /\ a = Mode(p, x, k) /\ b = Mode(p, x, l)
            /\ exits1 = {"error"} \X Mode(p, x, e) /\ exits = {"error"} \X Mode(p, x, e2)
            /\ all = States(p, x)
      OBVIOUS
    <2>2. MovesIn(p, s, a, b, exits1, all)
      BY <1>1, <2>1 DEF Leads
    <2>3. \A w : <<"error", w>> \in exits1 => CanUndo(u, w) /\ <<"error", Undone(u, w)>> \in exits
      BY <1>1, <2>1
    <2>4. \A w : <<"thrown", w>> \in exits1 => <<"thrown", w>> \in exits
      BY <2>1
    <2>5. MovesIn(p, Within(u, s), a, b, exits, all)
      BY <2>2, <2>3, <2>4, MovesWithin
    <2>6. QED BY <2>1, <2>5 DEF Leads
  <1>2. ASSUME NEW p, NEW x, NEW u, x \notin u, "sd" \notin u, NEW e, NEW w \in Mode(p, x, e)
        PROVE  CanUndo(u, w) /\ Undone(u, w) \in Mode(p, x, e)
    <2>1. w \in [Tracked(p, x) -> Values]
      BY <1>2, ModesAre DEF States
    <2>2. u \cap Tracked(p, x) = {}
      BY <1>2, OthersAre
    <2>3. Undone(u, w) = w /\ CanUndo(u, w)
      BY <2>1, <2>2 DEF Undone, CanUndo
    <2>4. QED BY <1>2, <2>3
  <1>3. ASSUME NEW p, NEW x, NEW u, x \in u, Local(p, x), NEW w \in Mode(p, x, "work")
        PROVE  CanUndo(u, w) /\ Undone(u, w) \in Mode(p, x, "rest")
    <2>1. w \in [{x} -> Values] /\ w[x] = "held" /\ Tracked(p, x) = {x}
      BY <1>3, AtNames DEF Local, Alone, Mode, States
    <2>2. CanUndo(u, w)
      BY <2>1 DEF CanUndo
    <2>3. PICK v : v = Undone(u, w)
      OBVIOUS
    <2>4. v = [n \in {x} |-> "out"]
      BY <1>3, <2>1, <2>3 DEF Undone
    <2>5. v \in [{x} -> Values] /\ v[x] = "out"
      BY <2>4 DEF Values
    <2>6. v \in States(p, x) /\ v[x] \in At(p, x, "rest")
      BY <1>3, <2>1, <2>5, AtNames DEF States
    <2>7. QED BY <1>3, <2>2, <2>3, <2>6, AtNames DEF Local
  <1>4. QED BY <1>1, <1>2, <1>3

\* Rows that are stored in a field of the handle.
LEMMA LeadsOnKept ==
    /\ \A p, x, f, s, k, l, e :
         f # x /\ f # "sd" /\ x # "list" /\ Safe(s) /\ Leads(p, x, s, k, l, e) =>
           Leads(p, x, OnKept(f, s), k, l, e)
    /\ \A p, f, s : Local(p, "list") /\ f # "list" /\ Safe(s) /\ Passes(p, "list", s) =>
         Leads(p, "list", OnKept(f, s), "rest", "rest", "rest")
    /\ \A p, f, s : Field(p, f) /\ f # "list" /\ f \notin StaleBuffers[p] /\ Safe(s)
                      /\ Passes(p, f, s) =>
         Leads(p, f, OnKept(f, s), "work", "work", "work")
  <1>1. ASSUME NEW p, NEW x, NEW f, NEW s, NEW k, NEW l, NEW e,
               f # x, f # "sd", x # "list", Safe(s), Leads(p, x, s, k, l, e)
        PROVE  Leads(p, x, OnKept(f, s), k, l, e)
    <2>1. PICK a, b, exits, all :
            /\ a = Mode(p, x, k) /\ b = Mode(p, x, l)
            /\ exits = {"error"} \X Mode(p, x, e) /\ all = States(p, x)
      OBVIOUS
    <2>2. MovesIn(p, s, a, b, exits, all)
      BY <1>1, <2>1 DEF Leads
    <2>3. b \subseteq all /\ AreValues(all) /\ \A w \in all : DOMAIN w = Tracked(p, x)
      BY <2>1, ModesAre
    <2>4. f \notin Tracked(p, x) /\ "list" \notin Tracked(p, x)
      BY <1>1 DEF Tracked, Beside
    <2>5. /\ \A w \in all : f \in DOMAIN w => w[f] \in Living
          /\ \A w, v \in all : "list" \in DOMAIN w => v = w
      BY <2>3, <2>4
    <2>6. MovesIn(p, OnKept(f, s), a, b, exits, all)
      BY <1>1, <2>2, <2>3, <2>5, MovesOnKept
    <2>7. QED BY <2>1, <2>6 DEF Leads
  <1>2. ASSUME NEW p, NEW x, NEW f, NEW s, NEW k, Safe(s), Passes(p, x, s),
               \A w \in Mode(p, x, k) : f \in DOMAIN w => w[f] \in Living,
               \A w, v \in Mode(p, x, k) : "list" \in DOMAIN w => v = w
        PROVE  Leads(p, x, OnKept(f, s), k, k, k)
    <2>1. PICK V : V = Mode(p, x, k)
      OBVIOUS
    <2>2. V \in SUBSET States(p, x) /\ V \subseteq V /\ AreValues(V)
      BY <2>1, ModesAre
    <2>3. MovesIn(p, s, V, V, {"error"} \X V, V)
      BY <1>2, <2>2 DEF Passes
    <2>4. MovesIn(p, OnKept(f, s), V, V, {"error"} \X V, V)
      BY <1>2, <2>1, <2>2, <2>3, MovesOnKept
    <2>5. MovesIn(p, OnKept(f, s), V, V, {"error"} \X V, States(p, x))
      BY <2>2, <2>4, MovesWeaker
    <2>6. QED BY <2>1, <2>5 DEF Leads
  <1>3. ASSUME NEW p, NEW f, NEW s, Local(p, "list"), f # "list", Safe(s), Passes(p, "list", s)
        PROVE  Leads(p, "list", OnKept(f, s), "rest", "rest", "rest")
    <2>1. \A w \in Mode(p, "list", "rest") : w \in [{"list"} -> Values] /\ w["list"] = "out"
      BY <1>3, AtNames DEF Local, Alone, Mode, States
    <2>2. \A w \in Mode(p, "list", "rest") : f \in DOMAIN w => w[f] \in Living
      BY <1>3, <2>1
    <2>3. \A w, v \in Mode(p, "list", "rest") : v = w
      <3>1. \A w \in Mode(p, "list", "rest") : w = [n \in {"list"} |-> "out"]
        BY <2>1
      <3>2. QED BY <3>1
    <2>4. QED BY <1>2, <1>3, <2>2, <2>3
  <1>4. ASSUME NEW p, NEW f, NEW s, Field(p, f), f # "list", f \notin StaleBuffers[p], Safe(s),
               Passes(p, f, s)
        PROVE  Leads(p, f, OnKept(f, s), "work", "work", "work")
    <2>1. \A w \in Mode(p, f, "work") : DOMAIN w = {f} /\ w[f] = "live"
      BY <1>4 DEF Field, Alone, Mode, States, At
    <2>2. \A w \in Mode(p, f, "work") : f \in DOMAIN w => w[f] \in Living
      BY <2>1 DEF Living
    <2>3. \A w, v \in Mode(p, f, "work") : "list" \in DOMAIN w => v = w
      BY <1>4, <2>1
    <2>4. QED BY <1>2, <1>4, <2>2, <2>3
  <1>5. QED BY <1>1, <1>3, <1>4

\* Modes that are part of others may be put for them.
LEMMA LeadsLess ==
    /\ \A p, x, s, k, l, e : Field(p, x) =>
         /\ Leads(p, x, s, k, "work", e) => Leads(p, x, s, k, "rest", e)
         /\ Leads(p, x, s, k, l, "work") => Leads(p, x, s, k, l, "rest")
         /\ Leads(p, x, s, "rest", l, e) => Leads(p, x, s, "work", l, e)
    /\ \A p, x, s, k, l, e : Passing(p, x) =>
         /\ Leads(p, x, s, k, "null", e) => Leads(p, x, s, k, "rest", e)
         /\ Leads(p, x, s, k, l, "null") => Leads(p, x, s, k, l, "rest")
         /\ Leads(p, x, s, "rest", l, e) => Leads(p, x, s, "null", l, e)
    /\ \A p, x, s, k, l, e :
         /\ Leads(p, x, s, k, "null", e) => Leads(p, x, s, k, "gone", e)
         /\ Leads(p, x, s, k, l, "null") => Leads(p, x, s, k, l, "gone")
         /\ Leads(p, x, s, "gone", l, e) => Leads(p, x, s, "null", l, e)
    /\ \A p, x, s, k, l, e : Field(p, x) /\ x \in Lasting(p) \cup StaleBuffers[p] =>
         /\ Leads(p, x, s, "work", l, e) => Leads(p, x, s, "rest", l, e)
         /\ Leads(p, x, s, k, "rest", e) => Leads(p, x, s, k, "work", e)
    /\ \A p, x, s, k, l, e : Field(p, x) /\ x \in StaleBuffers[p] =>
         /\ Leads(p, x, s, k, "any", e) => Leads(p, x, s, k, "rest", e)
         /\ Leads(p, x, s, k, l, "any") => Leads(p, x, s, k, l, "rest")
    /\ \A p, x, s, k, l, e : Leads(p, x, s, k, l, e) =>
         Leads(p, x, s, k, "any", e) /\ Leads(p, x, s, k, l, "any")
  <1>1. \A p, x, k : Part(p, x, k, k)
    BY PartsAre
  <1>2. \A p, x, s, k, l, e, l2 : Leads(p, x, s, k, l, e) /\ Part(p, x, l, l2) =>
          Leads(p, x, s, k, l2, e)
    BY <1>1, LeadsWeaker
  <1>3. \A p, x, s, k, l, e, e2 : Leads(p, x, s, k, l, e) /\ Part(p, x, e, e2) =>
          Leads(p, x, s, k, l, e2)
    BY <1>1, LeadsWeaker
  <1>4. \A p, x, s, k, l, e, k2 : Leads(p, x, s, k, l, e) /\ Part(p, x, k2, k) =>
          Leads(p, x, s, k2, l, e)
    BY <1>1, LeadsWeaker
  <1>5. \A p, x : Field(p, x) => Part(p, x, "work", "rest")
    BY PartsAre DEF Field
  <1>6. \A p, x : Passing(p, x) => Part(p, x, "null", "rest")
    BY PartsAre DEF Field, Passing
  <1>7. \A p, x, k : Part(p, x, "null", "gone") /\ Part(p, x, k, "any")
    BY PartsAre
  <1>8. \A p, x : Field(p, x) /\ x \in Lasting(p) \cup StaleBuffers[p] => Part(p, x, "rest", "work")
    BY PartsAre DEF Field
  <1>9. \A p, x : Field(p, x) /\ x \in StaleBuffers[p] => Part(p, x, "any", "rest")
    BY PartsAre DEF Field
  <1>10. QED BY ONLY <1>2, <1>3, <1>4, <1>5, <1>6, <1>7, <1>8, <1>9

(***************************************************************************)
(* The steps.                                                              *)
(***************************************************************************)
Other(x, r) == r # x /\ r # "sd"
Apart(x, u) == x \notin u /\ "sd" \notin u

\* A step on a name that is not followed, or one that makes nothing of it.
LEMMA SteadyStep ==
    ASSUME NEW p, NEW x, NEW do, NEW n,
           do \notin Branches \cup Ends \cup Failing \cup {"throws", "new_handle", "return"},
           \/ n \notin Tracked(p, x)
           \/ \A w : Then(do, w) = w /\ Ready(p, do, n, w)
    PROVE  Steady(p, x, Step(do, n, {}, 1))
  <1>1. ASSUME NEW V \in SUBSET States(p, x)
        PROVE  MovesIn(p, Step(do, n, {}, 1), V, V, {}, V)
    <2>1. PICK st : st = [do |-> do, res |-> n, undo |-> {}, next |-> 1, fail |-> 0]
      OBVIOUS
    <2>2. ASSUME NEW w \in V PROVE Good(p, st, w) /\ Turned(st, w) = w
      <3>1. w \in [Tracked(p, x) -> Values]
        BY <1>1, <2>2 DEF States
      <3>2. Good(p, st, w)
        BY <2>1, <3>1 DEF Good
      <3>3. \A m \in DOMAIN w : (IF m = n THEN Then(do, w[m]) ELSE w[m]) = w[m]
        BY <3>1
      <3>4. Turned(st, w) = [m \in DOMAIN w |-> IF m = n THEN Then(do, w[m]) ELSE w[m]]
        BY <2>1 DEF Turned
      <3>5. QED BY <3>1, <3>2, <3>3, <3>4
    <2>3. QED BY <2>1, <2>2, MovesStep
  <1>2. QED BY <1>1 DEF Steady

\* Steps that change no value, and do not fail.
LEMMA SteadySteps ==
    \A p, x, r :
      /\ Steady(p, x, Grow(r)) /\ Steady(p, x, Put(r)) /\ Steady(p, x, Count)
      /\ Other(x, r) =>
           /\ Steady(p, x, Take(r)) /\ Steady(p, x, Use(r)) /\ Steady(p, x, Free(r))
           /\ Steady(p, x, FreeIf(r)) /\ Steady(p, x, Keep(r)) /\ Steady(p, x, UseKept(r))
           /\ Steady(p, x, Dispose(r)) /\ Steady(p, x, Clear(r)) /\ Steady(p, x, Overwrite(r))
           /\ Steady(p, x, Fill(r)) /\ Steady(p, x, UseFilled(r)) /\ Steady(p, x, NewList(r))
           /\ Steady(p, x, NewCounted(r))
  <1>1. TAKE p, x, r
  <1>2. \A do, n : /\ do \notin Branches \cup Ends \cup Failing \cup {"throws", "new_handle", "return"}
                  /\ \/ n \notin Tracked(p, x)
                     \/ \A w : Then(do, w) = w /\ Ready(p, do, n, w)
                  => Steady(p, x, Step(do, n, {}, 1))
    BY SteadyStep
  <1>3. \A do \in {"grow", "put", "count"} : \A w, n : Then(do, w) = w /\ Ready(p, do, n, w)
    BY DEF Then, Ready, Taking
  <1>4. Steady(p, x, Grow(r)) /\ Steady(p, x, Put(r))
    BY <1>2, <1>3 DEF Grow, Put, Branches, Ends, Failing
  <1>5. Steady(p, x, Count)
    BY <1>2, <1>3, StepsAreFor DEF Branches, Ends, Failing
  <1>6. ASSUME Other(x, r) PROVE r \notin Tracked(p, x)
    BY <1>6, OthersAre DEF Other
  <1>7. Other(x, r) =>
          /\ Steady(p, x, Take(r)) /\ Steady(p, x, Use(r)) /\ Steady(p, x, Free(r))
          /\ Steady(p, x, FreeIf(r)) /\ Steady(p, x, Keep(r)) /\ Steady(p, x, UseKept(r))
    BY <1>2, <1>6 DEF Branches, Ends, Failing, Take, Use, Free, FreeIf, Keep, UseKept
  <1>8. Other(x, r) =>
          /\ Steady(p, x, Dispose(r)) /\ Steady(p, x, Clear(r)) /\ Steady(p, x, Overwrite(r))
          /\ Steady(p, x, Fill(r)) /\ Steady(p, x, UseFilled(r)) /\ Steady(p, x, NewList(r))
          /\ Steady(p, x, NewCounted(r))
    BY <1>2, <1>6
       DEF Branches, Ends, Failing, Dispose, Clear, Overwrite, Fill, UseFilled, NewList, NewCounted
  <1>9. QED BY <1>4, <1>5, <1>7, <1>8

\* Steps that fail as they found what is followed.
LEMMA PassingSteps ==
    \A p, x, r, u : Apart(x, u) =>
      /\ Passes(p, x, AskOr(u)) /\ Passes(p, x, FailAfter(u))
      /\ Other(x, r) => Passes(p, x, OpenOr(r, u))
      /\ \A k, l : Leads(p, x, FailAfter(u), k, l, k)
  <1>1. TAKE p, x, r, u
  <1>2. HAVE Apart(x, u)
  <1>3. ASSUME NEW do \in Failing, NEW n, n \notin Tracked(p, x) \/ do # "open",
               NEW V \in SUBSET States(p, x)
        PROVE  /\ MovesIn(p, Step(do, n, u, 1), V, V, {"error"} \X V, V)
               /\ do = "refuse" => \A b : MovesIn(p, Step(do, n, u, 1), V, b, {"error"} \X V, V)
    <2>1. PICK st : st = [do |-> do, res |-> n, undo |-> u, next |-> 1, fail |-> 0]
      OBVIOUS
    <2>2. ASSUME NEW w \in V
          PROVE  Good(p, st, w) /\ Turned(st, w) = w /\ Undone(u, w) = w
      <3>1. w \in [Tracked(p, x) -> Values]
        BY <1>3, <2>2 DEF States
      <3>2. u \cap Tracked(p, x) = {}
        BY <1>2, OthersAre DEF Apart
      <3>3. Undone(u, w) = w /\ CanUndo(u, w)
        BY <3>1, <3>2 DEF Undone, CanUndo
      <3>4. do # "open" => \A v : Ready(p, do, n, v) /\ Then(do, v) = v
        BY <1>3 DEF Failing, Ready, Then, Taking
      <3>5. Good(p, st, w)
        BY <1>3, <2>1, <3>1, <3>3, <3>4 DEF Good, Failing
      <3>6. \A m \in DOMAIN w : (IF m = n THEN Then(do, w[m]) ELSE w[m]) = w[m]
        BY <1>3, <3>1, <3>4
      <3>7. Turned(st, w) = [m \in DOMAIN w |-> IF m = n THEN Then(do, w[m]) ELSE w[m]]
        BY <1>3, <2>1 DEF Turned, Failing
      <3>8. QED BY <3>1, <3>3, <3>5, <3>6, <3>7
    <2>3. do \notin Branches /\ do # "throws" /\ (do = "refuse" => do \in Ends)
      BY <1>3 DEF Failing, Branches, Ends
    <2>4. \A w \in V : <<"error", Undone(u, w)>> \in {"error"} \X V
      BY <2>2
    <2>5. V \subseteq V
      OBVIOUS
    <2>6. MovesIn(p, Step(do, n, u, 1), V, V, {"error"} \X V, V)
      BY <2>1, <2>2, <2>3, <2>4, <2>5, MovesStep
    <2>7. ASSUME do = "refuse", NEW b
          PROVE  MovesIn(p, Step(do, n, u, 1), V, b, {"error"} \X V, V)
      BY <2>1, <2>2, <2>3, <2>4, <2>5, <2>7, MovesStep
    <2>8. QED BY <2>6, <2>7
  <1>4. ASSUME NEW V \in SUBSET States(p, x)
        PROVE  /\ MovesIn(p, AskOr(u), V, V, {"error"} \X V, V)
               /\ \A b : MovesIn(p, FailAfter(u), V, b, {"error"} \X V, V)
               /\ Other(x, r) => MovesIn(p, OpenOr(r, u), V, V, {"error"} \X V, V)
    <2>1. MovesIn(p, AskOr(u), V, V, {"error"} \X V, V)
      BY <1>3, <1>4, StepsAreFor DEF Failing
    <2>2. \A b : MovesIn(p, FailAfter(u), V, b, {"error"} \X V, V)
      BY <1>3, <1>4, StepsAreFor DEF Failing
    <2>3. ASSUME Other(x, r) PROVE MovesIn(p, OpenOr(r, u), V, V, {"error"} \X V, V)
      <3>1. r \notin Tracked(p, x)
        BY <2>3, OthersAre DEF Other
      <3>2. QED BY <1>3, <1>4, <3>1 DEF Failing, OpenOr
    <2>4. QED BY <2>1, <2>2, <2>3
  <1>5. ASSUME NEW k, NEW l PROVE Leads(p, x, FailAfter(u), k, l, k)
    <2>1. PICK V : V = Mode(p, x, k)
      OBVIOUS
    <2>2. V \in SUBSET States(p, x)
      BY <2>1, ModesAre
    <2>3. MovesIn(p, FailAfter(u), V, Mode(p, x, l), {"error"} \X V, States(p, x))
      BY <1>4, <2>2, MovesWeaker
    <2>4. QED BY <2>1, <2>3 DEF Leads
  <1>6. QED BY <1>4, <1>5 DEF Passes

\* A step on the name that is followed, with nothing beside it.
LEMMA OwnStep ==
    ASSUME NEW p, NEW x, Alone(p, x), NEW do, NEW u, NEW k, NEW l, NEW e, Apart(x, u),
           do \notin Branches \cup Ends \cup {"throws", "new_handle", "return"},
           do \in Failing => k = e,
           \A v \in At(p, x, k) : v \in Values =>
             Ready(p, do, x, v) /\ Then(do, v) \in Values /\ Then(do, v) \in At(p, x, l)
    PROVE  Leads(p, x, Step(do, x, u, 1), k, l, e)
  <1>1. PICK st : st = [do |-> do, res |-> x, undo |-> u, next |-> 1, fail |-> 0]
    OBVIOUS
  <1>2. ASSUME NEW w \in Mode(p, x, k)
        PROVE  /\ Good(p, st, w) /\ Turned(st, w) \in Mode(p, x, l)
               /\ do \in Failing => <<"error", Undone(u, w)>> \in {"error"} \X Mode(p, x, e)
    <2>1. w \in [{x} -> Values] /\ w[x] \in At(p, x, k)
      BY <1>2 DEF Alone, Mode, States
    <2>2. u \cap {x} = {}
      BY DEF Apart
    <2>3. Undone(u, w) = w /\ CanUndo(u, w)
      BY <2>1, <2>2 DEF Undone, CanUndo
    <2>4. Good(p, st, w)
      BY <1>1, <2>1, <2>3 DEF Good
    <2>5. PICK v : v = Turned(st, w)
      OBVIOUS
    <2>6. v = [n \in {x} |-> Then(do, w[n])]
      BY <1>1, <2>1, <2>5 DEF Turned
    <2>7. v \in [{x} -> Values] /\ v[x] \in At(p, x, l)
      BY <2>1, <2>6
    <2>8. v \in Mode(p, x, l)
      BY <2>7 DEF Alone, Mode, States
    <2>9. QED BY <1>2, <2>3, <2>4, <2>5, <2>8
  <1>3. Mode(p, x, k) \subseteq States(p, x)
    BY ModesAre
  <1>4. MovesIn(p, Step(do, x, u, 1), Mode(p, x, k), Mode(p, x, l), {"error"} \X Mode(p, x, e),
                States(p, x))
    BY <1>1, <1>2, <1>3, MovesStep
  <1>5. QED BY <1>4 DEF Leads

\* A failure that frees what is followed.
LEMMA FreeingStep ==
    ASSUME NEW p, NEW x, Local(p, x), NEW do \in Failing, NEW r, r # x, NEW u, x \in u, NEW l,
           do = "refuse" \/ l = "work"
    PROVE  Leads(p, x, Step(do, r, u, 1), "work", l, "rest")
  <1>1. PICK st : st = [do |-> do, res |-> r, undo |-> u, next |-> 1, fail |-> 0]
    OBVIOUS
  <1>2. ASSUME NEW w \in Mode(p, x, "work")
        PROVE  /\ Good(p, st, w) /\ Turned(st, w) = w
               /\ <<"error", Undone(u, w)>> \in {"error"} \X Mode(p, x, "rest")
    <2>1. w \in [{x} -> Values] /\ w[x] = "held" /\ Tracked(p, x) = {x}
      BY <1>2, AtNames DEF Local, Alone, Mode, States
    <2>2. CanUndo(u, w)
      BY <2>1 DEF CanUndo
    <2>3. PICK v : v = Undone(u, w)
      OBVIOUS
    <2>4. v = [n \in {x} |-> "out"]
      BY <2>1, <2>3 DEF Undone
    <2>5. v \in [{x} -> Values] /\ v[x] = "out"
      BY <2>4 DEF Values
    <2>6. v \in States(p, x) /\ v[x] \in At(p, x, "rest")
      BY <2>1, <2>5, AtNames DEF States
    <2>7. v \in Mode(p, x, "rest")
      BY <2>6, AtNames DEF Local
    <2>8. Good(p, st, w)
      BY <1>1, <2>1, <2>2 DEF Good, Failing
    <2>9. Turned(st, w) = [n \in DOMAIN w |-> IF n = r THEN Then(do, w[n]) ELSE w[n]]
      BY <1>1 DEF Turned, Failing
    <2>10. QED BY <2>1, <2>3, <2>7, <2>8, <2>9
  <1>3. Mode(p, x, "work") \subseteq States(p, x)
    BY ModesAre
  <1>4. do \notin Branches /\ do # "throws" /\ (do \notin Ends => do # "refuse")
    BY DEF Failing, Branches, Ends
  <1>5. MovesIn(p, Step(do, r, u, 1), Mode(p, x, "work"), Mode(p, x, l),
                {"error"} \X Mode(p, x, "rest"), States(p, x))
    BY <1>1, <1>2, <1>3, <1>4, MovesStep DEF Ends
  <1>6. QED BY <1>5 DEF Leads

\* The steps on a resource of the call.
LEMMA LocalSteps ==
    \A p, x : Local(p, x) =>
      /\ \A e : /\ Leads(p, x, Take(x), "rest", "work", e)
                /\ Leads(p, x, NewList(x), "rest", "work", e)
                /\ Leads(p, x, NewCounted(x), "rest", "work", e)
                /\ Leads(p, x, Use(x), "work", "work", e)
                /\ Leads(p, x, Free(x), "work", "rest", e)
                /\ Leads(p, x, FreeIf(x), "any", "rest", e)
      /\ \A u : Apart(x, u) => Leads(p, x, OpenOr(x, u), "rest", "work", "rest")
      /\ \A u : x \in u =>
           /\ \A r : r # x => Leads(p, x, OpenOr(r, u), "work", "work", "rest")
           /\ x # Nothing => /\ Leads(p, x, AskOr(u), "work", "work", "rest")
                             /\ \A l : Leads(p, x, FailAfter(u), "work", l, "rest")
  <1>1. TAKE p, x
  <1>2. HAVE Local(p, x)
  <1>3. /\ Alone(p, x) /\ At(p, x, "rest") = {"out"} /\ At(p, x, "work") = {"held"}
        /\ At(p, x, "any") = {"out", "held"} /\ "out" \in Values /\ "held" \in Values
    BY <1>2, AtNames DEF Local, Values
  <1>4. PICK u0 : u0 = {}
    OBVIOUS
  <1>5. Apart(x, u0)
    BY <1>4 DEF Apart
  <1>6. ASSUME NEW e
        PROVE  /\ \A do \in {"take", "new_list", "new_counted"} :
                    Leads(p, x, Step(do, x, u0, 1), "rest", "work", e)
               /\ Leads(p, x, Step("use", x, u0, 1), "work", "work", e)
               /\ Leads(p, x, Step("free", x, u0, 1), "work", "rest", e)
               /\ Leads(p, x, Step("free_if", x, u0, 1), "any", "rest", e)
    <2>1. ASSUME NEW do \in {"take", "new_list", "new_counted"}
          PROVE  Leads(p, x, Step(do, x, u0, 1), "rest", "work", e)
      <3>1. do \notin Branches \cup Ends \cup {"throws", "new_handle", "return"} \cup Failing
        BY <2>1 DEF Branches, Ends, Failing
      <3>2. Ready(p, do, x, "out") /\ Then(do, "out") = "held"
        BY <2>1 DEF Ready, Then, Taking
      <3>3. QED BY <1>3, <1>5, <3>1, <3>2, OwnStep
    <2>2. \A do \in {"use", "free", "free_if"} :
            do \notin Branches \cup Ends \cup {"throws", "new_handle", "return"} \cup Failing
      BY DEF Branches, Ends, Failing
    <2>3. /\ Ready(p, "use", x, "held") /\ Then("use", "held") = "held"
          /\ Ready(p, "free", x, "held") /\ Then("free", "held") = "out"
          /\ \A v \in {"out", "held"} : Ready(p, "free_if", x, v) /\ Then("free_if", v) = "out"
      BY DEF Ready, Then, Taking
    <2>4. Leads(p, x, Step("use", x, u0, 1), "work", "work", e)
      BY <1>3, <1>5, <2>2, <2>3, OwnStep
    <2>5. Leads(p, x, Step("free", x, u0, 1), "work", "rest", e)
      BY <1>3, <1>5, <2>2, <2>3, OwnStep
    <2>6. Leads(p, x, Step("free_if", x, u0, 1), "any", "rest", e)
      BY <1>3, <1>5, <2>2, <2>3, OwnStep
    <2>7. QED BY <2>1, <2>4, <2>5, <2>6
  <1>7. ASSUME NEW u, Apart(x, u) PROVE Leads(p, x, OpenOr(x, u), "rest", "work", "rest")
    <2>1. "open" \notin Branches \cup Ends \cup {"throws", "new_handle", "return"}
      BY DEF Branches, Ends
    <2>2. Ready(p, "open", x, "out") /\ Then("open", "out") = "held"
      BY DEF Ready, Then, Taking
    <2>3. QED BY <1>3, <1>7, <2>1, <2>2, OwnStep DEF OpenOr
  <1>8. ASSUME NEW u, x \in u
        PROVE  /\ \A r : r # x => Leads(p, x, OpenOr(r, u), "work", "work", "rest")
               /\ x # Nothing => /\ Leads(p, x, AskOr(u), "work", "work", "rest")
                                 /\ \A l : Leads(p, x, FailAfter(u), "work", l, "rest")
    <2>1. ASSUME NEW r, r # x PROVE Leads(p, x, OpenOr(r, u), "work", "work", "rest")
      BY <1>2, <1>8, <2>1, FreeingStep DEF OpenOr, Failing
    <2>2. ASSUME x # Nothing
          PROVE  /\ Leads(p, x, AskOr(u), "work", "work", "rest")
                 /\ \A l : Leads(p, x, FailAfter(u), "work", l, "rest")
      BY <1>2, <1>8, <2>2, StepsAreFor, FreeingStep DEF Failing
    <2>3. QED BY <2>1, <2>2
  <1>9. QED BY <1>4, <1>6, <1>7, <1>8 DEF Take, NewList, NewCounted, Use, Free, FreeIf

\* The steps on what a call uses or frees without having it.
LEMMA StaleSteps ==
    \A p, x, e : Local(p, x) /\ x \in StaleBuffers[p] =>
      Leads(p, x, Use(x), "rest", "rest", e) /\ Leads(p, x, Free(x), "rest", "rest", e)
  <1>1. TAKE p, x, e
  <1>2. HAVE Local(p, x) /\ x \in StaleBuffers[p]
  <1>3. /\ Alone(p, x) /\ At(p, x, "rest") = {"out"} /\ "out" \in Values
    BY <1>2, AtNames DEF Local, Values
  <1>4. PICK u : u = {}
    OBVIOUS
  <1>5. Apart(x, u)
    BY <1>4 DEF Apart
  <1>6. ASSUME NEW do \in {"use", "free"} PROVE Leads(p, x, Step(do, x, u, 1), "rest", "rest", e)
    <2>1. do \notin Branches \cup Ends \cup {"throws", "new_handle", "return"} \cup Failing
      BY <1>6 DEF Branches, Ends, Failing
    <2>2. Ready(p, do, x, "out") /\ Then(do, "out") = "out"
      BY <1>2, <1>6 DEF Ready, Then, Taking
    <2>3. QED BY <1>3, <1>5, <2>1, <2>2, OwnStep
  <1>7. QED BY <1>4, <1>6 DEF Use, Free

\* The steps on a field of the handle.
LEMMA FieldSteps ==
    \A p, x : Field(p, x) => \A e :
      /\ Leads(p, x, Keep(x), "null", "work", e) /\ Leads(p, x, Keep(x), "gone", "work", e)
      /\ Leads(p, x, Clear(x), "gone", "null", e) /\ Leads(p, x, Dispose(x), "work", "gone", e)
      /\ Leads(p, x, UseKept(x), "work", "work", e)
      /\ x \in StaleBuffers[p] => /\ Leads(p, x, Overwrite(x), "work", "work", e)
                                  /\ Leads(p, x, Fill(x), "work", "work", e)
                                  /\ Leads(p, x, UseFilled(x), "work", "work", e)
  <1>1. TAKE p, x
  <1>2. HAVE Field(p, x)
  <1>3. TAKE e
  <1>4. /\ Alone(p, x) /\ At(p, x, "null") = {"null"} /\ At(p, x, "gone") = Gone
        /\ "live" \in At(p, x, "work")
        /\ \A v \in At(p, x, "work") : v = "live" \/ (x \in StaleBuffers[p] /\ v \in FieldValues)
        /\ x \in StaleBuffers[p] => At(p, x, "work") = FieldValues
    BY <1>2 DEF Field, At, FieldValues
  <1>5. PICK u : u = {}
    OBVIOUS
  <1>6. Apart(x, u)
    BY <1>5 DEF Apart
  <1>7. \A do \in {"keep", "clear", "dispose", "use_kept", "overwrite", "fill", "use_filled"} :
          do \notin Branches \cup Ends \cup {"throws", "new_handle", "return"} \cup Failing
    BY DEF Branches, Ends, Failing
  <1>8. Gone \subseteq Values /\ FieldValues \subseteq Values /\ "null" \in Gone
          /\ "dangling" \in Gone /\ "live" \in FieldValues /\ "filled" \in FieldValues
    BY DEF Gone, Values, FieldValues, Living
  <1>9. \A v : v \in Gone =>
          /\ Ready(p, "keep", x, v) /\ Then("keep", v) = "live"
          /\ Ready(p, "clear", x, v) /\ Then("clear", v) = "null"
    BY DEF Ready, Then, Taking
  <1>10. \A v : v = "live" \/ (x \in StaleBuffers[p] /\ v \in FieldValues) =>
           /\ Ready(p, "dispose", x, v) /\ Then("dispose", v) = "dangling"
           /\ Ready(p, "use_kept", x, v) /\ Then("use_kept", v) = v
    BY DEF Ready, Then, Taking, Living
  <1>11. \A v : x \in StaleBuffers[p] /\ v \in FieldValues =>
           /\ Ready(p, "overwrite", x, v) /\ Then("overwrite", v) = "live"
           /\ Ready(p, "fill", x, v) /\ Then("fill", v) = "filled"
           /\ Ready(p, "use_filled", x, v) /\ Then("use_filled", v) = v
    BY DEF Ready, Then, Taking
  <1>12. \A v \in At(p, x, "work") : v \in Values
    BY <1>4, <1>8
  <1>13. Leads(p, x, Keep(x), "null", "work", e) /\ Leads(p, x, Keep(x), "gone", "work", e)
    BY <1>4, <1>5, <1>6, <1>7, <1>8, <1>9, OwnStep DEF Keep
  <1>14. Leads(p, x, Clear(x), "gone", "null", e)
    BY <1>4, <1>5, <1>6, <1>7, <1>8, <1>9, OwnStep DEF Clear
  <1>15. Leads(p, x, Dispose(x), "work", "gone", e)
    BY <1>4, <1>5, <1>6, <1>7, <1>8, <1>10, OwnStep DEF Dispose
  <1>16. Leads(p, x, UseKept(x), "work", "work", e)
    BY <1>4, <1>5, <1>6, <1>7, <1>10, <1>12, OwnStep DEF UseKept
  <1>17. x \in StaleBuffers[p] => /\ Leads(p, x, Overwrite(x), "work", "work", e)
                                  /\ Leads(p, x, Fill(x), "work", "work", e)
                                  /\ Leads(p, x, UseFilled(x), "work", "work", e)
    BY <1>4, <1>5, <1>6, <1>7, <1>8, <1>11, <1>12, OwnStep DEF Overwrite, Fill, UseFilled
  <1>18. QED BY <1>13, <1>14, <1>15, <1>16, <1>17

\* A field that is made on first use, and one that is freed if it is there.
LEMMA OnceSteps ==
    /\ \A p, x, f : Other(x, f) => Passes(p, x, KeepOnce(f)) /\ Passes(p, x, FreeKept(f))
    /\ \A p, x, f, k, e : Other(x, f) =>
         Leads(p, x, KeepOnce(f), k, k, e) /\ Leads(p, x, FreeKept(f), k, k, e)
    /\ \A p, x : Passing(p, x) => \A e :
         /\ Leads(p, x, KeepOnce(x), "rest", "work", e)
         /\ Leads(p, x, FreeKept(x), "rest", "gone", e)
  <1>1. \A p, x, f : Other(x, f) =>
          Passes(p, x, Keep(f)) /\ Passes(p, x, Dispose(f)) /\ Passes(p, x, <<>>)
    BY SteadySteps, LeadsOfPasses, PassesForms
  <1>2. \A p, x, f, k, e : Other(x, f) =>
          Leads(p, x, Keep(f), k, k, e) /\ Leads(p, x, Dispose(f), k, k, e)
            /\ Leads(p, x, <<>>, k, k, e)
    BY SteadySteps, LeadsOfPasses, LeadsOrElse
  <1>3. \A p, x, f : Other(x, f) => Passes(p, x, KeepOnce(f)) /\ Passes(p, x, FreeKept(f))
    BY <1>1, PassesForms DEF KeepOnce, FreeKept, Other
  <1>4. \A p, x, f, k, e : Other(x, f) =>
          Leads(p, x, KeepOnce(f), k, k, e) /\ Leads(p, x, FreeKept(f), k, k, e)
    BY <1>2, LeadsChoices DEF KeepOnce, FreeKept, Other
  <1>5. ASSUME NEW p, NEW x, Passing(p, x), NEW e
        PROVE  /\ Leads(p, x, KeepOnce(x), "rest", "work", e)
               /\ Leads(p, x, FreeKept(x), "rest", "gone", e)
    <2>1. /\ Leads(p, x, Keep(x), "null", "work", e) /\ Leads(p, x, Dispose(x), "work", "gone", e)
          /\ Leads(p, x, <<>>, "work", "work", e) /\ Leads(p, x, <<>>, "null", "gone", e)
      BY <1>5, FieldSteps, LeadsOrElse, LeadsLess DEF Passing
    <2>2. QED BY <1>5, <2>1, LeadsIfKept DEF KeepOnce, FreeKept
  <1>6. QED BY <1>3, <1>4, <1>5

\* The steps on other names, as modes.
LEMMA OtherSteps ==
    \A p, x, r, k, e :
      /\ Leads(p, x, Grow(r), k, k, e) /\ Leads(p, x, Put(r), k, k, e) /\ Leads(p, x, Count, k, k, e)
      /\ Other(x, r) =>
           /\ Leads(p, x, Take(r), k, k, e) /\ Leads(p, x, Use(r), k, k, e)
           /\ Leads(p, x, Free(r), k, k, e) /\ Leads(p, x, FreeIf(r), k, k, e)
           /\ Leads(p, x, Keep(r), k, k, e) /\ Leads(p, x, UseKept(r), k, k, e)
           /\ Leads(p, x, Dispose(r), k, k, e) /\ Leads(p, x, Clear(r), k, k, e)
           /\ Leads(p, x, Overwrite(r), k, k, e) /\ Leads(p, x, Fill(r), k, k, e)
           /\ Leads(p, x, UseFilled(r), k, k, e) /\ Leads(p, x, NewList(r), k, k, e)
           /\ Leads(p, x, NewCounted(r), k, k, e)
  BY SteadySteps, LeadsOfPasses

\* The steps on other names leave x alone.
LEMMA OtherPasses ==
    \A p, x, r :
      /\ Passes(p, x, Grow(r)) /\ Passes(p, x, Put(r)) /\ Passes(p, x, Count)
      /\ Other(x, r) =>
           /\ Passes(p, x, Take(r)) /\ Passes(p, x, Use(r)) /\ Passes(p, x, Free(r))
           /\ Passes(p, x, FreeIf(r)) /\ Passes(p, x, Keep(r)) /\ Passes(p, x, UseKept(r))
           /\ Passes(p, x, Dispose(r)) /\ Passes(p, x, Clear(r)) /\ Passes(p, x, Overwrite(r))
           /\ Passes(p, x, Fill(r)) /\ Passes(p, x, UseFilled(r)) /\ Passes(p, x, NewList(r))
           /\ Passes(p, x, NewCounted(r))
  BY SteadySteps, LeadsOfPasses

(***************************************************************************)
(* The names of the six platforms.                                         *)
(***************************************************************************)
Resources ==
  {"agent", "args", "argvp", "attr", "buf", "buffer", "chips", "client", "cpu", "cpuload", "data",
   "dirp", "disk", "dl", "entries", "env", "fd", "fd_dirp", "fp", "fs", "fslist", "group", "info",
   "jlongs", "key", "list", "mapping", "mgr", "odm", "odm_obj", "old_object", "parent", "phandle",
   "pipe", "proc", "props", "routes", "service", "sessions", "sid", "sock", "stab", "svc", "table",
   "tcp", "token", "udp", "unmade", "user", "users"}
CommonPassing == CommonFields \ {"jsigar", "handle"}

\* No resource of a call has the name of a field, and each platform has its own.
LEMMA NamesAre ==
    /\ \A p \in Platforms :
         /\ \A r \in Resources : Local(p, r)
         /\ \A f \in CommonPassing : Passing(p, f)
         /\ Field(p, "jsigar") /\ Field(p, "handle")
         /\ {"jsigar", "handle"} \subseteq Lasting(p)
    /\ \A f \in AixFields : Passing("aix", f)
    /\ \A f \in HpuxFields : Passing("hpux", f)
    /\ \A f \in SolarisFields \ {"kc", "smb", "db"} : Passing("solaris", f)
    /\ Field("solaris", "kc") /\ "kc" \in Lasting("solaris")
    /\ \A f \in DarwinFields : Passing("darwin", f)
    /\ \A f \in Win32Fields : Passing("win32", f)
    /\ \A p \in Platforms \ {"win32"} : "ifconf_buf" \in StaleBuffers[p]
    /\ \A p \in Platforms : "pids" \notin StaleBuffers[p]
  <1>1. \A p : Alone(p, "jsigar") /\ Alone(p, "handle")
    BY DEF Alone, Tracked, Beside
  <1>2. \A p : \A r \in Resources \cup CommonFields : Alone(p, r)
    BY DEF Alone, Tracked, Beside, Resources, CommonFields
  <1>3. \A p : p # "solaris" => \A r : Alone(p, r)
    BY DEF Alone, Tracked
  <1>4. \A f \in SolarisFields \ {"smb", "db"} : Alone("solaris", f)
    BY DEF Alone, Tracked, Beside, SolarisFields
  <1>5. \A p \in Platforms : CommonFields \subseteq Kept[p]
    BY DEF Platforms, Kept
  <1>6. ASSUME NEW p \in Platforms, NEW r \in Resources PROVE r \notin Kept[p]
    <2>1. r \notin CommonFields
      BY DEF Resources, CommonFields
    <2>2. /\ r \notin LinuxFields /\ r \notin AixFields /\ r \notin HpuxFields
          /\ r \notin SolarisFields
      BY DEF Resources, LinuxFields, AixFields, HpuxFields, SolarisFields
    <2>3. r \notin DarwinFields /\ r \notin Win32Fields
      BY DEF Resources, DarwinFields, Win32Fields, Win32Dlls, Win32Netif
    <2>4. QED BY <2>1, <2>2, <2>3 DEF Platforms, Kept
  <1>7. /\ AixFields \subseteq Kept["aix"] /\ HpuxFields \subseteq Kept["hpux"]
        /\ SolarisFields \subseteq Kept["solaris"] /\ DarwinFields \subseteq Kept["darwin"]
        /\ Win32Fields \subseteq Kept["win32"]
    BY DEF Kept
  <1>8. \A p : \A f \in CommonPassing : f \notin Lasting(p)
    BY DEF CommonPassing, CommonFields, Lasting
  <1>9. /\ \A f \in AixFields : f \notin Lasting("aix")
        /\ \A f \in HpuxFields : f \notin Lasting("hpux")
        /\ \A f \in SolarisFields \ {"kc"} : f \notin Lasting("solaris")
        /\ \A f \in DarwinFields : f \notin Lasting("darwin")
        /\ \A f \in Win32Fields : f \notin Lasting("win32")
    BY DEF AixFields, HpuxFields, SolarisFields, DarwinFields, Win32Fields, Win32Dlls, Win32Netif,
           Lasting
  <1>10. /\ {"jsigar", "handle"} \subseteq CommonFields /\ CommonPassing \subseteq CommonFields
         /\ "kc" \in SolarisFields
    BY DEF CommonFields, CommonPassing, SolarisFields
  <1>11. \A p : {"jsigar", "handle"} \subseteq Lasting(p)
    BY DEF Lasting
  <1>12. "kc" \in Lasting("solaris")
    BY DEF Lasting
  <1>13. \A p \in Platforms \ {"win32"} : "ifconf_buf" \in StaleBuffers[p]
    BY DEF Platforms, StaleBuffers
  <1>14. \A p \in Platforms : \A r \in Resources : Local(p, r)
    BY <1>2, <1>6 DEF Local
  <1>15. \A p \in Platforms : /\ \A f \in CommonPassing : Passing(p, f)
                              /\ Field(p, "jsigar") /\ Field(p, "handle")
    BY <1>1, <1>2, <1>5, <1>8, <1>10 DEF Passing, Field
  <1>16. /\ \A f \in AixFields : Passing("aix", f)
         /\ \A f \in HpuxFields : Passing("hpux", f)
         /\ \A f \in DarwinFields : Passing("darwin", f)
         /\ \A f \in Win32Fields : Passing("win32", f)
    BY <1>3, <1>7, <1>9 DEF Passing, Field
  <1>17. /\ \A f \in SolarisFields \ {"kc", "smb", "db"} : Passing("solaris", f)
         /\ Field("solaris", "kc")
    BY <1>4, <1>7, <1>9, <1>10 DEF Passing, Field
  <1>18. \A p \in Platforms : "pids" \notin StaleBuffers[p]
    <2>1. /\ StaleBuffers["linux"] = {"ifconf_buf"} /\ StaleBuffers["aix"] = {"ifconf_buf"}
          /\ StaleBuffers["hpux"] = {"ifconf_buf"} /\ StaleBuffers["darwin"] = {"ifconf_buf"}
          /\ StaleBuffers["solaris"] = {"ifconf_buf", "smb"}
          /\ StaleBuffers["win32"] = Win32Dlls \cup {"unmade", "old_object"}
      BY DEF StaleBuffers
    <2>2. "pids" \notin Win32Dlls
      BY DEF Win32Dlls
    <2>3. QED BY <2>1, <2>2 DEF Platforms
  <1>19. QED BY <1>11, <1>12, <1>13, <1>14, <1>15, <1>16, <1>17, <1>18

\* A call that leaves everything as it was between calls, and one whose answer
\* is a list.
Keeps(p, x, s) == Leads(p, x, s, "rest", "rest", "rest")
Gives(p, x, s) == Leads(p, x, s, "rest", IF x = "list" THEN "work" ELSE "rest", "rest")

(***************************************************************************)
(* The rows of a list in another one: what InList makes of a program.      *)
(***************************************************************************)
Renames(s, t) == IsSteps(s) /\ IsSteps(t) /\ Len(t) = Len(s) /\ InList("fslist", s) = t

\* Two programs are the same when their steps are.
LEMMA SameSteps ==
    ASSUME NEW s, NEW t, IsSteps(s), IsSteps(t), Len(s) = Len(t),
           \A i \in 1..Len(s) : s[i] = t[i]
    PROVE  s = t
  <1>1. PICK V : s \in Seq(StepsOver(V))
    BY DEF IsSteps
  <1>2. PICK W : t \in Seq(StepsOver(W))
    BY DEF IsSteps
  <1>3. PICK R : R = StepsOver(V) \cup StepsOver(W)
    OBVIOUS
  <1>4. s \in Seq(R) /\ t \in Seq(R)
    BY <1>1, <1>2, <1>3
  <1>5. QED BY <1>4

\* A step is its fields.
LEMMA StepFields ==
    ASSUME NEW V, NEW st \in StepsOver(V)
    PROVE  st = [do |-> st.do, res |-> st.res, undo |-> st.undo, next |-> st.next,
                 fail |-> st.fail]
  BY DEF StepsOver

InFslist(st) == [st EXCEPT !.res = Rename(@, "fslist"), !.undo = {Rename(r, "fslist") : r \in @}]

\* The renamed program has the renamed steps.
LEMMA InListIs ==
    ASSUME NEW s, IsSteps(s)
    PROVE  /\ IsSteps(InList("fslist", s)) /\ Len(InList("fslist", s)) = Len(s)
           /\ \A i \in 1..Len(s) : InList("fslist", s)[i] = InFslist(s[i])
  <1>1. PICK V : s \in Seq(StepsOver(V))
    BY DEF IsSteps
  <1>2. Len(s) \in Nat /\ DOMAIN s = 1..Len(s) /\ \A i \in 1..Len(s) : s[i] \in StepsOver(V)
    BY <1>1
  <1>3. PICK t : t = [i \in 1..Len(s) |-> InFslist(s[i])]
    OBVIOUS
  <1>4. t = InList("fslist", s)
    BY <1>2, <1>3 DEF InList, InFslist
  <1>5. PICK W : W = V \cup {Rename(r, "fslist") : r \in V}
                       \cup {{Rename(r, "fslist") : r \in u} : u \in V}
    OBVIOUS
  <1>6. ASSUME NEW st \in StepsOver(V) PROVE InFslist(st) \in StepsOver(W)
    <2>1. /\ st \in [do : V, res : V, undo : V, next : Int, fail : Int]
      BY <1>6 DEF StepsOver
    <2>2. PICK r2, u2 : r2 = Rename(st.res, "fslist")
                          /\ u2 = {Rename(r, "fslist") : r \in st.undo}
      OBVIOUS
    <2>3. InFslist(st) = [st EXCEPT !.res = r2, !.undo = u2]
      BY <2>2 DEF InFslist
    <2>4. r2 \in W /\ u2 \in W /\ st.do \in W
      BY <1>5, <2>1, <2>2
    <2>5. QED BY <2>1, <2>3, <2>4 DEF StepsOver
  <1>7. DOMAIN t = 1..Len(s) /\ t = [i \in 1..Len(s) |-> t[i]]
          /\ \A i \in 1..Len(s) : t[i] \in StepsOver(W)
    BY <1>2, <1>3, <1>6
  <1>8. IsSteps(t) /\ Len(t) = Len(s)
    BY <1>2, <1>7, StepsShown
  <1>9. QED BY <1>3, <1>4, <1>8

\* Programs are renamed part by part,
LEMMA RenamesSeq ==
    \A s, s2, t, t2 : Renames(s, s2) /\ Renames(t, t2) => Renames(s \o t, s2 \o t2)
  <1>1. TAKE s, s2, t, t2
  <1>2. HAVE Renames(s, s2) /\ Renames(t, t2)
  <1>3. /\ IsSteps(s) /\ IsSteps(t) /\ IsSteps(s2) /\ IsSteps(t2)
        /\ Len(s2) = Len(s) /\ Len(t2) = Len(t) /\ Len(s) \in Nat /\ Len(t) \in Nat
    BY <1>2, StepsAre DEF Renames
  <1>4. /\ IsSteps(s \o t) /\ Len(s \o t) = Len(s) + Len(t)
        /\ \A i \in 1..Len(s) : (s \o t)[i] = s[i]
        /\ \A i \in 1..Len(t) : (s \o t)[Len(s) + i] = t[i]
    BY <1>3, IsStepsJoin
  <1>5. /\ IsSteps(s2 \o t2) /\ Len(s2 \o t2) = Len(s) + Len(t)
        /\ \A i \in 1..Len(s) : (s2 \o t2)[i] = s2[i]
        /\ \A i \in 1..Len(t) : (s2 \o t2)[Len(s) + i] = t2[i]
    BY <1>3, IsStepsJoin
  <1>6. /\ \A i \in 1..Len(s) : s2[i] = InFslist(s[i])
        /\ \A i \in 1..Len(t) : t2[i] = InFslist(t[i])
    BY <1>2, <1>3, InListIs DEF Renames
  <1>7. PICK q : q = InList("fslist", s \o t)
    OBVIOUS
  <1>8. /\ IsSteps(q) /\ Len(q) = Len(s) + Len(t)
        /\ \A i \in 1..Len(s) + Len(t) : q[i] = InFslist((s \o t)[i])
    BY <1>4, <1>7, InListIs
  <1>9. ASSUME NEW i \in 1..Len(s) + Len(t) PROVE q[i] = (s2 \o t2)[i]
    <2>1. CASE i <= Len(s)
      BY <1>3, <1>4, <1>5, <1>6, <1>8, <2>1
    <2>2. CASE i > Len(s)
      <3>1. PICK j \in 1..Len(t) : i = Len(s) + j
        <4>1. i - Len(s) \in 1..Len(t) /\ i = Len(s) + (i - Len(s))
          BY <1>3, <2>2
        <4>2. QED BY <4>1
      <3>2. QED BY <1>4, <1>5, <1>6, <1>8, <3>1
    <2>3. QED BY <1>3, <2>1, <2>2
  <1>10. q = s2 \o t2
    BY <1>5, <1>8, <1>9, SameSteps
  <1>11. QED BY <1>4, <1>5, <1>7, <1>10 DEF Renames

\* step by step,
LEMMA RenamesStep ==
    ASSUME NEW do, NEW r, NEW u, NEW n \in Int, NEW r2, r2 = Rename(r, "fslist"), "list" \notin u
    PROVE  Renames(Step(do, r, u, n), Step(do, r2, u, n))
  <1>1. PICK s, t : s = Step(do, r, u, n) /\ t = Step(do, r2, u, n)
    OBVIOUS
  <1>2. /\ IsSteps(s) /\ Len(s) = 1
        /\ s[1] = [do |-> do, res |-> r, undo |-> u, next |-> n, fail |-> 0]
    BY <1>1, StepIs
  <1>3. /\ IsSteps(t) /\ Len(t) = 1
        /\ t[1] = [do |-> do, res |-> r2, undo |-> u, next |-> n, fail |-> 0]
    BY <1>1, StepIs
  <1>4. {Rename(x, "fslist") : x \in u} = u
    BY DEF Rename
  <1>5. InFslist(s[1]) = t[1]
    <2>1. PICK st : st = s[1]
      OBVIOUS
    <2>2. st.res = r /\ st.undo = u
      BY <1>2, <2>1
    <2>3. {Rename(x, "fslist") : x \in st.undo} = u
      BY <1>4, <2>2
    <2>4. InFslist(st) = [st EXCEPT !.res = r2, !.undo = u]
      BY <2>2, <2>3 DEF InFslist
    <2>5. t[1] \in StepsOver({do, r, r2, u}) /\ st \in StepsOver({do, r, r2, u})
      BY <1>2, <1>3, <2>1 DEF StepsOver
    <2>6. PICK st2 : st2 = [st EXCEPT !.res = r2, !.undo = u]
      OBVIOUS
    <2>7. st2 \in StepsOver({do, r, r2, u})
      BY <2>5, <2>6 DEF StepsOver
    <2>8. st2.do = do /\ st2.res = r2 /\ st2.undo = u /\ st2.next = n /\ st2.fail = 0
      BY <1>2, <2>1, <2>5, <2>6 DEF StepsOver
    <2>9. st2 = t[1]
      BY <1>3, <2>5, <2>7, <2>8, StepFields
    <2>10. QED BY <2>1, <2>4, <2>6, <2>9
  <1>6. /\ IsSteps(InList("fslist", s)) /\ Len(InList("fslist", s)) = 1
        /\ InList("fslist", s)[1] = t[1]
    BY <1>2, <1>5, InListIs
  <1>7. InList("fslist", s) = t
    BY <1>3, <1>6, SameSteps
  <1>8. QED BY <1>1, <1>2, <1>3, <1>7 DEF Renames

\* and form by form.
LEMMA RenamesForms ==
    /\ \A r : r # "list" => /\ Renames(Open(r), Open(r)) /\ Renames(Take(r), Take(r))
                            /\ Renames(Use(r), Use(r)) /\ Renames(Free(r), Free(r))
    /\ \A u : "list" \notin u => Renames(AskOr(u), AskOr(u))
    /\ Renames(NewList("list"), NewList("fslist")) /\ Renames(AddTo("list"), AddTo("fslist"))
    /\ \A s, t : Renames(s, t) => Renames(Loop(s), Loop(t)) /\ Renames(Maybe(s), Maybe(t))
  <1>1. Rename("list", "fslist") = "fslist" /\ \A r : r # "list" => Rename(r, "fslist") = r
    BY DEF Rename
  <1>2. \A r : r # "list" => /\ Renames(Open(r), Open(r)) /\ Renames(Take(r), Take(r))
                             /\ Renames(Use(r), Use(r)) /\ Renames(Free(r), Free(r))
    BY <1>1, RenamesStep DEF Open, OpenOr, Take, Use, Free
  <1>3. \A u : "list" \notin u => Renames(AskOr(u), AskOr(u))
    BY <1>1, RenamesStep, StepsAreFor, NothingIs
  <1>4. /\ Renames(NewList("list"), NewList("fslist"))
        /\ Renames(Grow("list"), Grow("fslist")) /\ Renames(Put("list"), Put("fslist"))
    BY <1>1, RenamesStep DEF NewList, Grow, Put
  <1>5. Renames(AddTo("list"), AddTo("fslist"))
    BY <1>4, RenamesSeq DEF AddTo
  <1>6. ASSUME NEW s, NEW t, Renames(s, t)
        PROVE  Renames(Loop(s), Loop(t)) /\ Renames(Maybe(s), Maybe(t))
    <2>1. Len(t) = Len(s) /\ Len(s) \in Nat
      BY <1>6, StepsAre DEF Renames
    <2>2. \A do : \A n \in Int : Renames(Step(do, Nothing, {}, n), Step(do, Nothing, {}, n))
      BY <1>1, RenamesStep, NothingIs
    <2>3. \A n \in Int : Renames(Jump(n), Jump(n))
      BY <2>2, JumpIs
    <2>4. Len(s) + 2 \in Int /\ Len(s) + 1 \in Int /\ -(Len(s) + 1) \in Int
      BY <2>1
    <2>5. Renames(Maybe(s), Maybe(t))
      BY <1>6, <2>1, <2>2, <2>4, RenamesSeq, MaybeIs
    <2>6. Renames(Loop(s), Loop(t))
      BY <1>6, <2>1, <2>2, <2>3, <2>4, RenamesSeq, LoopIs
    <2>7. QED BY <2>5, <2>6
  <1>7. QED BY <1>2, <1>3, <1>4, <1>5, <1>6

\* The lists of file systems, as the callers that look for one of them make them.
LEMMA FsListsAre ==
    /\ InList("fslist", LinuxFsList)
         = Open("fp") \o NewList("fslist") \o Loop(AddTo("fslist")) \o Free("fp")
    /\ InList("fslist", SolarisFsList)
         = Open("fp") \o NewList("fslist") \o Loop(Maybe(AddTo("fslist"))) \o Free("fp")
    /\ InList("fslist", HpuxFsList)
         = Open("fp") \o NewList("fslist") \o Loop(Maybe(AddTo("fslist")))
    /\ InList("fslist", DarwinFsList)
         = Ask \o Take("fs") \o AskOr({"fs"}) \o NewList("fslist")
             \o Loop(Maybe(AddTo("fslist"))) \o Free("fs")
  <1>1. Renames(LinuxFsList, Open("fp") \o NewList("fslist") \o Loop(AddTo("fslist")) \o Free("fp"))
    BY RenamesForms, RenamesSeq DEF LinuxFsList
  <1>2. /\ Renames(SolarisFsList,
             Open("fp") \o NewList("fslist") \o Loop(Maybe(AddTo("fslist"))) \o Free("fp"))
        /\ Renames(HpuxFsList, Open("fp") \o NewList("fslist") \o Loop(Maybe(AddTo("fslist"))))
    BY RenamesForms, RenamesSeq DEF SolarisFsList, HpuxFsList
  <1>3. Renames(Ask \o Take("fs") \o AskOr({"fs"}),
                Ask \o Take("fs") \o AskOr({"fs"}))
    BY RenamesForms, RenamesSeq DEF Ask
  <1>4. Renames(DarwinFsList, Ask \o Take("fs") \o AskOr({"fs"}) \o NewList("fslist")
                                \o Loop(Maybe(AddTo("fslist"))) \o Free("fs"))
    BY <1>3, RenamesForms, RenamesSeq DEF DarwinFsList, DarwinSysctl
  <1>5. QED BY <1>1, <1>2, <1>4 DEF Renames

(***************************************************************************)
(* The calls all platforms share. Every program of the models is built     *)
(* from the steps and forms above, and is followed through them name by    *)
(* name: other names pass.                                                 *)
(***************************************************************************)
LEMMA CommonMoves ==
    ASSUME NEW p \in Platforms, NEW x
    PROVE  /\ Keeps(p, x, File2Str) /\ (x # "fd" => Passes(p, x, File2Str))
           /\ Keeps(p, x, ProcFdCount) /\ Keeps(p, x, ProcfsList)
           /\ x # "dirp" => Passes(p, x, ProcfsList)
           /\ Keeps(p, x, ProcfsArgs) /\ (x \notin {"fd", "buf"} => Passes(p, x, ProcfsArgs))
           /\ Keeps(p, x, DlinfoModules) /\ Keeps(p, x, RpcPing)
           /\ Keeps(p, x, WhoUtmp) /\ (x # "fp" => Passes(p, x, WhoUtmp))
           /\ \A s : Keeps(p, x, s) /\ (x = "list" => Passes(p, x, s)) =>
                Gives(p, x, NewList("list") \o Within({"list"}, s))
           /\ \A s : Gives(p, x, s) => Keeps(p, x, NetInfo(s))
           /\ \A f \in CommonPassing : Keeps(p, x, KeepOnce(f) \o UseKept(f))
           /\ Keeps(p, x, KeepOnce("proc_cpu") \o UseKept("proc_cpu") \o Ask)
           /\ Keeps(p, x, KeepOnce("net_listen") \o Loop(UseKept("net_listen")))
           /\ \A s : Safe(s) /\ Keeps(p, x, s) /\ (x \in {"list", "pids"} => Passes(p, x, s)) =>
                Keeps(p, x, KeepOnce("pids") \o OnKept("pids", s))
  <1> USE LeadsSeq, LeadsChoices, LeadsOrElse, LeadsWithin, LeadsOfPasses, LocalSteps, OtherSteps,
          PassesForms, OtherPasses, PassingSteps
      DEF Open, Ask, Fail, AddTo, Other, Apart, Nothing, Keeps, Gives
  <1>1. /\ Local(p, "fd") /\ Local(p, "fp") /\ Local(p, "dirp") /\ Local(p, "list")
        /\ Local(p, "buf") /\ Local(p, "dl") /\ Local(p, "client") /\ Local(p, "sock")
    BY NamesAre DEF Resources
  <1>2. Keeps(p, x, File2Str) /\ (x # "fd" => Passes(p, x, File2Str))
    BY <1>1 DEF File2Str
  <1>3. Keeps(p, x, ProcFdCount)
    BY <1>1 DEF ProcFdCount
  <1>4. Keeps(p, x, ProcfsList) /\ (x # "dirp" => Passes(p, x, ProcfsList))
    BY <1>1 DEF ProcfsList
  <1>5. Keeps(p, x, ProcfsArgs) /\ (x \notin {"fd", "buf"} => Passes(p, x, ProcfsArgs))
    BY <1>1 DEF ProcfsArgs
  <1>6. Keeps(p, x, DlinfoModules) /\ Keeps(p, x, RpcPing)
    BY <1>1 DEF DlinfoModules, RpcPing
  <1>7. Keeps(p, x, WhoUtmp) /\ (x # "fp" => Passes(p, x, WhoUtmp))
    BY <1>1 DEF WhoUtmp
  <1>8. \A s : Keeps(p, x, s) /\ (x = "list" => Passes(p, x, s)) =>
          Gives(p, x, NewList("list") \o Within({"list"}, s))
    BY <1>1
  <1>9. \A s : Gives(p, x, s) => Keeps(p, x, NetInfo(s))
    BY <1>1 DEF NetInfo, DefaultGateway
  <1>10. /\ \A f \in CommonPassing : Passing(p, f) /\ Field(p, f) /\ f # "sd"
         /\ "proc_cpu" \in CommonPassing /\ "net_listen" \in CommonPassing
         /\ "pids" \in CommonPassing
    BY NamesAre DEF CommonPassing, CommonFields, Passing
  <1>11. \A f \in CommonPassing : Keeps(p, x, KeepOnce(f) \o UseKept(f))
    BY <1>10, OnceSteps, FieldSteps, LeadsLess
  <1>12. Keeps(p, x, KeepOnce("proc_cpu") \o UseKept("proc_cpu") \o Ask)
    BY <1>10, <1>11
  <1>13. Keeps(p, x, KeepOnce("net_listen") \o Loop(UseKept("net_listen")))
    BY <1>10, OnceSteps, FieldSteps, LeadsLess
  <1>14. ASSUME NEW s, Safe(s), Keeps(p, x, s), x \in {"list", "pids"} => Passes(p, x, s)
         PROVE  Keeps(p, x, KeepOnce("pids") \o OnKept("pids", s))
    <2>1. "pids" \notin StaleBuffers[p]
      BY NamesAre
    <2>2. CASE x = "pids"
      <3>1. Leads(p, x, OnKept("pids", s), "work", "work", "work")
        BY ONLY <1>10, <1>14, <2>1, <2>2, LeadsOnKept
      <3>2. QED BY <1>10, <2>2, <3>1, OnceSteps, LeadsLess
    <2>3. CASE x # "pids"
      <3>1. Leads(p, x, OnKept("pids", s), "rest", "rest", "rest")
        BY ONLY <1>1, <1>14, <2>3, LeadsOnKept DEF Keeps
      <3>2. QED BY <2>3, <3>1, OnceSteps
    <2>4. QED BY <2>2, <2>3
  <1>15. QED BY <1>2, <1>3, <1>4, <1>5, <1>6, <1>7, <1>8, <1>9, <1>11, <1>12, <1>13, <1>14

\* Network interfaces, on all but Windows and Mac OS X: a refusal leaves the
\* socket open.
LEMMA InterfaceMoves ==
    ASSUME NEW p \in Platforms \ {"win32"}, NEW x, NEW b \in BOOLEAN
    PROVE  /\ Leads(p, x, InterfaceList(b), "rest", IF x = "list" THEN "work" ELSE "rest",
                    IF x = "sock" THEN "any" ELSE "rest")
           /\ Keeps(p, x, InterfaceConfig(b))
           /\ x = "list" => Passes(p, x, InterfaceConfig(b))
  <1> USE LeadsSeq, LeadsChoices, LeadsOrElse, LeadsOfPasses, LocalSteps, OtherSteps,
          PassesForms, OtherPasses, PassingSteps
      DEF Open, Ask, Fail, AddTo, Other, Apart, Nothing, Keeps, Gives
  <1>1. /\ Local(p, "fp") /\ Local(p, "list") /\ Local(p, "sock")
    BY NamesAre DEF Resources
  <1>2. Passing(p, "ifconf_buf") /\ Field(p, "ifconf_buf") /\ "ifconf_buf" \in StaleBuffers[p]
    BY NamesAre DEF CommonPassing, CommonFields, Passing
  <1>3. PICK t : t = IF b THEN Try(Open("fp") \o Loop(Maybe(AddTo("list"))) \o Free("fp"))
                          ELSE <<>>
    OBVIOUS
  <1>4. ASSUME NEW k, NEW e, x = "fp" => k = "rest" PROVE Leads(p, x, t, k, k, e)
    <2>1. PICK q : q = Open("fp") \o Loop(Maybe(AddTo("list"))) \o Free("fp")
      OBVIOUS
    <2>2. Leads(p, x, q, k, k, k)
      BY <1>1, <1>4, <2>1
    <2>3. Leads(p, x, Try(q), k, k, e) /\ Leads(p, x, <<>>, k, k, e)
      BY <2>2
    <2>4. QED BY ONLY <1>3, <2>1, <2>3
  <1>5. PICK s : s = Open("sock") \o KeepOnce("ifconf_buf")
                       \o Loop(UseKept("ifconf_buf")) \o UseKept("ifconf_buf")
                       \o OrElse(Ask, Dispose("ifconf_buf") \o Fail) \o Free("sock")
    OBVIOUS
  <1>6. Leads(p, "ifconf_buf", s, "rest", "rest", "rest")
    <2>1. Leads(p, "ifconf_buf", Open("sock") \o KeepOnce("ifconf_buf")
                  \o Loop(UseKept("ifconf_buf")) \o UseKept("ifconf_buf"), "rest", "work", "rest")
      BY <1>2, OnceSteps, FieldSteps
    <2>2. Leads(p, "ifconf_buf", Dispose("ifconf_buf") \o Fail, "work", "work", "gone")
      BY <1>2, FieldSteps
    <2>3. Leads(p, "ifconf_buf", Dispose("ifconf_buf") \o Fail, "work", "work", "rest")
      BY ONLY <1>2, <2>2, LeadsLess
    <2>4. Leads(p, "ifconf_buf", OrElse(Ask, Dispose("ifconf_buf") \o Fail), "work", "work", "rest")
      BY <2>3
    <2>5. Leads(p, "ifconf_buf", s, "rest", "work", "rest")
      BY <1>5, <2>1, <2>4
    <2>6. QED BY ONLY <1>2, <2>5, LeadsLess
  <1>7. Leads(p, "sock", s, "rest", "rest", "any")
    <2>1. Leads(p, "sock", Open("sock"), "rest", "work", "any")
      BY <1>1, LeadsLess
    <2>2. Leads(p, "sock", Dispose("ifconf_buf") \o Fail, "work", "work", "any")
      BY <1>1, LeadsLess
    <2>3. Leads(p, "sock", OrElse(Ask, Dispose("ifconf_buf") \o Fail), "work", "work", "any")
      BY <2>2
    <2>4. QED BY <1>1, <1>5, <2>1, <2>3, OnceSteps
  <1>8. x \notin {"ifconf_buf", "sock"} => Leads(p, x, s, "rest", "rest", "rest")
    BY <1>5, OnceSteps
  <1>9. PICK u : u = s \o Count \o NewCounted("list")
                       \o EachCounted(UseKept("ifconf_buf") \o Put("list"))
    OBVIOUS
  <1>10. Leads(p, "ifconf_buf", u, "rest", "rest", "rest")
    BY <1>2, <1>6, <1>9, FieldSteps, LeadsLess
  <1>11. x # "ifconf_buf" => Leads(p, x, u, "rest", IF x = "list" THEN "work" ELSE "rest",
                                   IF x = "sock" THEN "any" ELSE "rest")
    BY <1>1, <1>7, <1>8, <1>9
  <1>12. Leads(p, x, u \o t, "rest", IF x = "list" THEN "work" ELSE "rest",
               IF x = "sock" THEN "any" ELSE "rest")
    BY <1>4, <1>10, <1>11
  <1>13. InterfaceList(b) = u \o t
    BY <1>3, <1>5, <1>9 DEF InterfaceList
  <1>14. Keeps(p, x, InterfaceConfig(b)) /\ (x = "list" => Passes(p, x, InterfaceConfig(b)))
    <2>1. PICK q : q = IF b THEN IfKept("ifconf_buf", UseKept("ifconf_buf"), <<>>) ELSE Use("sock")
      OBVIOUS
    <2>2. \A k, e : x \notin {"sock", "ifconf_buf"} => Passes(p, x, q)
      BY <2>1
    <2>3. \A e : Leads(p, "sock", q, "work", "work", e)
      BY <1>1, <2>1
    <2>4. Leads(p, "ifconf_buf", q, "rest", "rest", "rest")
      BY <1>2, <2>1, FieldSteps, LeadsIfKept, LeadsLess
    <2>5. QED BY <1>1, <2>1, <2>2, <2>3, <2>4 DEF InterfaceConfig
  <1>15. QED BY <1>12, <1>13, <1>14

(***************************************************************************)
(* How an operation may end: what is left of x when it returned well, when *)
(* it failed and when Java threw.                                          *)
(***************************************************************************)
Final(p, op, status, x) ==
  CASE op = "nativeClose" -> IF p = "darwin" /\ x = "libproc" THEN "rest" ELSE "gone"
    [] op = "open" /\ status # "ok" -> "left"
    [] <<p, op, status, x>> \in Leaks \/ (status = "thrown" /\ x = "list") -> "any"
    [] OTHER -> "rest"

\* A call that ends as its operation may, and one that has a list as its answer.
Runs(p, x, op, s) == Leads(p, x, s, "rest", Final(p, op, "ok", x), Final(p, op, "error", x))
Answers(p, x, op, s) ==
  Leads(p, x, s, "rest", IF x = "list" THEN "work" ELSE Final(p, op, "ok", x),
        Final(p, op, "error", x))

\* Before an open nothing is taken, and no field is set.
Start(p, x, op) ==
  IF op = "open" THEN {w \in States(p, x) : \A n \in Tracked(p, x) :
                                              w[n] = IF n \in Kept[p] THEN "null" ELSE "out"}
                 ELSE Mode(p, x, "rest")
Done(p, x, op, s) ==
  MovesIn(p, s, Start(p, x, op), Mode(p, x, Final(p, op, "ok", x)),
          ({"error"} \X Mode(p, x, Final(p, op, "error", x)))
            \cup ({"thrown"} \X Mode(p, x, Final(p, op, "thrown", x))), States(p, x))

\* The parts of a platform do what its methods need of them.
PlatformMoves(p, x, P) ==
  /\ Answers(p, x, "getFileSystemListNative", P.fsList)
  /\ Answers(p, x, "getCpuInfoList", P.cpuInfoList)
  /\ Answers(p, x, "getCpuListNative", P.cpuList)
  /\ Answers(p, x, "getProcList", ProcListGet(P))
  /\ Answers(p, x, "getNetRouteList", P.routeList)
  /\ Answers(p, x, "getNetInterfaceList", P.ifList)
  /\ Gives(p, x, P.who)
  /\ Keeps(p, x, P.diskUsage) /\ Keeps(p, x, P.cpu) /\ Keeps(p, x, P.mem) /\ Keeps(p, x, P.swap)
  /\ Keeps(p, x, P.uptime) /\ Keeps(p, x, P.procEnv) /\ Keeps(p, x, P.procFd)
  /\ Keeps(p, x, P.procExe) /\ Keeps(p, x, P.procInfo) /\ Keeps(p, x, P.procModules)
  /\ Keeps(p, x, P.threadCpu) /\ Keeps(p, x, P.ifConfig) /\ Keeps(p, x, P.ifStat)
  /\ Keeps(p, x, P.tcp) /\ Keeps(p, x, P.nfs) /\ Keeps(p, x, P.rpcPing)
  /\ Keeps(p, x, P.connections) /\ Keeps(p, x, P.procArgs) /\ Keeps(p, x, P.procList)
  /\ x = "list" => /\ Passes(p, x, P.procList) /\ Passes(p, x, P.procArgs)
                   /\ Passes(p, x, P.connections) /\ Passes(p, x, P.ifConfig)
  /\ x = "pids" => Passes(p, x, P.procList)
  /\ Runs(p, x, "getFileSystemUsage", P.fsUsage) /\ Runs(p, x, "getNetInfo", P.netInfo)
  /\ \A op \in DOMAIN P.more : Runs(p, x, op, P.more[op]) \/ Done(p, x, op, P.more[op])
  /\ Done(p, x, "open", JavaOpen(P)) /\ Done(p, x, "nativeClose", JavaClose(P))

\* What ends as it should ends as it may.
LEMMA EndsAre ==
    ASSUME NEW p, NEW x, NEW op, op \notin {"open", "nativeClose"}, NEW s
    PROVE  /\ Keeps(p, x, s) => Runs(p, x, op, s)
           /\ Gives(p, x, s) => Answers(p, x, op, s)
           /\ <<p, op, "error", x>> \in Leaks
                /\ Leads(p, x, s, "rest", IF x = "list" THEN "work" ELSE "rest", "any") =>
                Answers(p, x, op, s)
           /\ <<p, op, "ok", x>> \in Leaks /\ Leads(p, x, s, "rest", "any", "rest") =>
                Runs(p, x, op, s) /\ (x # "list" => Answers(p, x, op, s))
           /\ <<p, op, "ok", x>> \in Leaks /\ <<p, op, "error", x>> \in Leaks
                /\ Leads(p, x, s, "rest", "any", "any") => Runs(p, x, op, s)
  <1>1. \A status : Final(p, op, status, x) \in {"rest", "any"}
    BY DEF Final
  <1>2. \A status : <<p, op, status, x>> \in Leaks => Final(p, op, status, x) = "any"
    BY DEF Final
  <1>3. \A k, l, e : Leads(p, x, s, k, l, e) => Leads(p, x, s, k, "any", e) /\ Leads(p, x, s, k, l, "any")
    BY LeadsLess
  <1>4. Keeps(p, x, s) => Runs(p, x, op, s)
    BY <1>1, <1>3 DEF Keeps, Runs
  <1>5. Gives(p, x, s) => Answers(p, x, op, s)
    BY <1>1, <1>3 DEF Gives, Answers
  <1>6. <<p, op, "error", x>> \in Leaks
          /\ Leads(p, x, s, "rest", IF x = "list" THEN "work" ELSE "rest", "any") =>
          Answers(p, x, op, s)
    BY <1>1, <1>2, <1>3 DEF Answers
  <1>7. <<p, op, "ok", x>> \in Leaks /\ Leads(p, x, s, "rest", "any", "rest") =>
          Runs(p, x, op, s) /\ (x # "list" => Answers(p, x, op, s))
    BY <1>1, <1>2, <1>3 DEF Runs, Answers
  <1>8. <<p, op, "ok", x>> \in Leaks /\ <<p, op, "error", x>> \in Leaks
          /\ Leads(p, x, s, "rest", "any", "any") => Runs(p, x, op, s)
    BY <1>2 DEF Runs
  <1>9. QED BY <1>4, <1>5, <1>6, <1>7, <1>8

(***************************************************************************)
(* Linux.                                                                  *)
(***************************************************************************)
LEMMA LinuxMoves ==
    ASSUME NEW x
    PROVE  /\ Gives("linux", x, LinuxFsList) /\ Gives("linux", x, LinuxCpuInfoList)
           /\ Gives("linux", x, LinuxCpuList) /\ Gives("linux", x, LinuxRouteList)
           /\ Keeps("linux", x, LinuxDiskUsage) /\ Keeps("linux", x, LinuxFsUsage)
           /\ Keeps("linux", x, LinuxCpu) /\ Keeps("linux", x, LinuxMem)
           /\ Keeps("linux", x, LinuxSwap) /\ Keeps("linux", x, LinuxUptime)
           /\ Keeps("linux", x, LinuxProcEnv) /\ Keeps("linux", x, LinuxProcExe)
           /\ Keeps("linux", x, LinuxProcModules) /\ Keeps("linux", x, LinuxIfStat)
           /\ Keeps("linux", x, LinuxTcp) /\ Keeps("linux", x, LinuxNfs)
           /\ Keeps("linux", x, LinuxProcList) /\ Keeps("linux", x, LinuxConnections)
           /\ Keeps("linux", x, LinuxProcPort)
           /\ x \in {"list", "pids"} => /\ Passes("linux", x, LinuxProcList)
                                        /\ Passes("linux", x, LinuxConnections)
  <1> DEFINE p == "linux"
  <1> USE LeadsSeq, LeadsChoices, LeadsOrElse, LeadsWithin, LeadsOfPasses, LocalSteps, OtherSteps,
          PassesForms, OtherPasses, PassingSteps
      DEF Open, Ask, Fail, AddTo, Other, Apart, Nothing, Keeps, Gives
  <1>1. p \in Platforms
    BY DEF Platforms
  <1>2. /\ Local(p, "fd") /\ Local(p, "fp") /\ Local(p, "dirp") /\ Local(p, "list")
        /\ Local(p, "fslist") /\ Local(p, "fd_dirp")
    BY <1>1, NamesAre DEF Resources
  <1>3. Passing(p, "fsdev") /\ Field(p, "fsdev")
    BY <1>1, NamesAre DEF CommonPassing, CommonFields, Passing
  <1>4. /\ Keeps(p, x, File2Str) /\ (x # "fd" => Passes(p, x, File2Str))
    BY <1>1, CommonMoves
  <1> HIDE DEF p
  <1>5. Gives(p, x, LinuxFsList)
    BY <1>2 DEF LinuxFsList
  <1>6. Gives(p, x, LinuxCpuInfoList)
    BY <1>2, <1>4 DEF LinuxCpuInfoList
  <1>7. Gives(p, x, LinuxCpuList)
    BY <1>2 DEF LinuxCpuList
  <1>8. Gives(p, x, LinuxRouteList)
    BY <1>2 DEF LinuxRouteList
  <1>9. Keeps(p, x, LinuxRam)
    BY <1>2 DEF LinuxRam
  <1>10. /\ Keeps(p, x, LinuxCpu) /\ Keeps(p, x, LinuxMem) /\ Keeps(p, x, LinuxSwap)
         /\ Keeps(p, x, LinuxUptime)
    BY <1>4, <1>9 DEF LinuxCpu, LinuxMem, LinuxSwap, LinuxUptime
  <1>11. /\ Keeps(p, x, LinuxProcEnv) /\ Keeps(p, x, LinuxProcExe)
         /\ Keeps(p, x, LinuxProcModules) /\ Keeps(p, x, LinuxIfStat)
         /\ Keeps(p, x, LinuxTcp) /\ Keeps(p, x, LinuxNfs)
    BY <1>2 DEF LinuxProcEnv, LinuxProcExe, LinuxProcModules, LinuxIfStat, LinuxTcp, LinuxNfs
  <1>12. Keeps(p, x, LinuxIodev)
    <2>1. PICK s : s = Open("fp") \o NewList("fslist") \o Loop(AddTo("fslist")) \o Free("fp")
      OBVIOUS
    <2>2. Leads(p, x, s, "rest", IF x = "fslist" THEN "work" ELSE "rest", "rest")
      BY <1>2, <2>1
    <2>3. x # "fp" /\ x # "fslist" => Passes(p, x, s)
      BY <2>1
    <2>4. PICK t : t = Maybe(Maybe(s \o Loop(UseKept("fsdev")) \o Free("fslist") \o Ask))
      OBVIOUS
    <2>5. x # "fsdev" => Leads(p, x, t, "rest", "rest", "rest")
      BY <1>2, <2>2, <2>4
    <2>6. x = "fsdev" => Leads(p, x, t, "work", "work", "work")
      BY <1>3, <2>3, <2>4, FieldSteps
    <2>7. x = "fsdev" => Leads(p, x, KeepOnce("fsdev") \o Ask \o UseKept("fsdev"), "rest", "work", "rest")
      BY <1>3, OnceSteps, FieldSteps, LeadsLess
    <2>8. x = "fsdev" => Leads(p, x, t, "work", "rest", "rest")
      BY ONLY <1>3, <2>6, LeadsLess
    <2>9. x # "fsdev" => Leads(p, x, KeepOnce("fsdev") \o Ask \o UseKept("fsdev"), "rest", "rest", "rest")
      BY OnceSteps
    <2>10. Keeps(p, x, (KeepOnce("fsdev") \o Ask \o UseKept("fsdev")) \o t)
      BY <2>5, <2>7, <2>8, <2>9
    <2>11. LinuxIodev = (KeepOnce("fsdev") \o Ask \o UseKept("fsdev")) \o t
      BY ONLY <2>1, <2>4, FsListsAre DEF LinuxIodev, Iodev
    <2>12. QED BY ONLY <2>10, <2>11
  <1>13. Keeps(p, x, LinuxDiskUsage)
    <2>1. Keeps(p, x, LinuxIostatSys) /\ Keeps(p, x, LinuxIostatDstat)
      BY <1>2, <1>4, <1>12 DEF LinuxIostatSys, LinuxIostatDstat
    <2>2. Keeps(p, x, LinuxIostatProcp)
      BY <1>2, <1>12 DEF LinuxIostatProcp
    <2>3. QED BY <1>10, <2>1, <2>2 DEF LinuxDiskUsage
  <1>14. Keeps(p, x, LinuxFsUsage)
    BY <1>13 DEF LinuxFsUsage
  <1>15. /\ Keeps(p, x, LinuxProcList)
         /\ x \in {"list", "pids"} => Passes(p, x, LinuxProcList)
    <2>1. Keeps(p, x, LinuxIsThread) /\ (x # "fd" => Passes(p, x, LinuxIsThread))
      BY <1>2 DEF LinuxIsThread
    <2>2. QED BY <1>2, <1>4, <2>1 DEF LinuxProcList
  <1>16. /\ Keeps(p, x, LinuxConnections)
         /\ x \in {"list", "pids"} => Passes(p, x, LinuxConnections)
    <2>1. Keeps(p, x, LinuxProcNetRead) /\ (x # "fp" => Passes(p, x, LinuxProcNetRead))
      BY <1>2 DEF LinuxProcNetRead
    <2>2. QED BY <2>1 DEF LinuxConnections
  <1>17. Keeps(p, x, LinuxProcPort)
    <2>1. Keeps(p, x, LinuxConnectionGet)
      BY <1>2 DEF LinuxConnectionGet
    <2>2. QED BY <1>2, <2>1 DEF LinuxProcPort
  <1>18. QED BY ONLY <1>5, <1>6, <1>7, <1>8, <1>10, <1>11, <1>13, <1>14, <1>15, <1>16, <1>17 DEF p

(***************************************************************************)
(* AIX.                                                                    *)
(***************************************************************************)
LEMMA AixMoves ==
    ASSUME NEW x
    PROVE  /\ Gives("aix", x, AixFsList) /\ Gives("aix", x, AixCpuInfoList)
           /\ Gives("aix", x, AixCpuList) /\ Keeps("aix", x, AixFsUsage)
           /\ Keeps("aix", x, AixSwap) /\ Keeps("aix", x, AixUptime)
           /\ Keeps("aix", x, AixGetprocs) /\ Keeps("aix", x, AixProcModules)
           /\ Keeps("aix", x, AixThreadCpu) /\ Passes("aix", x, AixProcList)
           /\ Gives("aix", x, NewList("list") \o AixProcList)
           /\ Passes("aix", x, AixProcArgs) /\ Passes("aix", x, AixConnections)
           /\ Keeps("aix", x, AixWhoUtmp) /\ (x = "list" => Passes("aix", x, AixWhoUtmp))
  <1> DEFINE p == "aix"
  <1> USE LeadsSeq, LeadsChoices, LeadsOrElse, LeadsWithin, LeadsOfPasses, LocalSteps, OtherSteps,
          PassesForms, OtherPasses, PassingSteps
      DEF Open, Ask, Fail, AddTo, Other, Apart, Nothing, Keeps, Gives
  <1>1. p \in Platforms
    BY DEF Platforms
  <1>2. /\ Local(p, "fd") /\ Local(p, "fp") /\ Local(p, "list") /\ Local(p, "buf")
        /\ Local(p, "buffer") /\ Local(p, "disk") /\ Local(p, "odm") /\ Local(p, "attr")
        /\ Local(p, "odm_obj")
    BY <1>1, NamesAre DEF Resources
  <1>3. /\ Passing(p, "diskmap") /\ Field(p, "diskmap") /\ Passing(p, "pinfo") /\ Field(p, "pinfo")
    BY NamesAre DEF AixFields, Passing
  <1> HIDE DEF p
  <1>4. Gives(p, x, AixFsList)
    BY <1>2 DEF AixFsList
  <1>5. Gives(p, x, AixCpuList)
    BY <1>2 DEF AixCpuList
  <1>6. Gives(p, x, AixCpuInfoList)
    <2>1. \A e : /\ Leads(p, x, AixOdmModel, "rest", "rest", e)
                 /\ x # "odm_obj" => Leads(p, x, AixOdmModel, "work", "work", e)
      BY <1>2 DEF AixOdmModel
    <2>2. QED BY <1>2, <2>1 DEF AixCpuInfoList
  <1>7. Keeps(p, x, AixSwap) /\ Keeps(p, x, AixThreadCpu)
    BY DEF AixSwap, AixThreadCpu
  <1>8. Keeps(p, x, AixUptime)
    BY <1>2 DEF AixUptime, AixBootTime
  <1>9. Keeps(p, x, AixGetprocs)
    <2>1. x = "pinfo" => Leads(p, x, Maybe(UseKept("pinfo") \o Ask), "work", "work", "work")
      BY <1>3, FieldSteps
    <2>2. x = "pinfo" => Leads(p, x, Maybe(UseKept("pinfo") \o Ask), "work", "rest", "rest")
      BY ONLY <1>3, <2>1, LeadsLess
    <2>3. QED BY <1>3, <2>2, OnceSteps DEF AixGetprocs
  <1>10. Keeps(p, x, AixProcModules)
    <2>1. Keeps(p, x, AixModulesLocal)
      BY <1>2 DEF AixModulesLocal
    <2>2. QED BY <2>1 DEF AixProcModules
  <1>11. /\ Passes(p, x, AixProcList) /\ Gives(p, x, NewList("list") \o AixProcList)
         /\ Passes(p, x, AixProcArgs) /\ Passes(p, x, AixConnections)
    BY <1>2 DEF AixProcList, AixProcArgs, AixConnections
  <1>12. Keeps(p, x, AixWhoUtmp) /\ (x = "list" => Passes(p, x, AixWhoUtmp))
    BY <1>2 DEF AixWhoUtmp
  <1>13. Keeps(p, x, AixFsUsage)
    <2>1. ASSUME x # "diskmap" PROVE Keeps(p, x, AixDiskmap)
      <3>1. PICK a : a = Maybe(Take("attr") \o Maybe(UseKept("diskmap")) \o Free("attr"))
        OBVIOUS
      <3>2. \A e : /\ Leads(p, x, a, "rest", "rest", e)
                   /\ x # "attr" => Leads(p, x, a, "work", "work", e)
        BY <1>2, <2>1, <3>1
      <3>3. PICK o : o = Loop(Use("disk") \o Maybe(Take("odm") \o a \o Free("odm")))
        OBVIOUS
      <3>4. \A e : Leads(p, x, o, IF x = "disk" THEN "work" ELSE "rest",
                        IF x = "disk" THEN "work" ELSE "rest", e)
        BY <1>2, <3>2, <3>3
      <3>5. Leads(p, x, Ask \o Take("disk") \o AskOr({"disk"}) \o Keep("diskmap"), "rest",
                  IF x = "disk" THEN "work" ELSE "rest", "rest")
        BY <1>2, <2>1
      <3>6. QED BY <1>2, <3>1, <3>3, <3>4, <3>5 DEF AixDiskmap
    <2>2. CASE x = "diskmap"
      <3>1. PICK s : s = Loop(Use("disk") \o Maybe(Take("odm")
                           \o Maybe(Take("attr") \o Maybe(UseKept("diskmap")) \o Free("attr"))
                           \o Free("odm")))
        OBVIOUS
      <3>2. Leads(p, x, s, "work", "work", "null")
        BY <1>3, <2>2, <3>1, FieldSteps
      <3>3. PICK t : t = Ask \o Take("disk") \o AskOr({"disk"}) \o Keep("diskmap")
        OBVIOUS
      <3>4. Leads(p, x, t, "null", "work", "null")
        BY <1>3, <2>2, <3>3, FieldSteps
      <3>5. AixDiskmap = (t \o s) \o Free("disk")
        BY ONLY <3>1, <3>3 DEF AixDiskmap
      <3>6. Leads(p, x, AixDiskmap, "null", "work", "null")
        BY <2>2, <3>2, <3>4, <3>5
      <3>7. Leads(p, x, AixDiskmap, "null", "rest", "rest")
        BY ONLY <1>3, <2>2, <3>6, LeadsLess
      <3>8. Leads(p, x, Try(AixDiskmap), "null", "rest", "rest")
        BY ONLY <3>7, LeadsOrElse
      <3>9. Leads(p, x, <<>>, "work", "rest", "rest") /\ Leads(p, x, <<>>, "null", "rest", "rest")
        BY ONLY <1>3, <2>2, LeadsOrElse, LeadsLess
      <3>10. Leads(p, x, IfKept("diskmap", <<>>, Try(AixDiskmap)), "rest", "rest", "rest")
        BY ONLY <1>3, <2>2, <3>8, <3>9, LeadsIfKept
      <3>11. Leads(p, x, Try(Ask \o UseKept("diskmap")), "work", "rest", "rest")
        <4>1. Leads(p, x, Try(Ask \o UseKept("diskmap")), "work", "work", "rest")
          BY <1>3, <2>2, FieldSteps
        <4>2. QED BY ONLY <1>3, <2>2, <4>1, LeadsLess
      <3>12. QED BY <1>3, <2>2, <3>9, <3>10, <3>11, LeadsIfKept DEF AixFsUsage
    <2>3. QED BY <2>1, <2>2 DEF AixFsUsage
  <1>14. QED BY ONLY <1>4, <1>5, <1>6, <1>7, <1>8, <1>9, <1>10, <1>11, <1>12, <1>13 DEF p

(***************************************************************************)
(* HP-UX: the stream of the mount table stays open, and the list the cache *)
(* of devices is filled from is not freed.                                 *)
(***************************************************************************)
LEMMA HpuxMoves ==
    ASSUME NEW x
    PROVE  /\ Leads("hpux", x, HpuxFsList, "rest",
                    IF x = "list" THEN "work" ELSE IF x = "fp" THEN "any" ELSE "rest", "rest")
           /\ Leads("hpux", x, HpuxFsUsage, "rest",
                    IF x \in {"fslist", "fp"} THEN "any" ELSE "rest", "rest")
           /\ Gives("hpux", x, HpuxCpuInfoList) /\ Gives("hpux", x, HpuxCpuList)
           /\ Gives("hpux", x, HpuxRouteList)
           /\ Keeps("hpux", x, HpuxProcFd) /\ Keeps("hpux", x, HpuxProcExe)
           /\ Keeps("hpux", x, HpuxGetproc) /\ Keeps("hpux", x, HpuxIfStat)
           /\ Keeps("hpux", x, HpuxTcp)
           /\ Passes("hpux", x, HpuxProcList) /\ Passes("hpux", x, HpuxProcArgs)
           /\ Keeps("hpux", x, HpuxConnections)
           /\ x = "list" => Passes("hpux", x, HpuxConnections)
  <1> DEFINE p == "hpux"
  <1> USE LeadsSeq, LeadsChoices, LeadsOrElse, LeadsWithin, LeadsOfPasses, LocalSteps, OtherSteps,
          PassesForms, OtherPasses, PassingSteps
      DEF Open, Ask, Fail, AddTo, Other, Apart, Nothing, Keeps, Gives
  <1>1. p \in Platforms
    BY DEF Platforms
  <1>2. /\ Local(p, "fp") /\ Local(p, "list") /\ Local(p, "fslist") /\ Local(p, "routes")
        /\ Local(p, "entries")
    BY <1>1, NamesAre DEF Resources
  <1>3. /\ Passing(p, "fsdev") /\ Field(p, "fsdev") /\ Passing(p, "pinfo") /\ Field(p, "pinfo")
        /\ Passing(p, "mib") /\ Field(p, "mib")
        /\ Passing(p, "ifconf_buf") /\ Field(p, "ifconf_buf") /\ "ifconf_buf" \in StaleBuffers[p]
    BY <1>1, NamesAre DEF CommonPassing, CommonFields, Passing, HpuxFields
  <1> HIDE DEF p
  <1>4. Leads(p, x, HpuxFsList, "rest",
              IF x = "list" THEN "work" ELSE IF x = "fp" THEN "any" ELSE "rest", "rest")
    <2>1. x # "fp" => Gives(p, x, HpuxFsList)
      BY <1>2 DEF HpuxFsList
    <2>2. x = "fp" => Leads(p, x, HpuxFsList, "rest", "work", "rest")
      BY <1>2 DEF HpuxFsList
    <2>3. x = "fp" => Leads(p, x, HpuxFsList, "rest", "any", "rest")
      BY ONLY <2>2, LeadsLess
    <2>4. QED BY ONLY <2>1, <2>3 DEF Gives
  <1>5. Gives(p, x, HpuxCpuInfoList) /\ Gives(p, x, HpuxCpuList)
    BY <1>2 DEF HpuxCpuInfoList, HpuxCpuList
  <1>6. /\ Keeps(p, x, HpuxProcFd) /\ Keeps(p, x, HpuxProcExe)
        /\ Passes(p, x, HpuxProcList) /\ Passes(p, x, HpuxProcArgs)
    BY DEF HpuxProcFd, HpuxProcExe, HpuxProcList, HpuxProcArgs
  <1>7. Keeps(p, x, HpuxGetproc)
    <2>1. x = "pinfo" => Leads(p, x, Maybe(UseKept("pinfo") \o Ask), "work", "work", "work")
      BY <1>3, FieldSteps
    <2>2. x = "pinfo" => Leads(p, x, Maybe(UseKept("pinfo") \o Ask), "work", "rest", "rest")
      BY ONLY <1>3, <2>1, LeadsLess
    <2>3. QED BY <1>3, <2>2, OnceSteps DEF HpuxGetproc
  <1>8. Keeps(p, x, HpuxMibInfo) /\ (x # "mib" => Passes(p, x, HpuxMibInfo))
    <2>1. ASSUME x = "mib"
          PROVE  Keeps(p, x, HpuxMibInfo)
      <3>1. Leads(p, x, Ask \o Keep("mib"), "null", "work", "null") /\ Leads(p, x, <<>>, "work", "work", "rest")
        BY <1>3, <2>1, FieldSteps
      <3>2. Leads(p, x, Ask \o Keep("mib"), "null", "work", "rest")
        BY ONLY <1>3, <2>1, <3>1, LeadsLess
      <3>3. Leads(p, x, IfKept("mib", <<>>, Ask \o Keep("mib")), "rest", "work", "rest")
        BY ONLY <1>3, <2>1, <3>1, <3>2, LeadsIfKept
      <3>4. Leads(p, x, Ask, "work", "work", "work")
        OBVIOUS
      <3>5. Leads(p, x, Ask, "work", "rest", "rest")
        BY ONLY <1>3, <2>1, <3>4, LeadsLess
      <3>6. QED BY <1>3, <2>1, <3>3, <3>5, FieldSteps DEF HpuxMibInfo
    <2>2. x # "mib" => Passes(p, x, HpuxMibInfo) /\ Keeps(p, x, HpuxMibInfo)
      BY DEF HpuxMibInfo
    <2>3. QED BY ONLY <2>1, <2>2
  <1>9. /\ Keeps(p, x, HpuxPhysicalStat) /\ Keeps(p, x, HpuxIfIndexToName)
        /\ Keeps(p, x, HpuxIfStat)
        /\ x \notin {"mib", "ifconf_buf"} => Passes(p, x, HpuxIfIndexToName)
    <2>1. x # "ifconf_buf" => /\ Keeps(p, x, HpuxPhysicalStat)
                              /\ x # "mib" => Passes(p, x, HpuxPhysicalStat)
      BY <1>8 DEF HpuxPhysicalStat
    <2>2. ASSUME x = "ifconf_buf"
          PROVE  /\ Keeps(p, x, HpuxPhysicalStat)
                 /\ Leads(p, x, IfKept("ifconf_buf", UseKept("ifconf_buf"), <<>>), "rest", "rest", "rest")
      <3>1. /\ Leads(p, x, UseKept("ifconf_buf"), "work", "work", "rest")
            /\ Leads(p, x, Keep("ifconf_buf"), "null", "work", "rest")
            /\ Leads(p, x, <<>>, "null", "null", "rest")
        BY <1>3, <2>2, FieldSteps
      <3>2. /\ Leads(p, x, UseKept("ifconf_buf"), "work", "rest", "rest")
            /\ Leads(p, x, Keep("ifconf_buf"), "null", "rest", "rest")
            /\ Leads(p, x, <<>>, "null", "rest", "rest")
        BY ONLY <1>3, <2>2, <3>1, LeadsLess
      <3>3. /\ Leads(p, x, IfKept("ifconf_buf", UseKept("ifconf_buf"), <<>>), "rest", "rest", "rest")
            /\ Leads(p, x, IfKept("ifconf_buf", UseKept("ifconf_buf"), Keep("ifconf_buf")), "rest", "rest", "rest")
        BY ONLY <1>3, <2>2, <3>2, LeadsIfKept
      <3>4. QED BY <1>8, <3>3 DEF HpuxPhysicalStat
    <2>3. /\ x # "ifconf_buf" => /\ Keeps(p, x, HpuxIfIndexToName) /\ Keeps(p, x, HpuxIfStat)
          /\ x \notin {"mib", "ifconf_buf"} => Passes(p, x, HpuxIfIndexToName)
      BY <2>1 DEF HpuxIfIndexToName, HpuxIfStat
    <2>4. x = "ifconf_buf" => Keeps(p, x, HpuxIfIndexToName) /\ Keeps(p, x, HpuxIfStat)
      BY <2>2 DEF HpuxIfIndexToName, HpuxIfStat
    <2>5. QED BY ONLY <2>1, <2>2, <2>3, <2>4
  <1>10. Gives(p, x, HpuxRouteList)
    <2>1. \A e : /\ Leads(p, x, Try(HpuxIfIndexToName), "rest", "rest", e)
                 /\ x \notin {"mib", "ifconf_buf"} =>
                      Leads(p, x, Try(HpuxIfIndexToName), "work", "work", e)
      BY <1>9
    <2>2. x = "routes" => Gives(p, x, HpuxRouteList)
      BY <1>2, <1>8, <2>1 DEF HpuxRouteList
    <2>3. x = "list" => Gives(p, x, HpuxRouteList)
      BY <1>2, <1>8, <2>1 DEF HpuxRouteList
    <2>4. x \notin {"routes", "list"} => Gives(p, x, HpuxRouteList)
      BY <1>8, <2>1 DEF HpuxRouteList
    <2>5. QED BY ONLY <2>2, <2>3, <2>4
  <1>11. Keeps(p, x, HpuxConnections) /\ (x = "list" => Passes(p, x, HpuxConnections))
    <2>1. x = "entries" => Keeps(p, x, HpuxConnections)
      BY <1>2, <1>8 DEF HpuxConnections
    <2>2. x # "entries" => Keeps(p, x, HpuxConnections)
      BY <1>2, <1>8 DEF HpuxConnections
    <2>3. x = "list" => Passes(p, x, HpuxConnections)
      BY <1>8 DEF HpuxConnections
    <2>4. QED BY ONLY <2>1, <2>2, <2>3
  <1>12. Keeps(p, x, HpuxTcp)
    BY <1>8 DEF HpuxTcp
  <1>13. Leads(p, x, HpuxFsUsage, "rest", IF x \in {"fslist", "fp"} THEN "any" ELSE "rest", "rest")
    <2>1. PICK s : s = Open("fp") \o NewList("fslist") \o Loop(Maybe(AddTo("fslist")))
      OBVIOUS
    <2>2. HpuxFsdevCache = (s \o Keep("fsdev")) \o Loop(UseKept("fsdev"))
      BY ONLY <2>1, FsListsAre DEF HpuxFsdevCache
    <2>3. x \notin {"fslist", "fp", "fsdev"} => Keeps(p, x, HpuxFsUsage)
      BY <2>1, <2>2 DEF HpuxFsUsage
    <2>4. ASSUME x \in {"fslist", "fp"}
          PROVE  Leads(p, x, HpuxFsUsage, "rest", "any", "rest")
      <3>1. Leads(p, x, HpuxFsdevCache, "rest", "work", "rest")
        BY <1>2, <2>1, <2>2, <2>4
      <3>2. Leads(p, x, HpuxFsdevCache, "rest", "any", "any") /\ Leads(p, x, <<>>, "rest", "any", "rest")
        BY ONLY <3>1, LeadsLess, LeadsOrElse
      <3>3. Leads(p, x, Try(HpuxFsdevCache), "rest", "any", "rest")
        BY ONLY <3>2, LeadsOrElse
      <3>4. Leads(p, x, IfKept("fsdev", Try(Ask \o UseKept("fsdev") \o Ask), <<>>), "any", "any", "rest")
        BY <2>4
      <3>5. QED BY <2>4, <3>2, <3>3, <3>4 DEF HpuxFsUsage
    <2>5. ASSUME x = "fsdev"
          PROVE  Keeps(p, x, HpuxFsUsage)
      <3>1. Leads(p, x, s, "null", "null", "null") /\ Leads(p, x, Loop(UseKept("fsdev")), "work", "work", "null")
        BY <1>3, <2>1, <2>5, FieldSteps
      <3>2. Leads(p, x, HpuxFsdevCache, "null", "work", "null")
        BY <1>3, <2>2, <2>5, <3>1, FieldSteps
      <3>3. Leads(p, x, HpuxFsdevCache, "null", "rest", "rest")
        BY ONLY <1>3, <2>5, <3>2, LeadsLess
      <3>4. Leads(p, x, Try(HpuxFsdevCache), "null", "rest", "rest")
        BY ONLY <3>3, LeadsOrElse
      <3>5. Leads(p, x, <<>>, "work", "rest", "rest") /\ Leads(p, x, <<>>, "null", "rest", "rest")
        BY ONLY <1>3, <2>5, LeadsOrElse, LeadsLess
      <3>6. Leads(p, x, IfKept("fsdev", <<>>, Try(HpuxFsdevCache)), "rest", "rest", "rest")
        BY ONLY <1>3, <2>5, <3>4, <3>5, LeadsIfKept
      <3>7. Leads(p, x, Try(Ask \o UseKept("fsdev") \o Ask), "work", "work", "rest")
        BY <1>3, <2>5, FieldSteps
      <3>8. Leads(p, x, Try(Ask \o UseKept("fsdev") \o Ask), "work", "rest", "rest")
        BY ONLY <1>3, <2>5, <3>7, LeadsLess
      <3>9. Leads(p, x, IfKept("fsdev", Try(Ask \o UseKept("fsdev") \o Ask), <<>>), "rest", "rest", "rest")
        BY ONLY <1>3, <2>5, <3>5, <3>8, LeadsIfKept
      <3>10. QED BY <3>6, <3>9 DEF HpuxFsUsage
    <2>6. QED BY ONLY <2>3, <2>4, <2>5 DEF Keeps
  <1>14. QED BY ONLY <1>4, <1>5, <1>6, <1>7, <1>9, <1>10, <1>11, <1>12, <1>13 DEF p

(***************************************************************************)
(* Mac OS X: the buffer of the messages of the interfaces may be used in   *)
(* any state.                                                              *)
(***************************************************************************)
LEMMA DarwinMoves ==
    ASSUME NEW x
    PROVE  /\ Gives("darwin", x, DarwinFsList) /\ Gives("darwin", x, DarwinCpuInfoList)
           /\ Gives("darwin", x, DarwinCpuList) /\ Gives("darwin", x, DarwinRouteList)
           /\ Gives("darwin", x, DarwinIfList)
           /\ Keeps("darwin", x, DarwinDiskUsage) /\ Keeps("darwin", x, DarwinFsUsage)
           /\ Keeps("darwin", x, DarwinSwap) /\ Keeps("darwin", x, DarwinProcEnv)
           /\ Keeps("darwin", x, DarwinProcExe) /\ Keeps("darwin", x, DarwinGetPinfo)
           /\ Keeps("darwin", x, DarwinProcModules)
           /\ Keeps("darwin", x, DarwinIfConfig) /\ (x = "list" => Passes("darwin", x, DarwinIfConfig))
           /\ Keeps("darwin", x, DarwinIfStat) /\ Keeps("darwin", x, DarwinProcPort)
           /\ Keeps("darwin", x, DarwinProcList) /\ Keeps("darwin", x, DarwinProcArgs)
           /\ Keeps("darwin", x, DarwinConnections)
           /\ x \in {"list", "pids"} => /\ Passes("darwin", x, DarwinProcList)
                                        /\ Passes("darwin", x, DarwinProcArgs)
                                        /\ Passes("darwin", x, DarwinConnections)
           /\ Keeps("darwin", x, OrElse(WhoUtmp, WhoUtmpx))
           /\ x = "list" => Passes("darwin", x, OrElse(WhoUtmp, WhoUtmpx))
  <1> DEFINE p == "darwin"
  <1> USE LeadsSeq, LeadsChoices, LeadsOrElse, LeadsWithin, LeadsOfPasses, LocalSteps, OtherSteps,
          PassesForms, OtherPasses, PassingSteps
      DEF Open, Ask, Fail, AddTo, Other, Apart, Nothing, Keeps, Gives
  <1>1. p \in Platforms
    BY DEF Platforms
  <1>2. /\ Local(p, "fp") /\ Local(p, "list") /\ Local(p, "fslist") /\ Local(p, "fs")
        /\ Local(p, "dirp") /\ Local(p, "cpuload") /\ Local(p, "proc") /\ Local(p, "buf")
        /\ Local(p, "service") /\ Local(p, "parent") /\ Local(p, "props") /\ Local(p, "sock")
    BY <1>1, NamesAre DEF Resources
  <1>3. /\ Passing(p, "fsdev") /\ Field(p, "fsdev") /\ Passing(p, "pinfo") /\ Field(p, "pinfo")
        /\ Passing(p, "libproc") /\ Field(p, "libproc")
        /\ Passing(p, "ifconf_buf") /\ Field(p, "ifconf_buf") /\ "ifconf_buf" \in StaleBuffers[p]
    BY <1>1, NamesAre DEF CommonPassing, CommonFields, Passing, DarwinFields
  <1>4. Keeps(p, x, WhoUtmp) /\ (x # "fp" => Passes(p, x, WhoUtmp))
    BY <1>1, CommonMoves
  <1> HIDE DEF p
  <1>5. /\ Gives(p, x, DarwinFsList) /\ Gives(p, x, DarwinRouteList)
    BY <1>2 DEF DarwinFsList, DarwinRouteList, DarwinSysctl
  <1>6. /\ Gives(p, x, DarwinCpuInfoList) /\ Gives(p, x, DarwinCpuList)
    BY <1>2 DEF DarwinCpuInfoList, DarwinCpuList
  <1>7. Keeps(p, x, DarwinSwap) /\ Keeps(p, x, DarwinProcModules)
    BY <1>2 DEF DarwinSwap, DarwinSwapFs, DarwinProcModules
  <1>8. /\ Keeps(p, x, DarwinProcEnv) /\ Keeps(p, x, DarwinProcArgs)
        /\ x \in {"list", "pids"} => Passes(p, x, DarwinProcArgs)
    BY <1>2 DEF DarwinProcEnv, DarwinProcArgs, DarwinKernArgs
  <1>9. Keeps(p, x, DarwinProcExe)
    <2>1. ASSUME x = "buf" PROVE Keeps(p, x, DarwinProcExe)
      <3>1. Leads(p, x, Free("buf"), "work", "rest", "rest")
        BY <1>2, <2>1
      <3>2. Leads(p, x, Free("buf"), "work", "any", "rest")
        BY ONLY <3>1, LeadsLess
      <3>3. Leads(p, x, Maybe(Free("buf")), "work", "any", "rest")
        BY <3>2
      <3>4. QED BY <1>2, <2>1, <3>3 DEF DarwinProcExe, DarwinKernArgs
    <2>2. x # "buf" => Keeps(p, x, DarwinProcExe)
      BY DEF DarwinProcExe, DarwinKernArgs
    <2>3. QED BY ONLY <2>1, <2>2
  <1>10. Keeps(p, x, DarwinGetPinfo)
    <2>1. x = "pinfo" => Leads(p, x, UseKept("pinfo") \o Ask, "work", "work", "work")
      BY <1>3, FieldSteps
    <2>2. x = "pinfo" => Leads(p, x, KeepOnce("pinfo") \o UseKept("pinfo"), "rest", "work", "rest")
      BY <1>3, OnceSteps, FieldSteps
    <2>3. x = "pinfo" => Leads(p, x, Ask, "work", "work", "work")
      OBVIOUS
    <2>4. x = "pinfo" => Leads(p, x, Ask, "work", "rest", "rest")
      BY ONLY <1>3, <2>3, LeadsLess
    <2>5. QED BY <2>2, <2>4, OnceSteps DEF DarwinGetPinfo
  <1>11. /\ Keeps(p, x, DarwinProcList) /\ Keeps(p, x, DarwinConnections)
         /\ x \in {"list", "pids"} => /\ Passes(p, x, DarwinProcList)
                                      /\ Passes(p, x, DarwinConnections)
    BY <1>2 DEF DarwinProcList, DarwinConnections, DarwinSysctl
  <1>12. /\ Keeps(p, x, OrElse(WhoUtmp, WhoUtmpx))
         /\ x = "list" => Passes(p, x, OrElse(WhoUtmp, WhoUtmpx))
    BY <1>4 DEF WhoUtmpx
  <1>13. Keeps(p, x, Iodev([fsList |-> DarwinFsList]))
    <2>1. PICK s : s = Ask \o Take("fs") \o AskOr({"fs"}) \o NewList("fslist")
                         \o Loop(Maybe(AddTo("fslist"))) \o Free("fs")
      OBVIOUS
    <2>2. Leads(p, x, s, "rest", IF x = "fslist" THEN "work" ELSE "rest", "rest")
      BY <1>2, <2>1
    <2>3. x \notin {"fs", "fslist"} => Passes(p, x, s)
      BY <2>1
    <2>4. PICK t : t = Maybe(Maybe(s \o Loop(UseKept("fsdev")) \o Free("fslist") \o Ask))
      OBVIOUS
    <2>5. x # "fsdev" => Leads(p, x, t, "rest", "rest", "rest")
      BY <1>2, <2>2, <2>4
    <2>6. x = "fsdev" => Leads(p, x, t, "work", "work", "work")
      BY <1>3, <2>3, <2>4, FieldSteps
    <2>7. x = "fsdev" => Leads(p, x, KeepOnce("fsdev") \o Ask \o UseKept("fsdev"), "rest", "work", "rest")
      BY <1>3, OnceSteps, FieldSteps, LeadsLess
    <2>8. x = "fsdev" => Leads(p, x, t, "work", "rest", "rest")
      BY ONLY <1>3, <2>6, LeadsLess
    <2>9. x # "fsdev" => Leads(p, x, KeepOnce("fsdev") \o Ask \o UseKept("fsdev"), "rest", "rest", "rest")
      BY OnceSteps
    <2>10. Keeps(p, x, (KeepOnce("fsdev") \o Ask \o UseKept("fsdev")) \o t)
      BY <2>5, <2>7, <2>8, <2>9
    <2>11. Iodev([fsList |-> DarwinFsList]) = (KeepOnce("fsdev") \o Ask \o UseKept("fsdev")) \o t
      BY ONLY <2>1, <2>4, FsListsAre DEF Iodev
    <2>12. QED BY ONLY <2>10, <2>11
  <1>14. Keeps(p, x, DarwinDiskUsage) /\ Keeps(p, x, DarwinFsUsage)
    <2>1. PICK d : d = Iodev([fsList |-> DarwinFsList])
      OBVIOUS
    <2>2. Keeps(p, x, d)
      BY ONLY <1>13, <2>1
    <2>3. Keeps(p, x, DarwinDiskUsage)
      BY <1>2, <2>1, <2>2 DEF DarwinDiskUsage
    <2>4. QED BY <2>3 DEF DarwinFsUsage
  <1>15. x = "ifconf_buf" =>
           /\ Leads(p, x, KeepOnce(x), "rest", "rest", "rest")
           /\ Leads(p, x, Overwrite(x), "rest", "rest", "rest")
           /\ Leads(p, x, Fill(x), "rest", "rest", "rest")
           /\ Leads(p, x, UseFilled(x), "rest", "rest", "rest")
           /\ Leads(p, x, UseKept(x), "rest", "rest", "rest")
    <2>1. x = "ifconf_buf" =>
            /\ Leads(p, x, KeepOnce(x), "rest", "work", "rest")
            /\ Leads(p, x, Overwrite(x), "work", "work", "rest")
            /\ Leads(p, x, Fill(x), "work", "work", "rest")
            /\ Leads(p, x, UseFilled(x), "work", "work", "rest")
            /\ Leads(p, x, UseKept(x), "work", "work", "rest")
      BY <1>3, OnceSteps, FieldSteps
    <2>2. \A s : x = "ifconf_buf" /\ (Leads(p, x, s, "work", "work", "rest") \/ Leads(p, x, s, "rest", "work", "rest")) =>
            Leads(p, x, s, "rest", "rest", "rest")
      BY ONLY <1>3, LeadsLess
    <2>3. QED BY ONLY <2>1, <2>2
  <1>16. /\ Keeps(p, x, DarwinIfmsgInit) /\ Keeps(p, x, DarwinFdinfo)
         /\ x # "ifconf_buf" => Passes(p, x, DarwinIfmsgInit) /\ Passes(p, x, DarwinFdinfo)
    BY <1>15, OnceSteps DEF DarwinIfmsgInit, DarwinFdinfo
  <1>17. /\ Keeps(p, x, DarwinIfmsgIterGet) /\ (x # "ifconf_buf" => Passes(p, x, DarwinIfmsgIterGet))
    BY <1>15 DEF DarwinIfmsgIterGet
  <1>18. Gives(p, x, DarwinIfmsgIterList)
    <2>1. Keeps(p, x, DarwinHasIfaddr) /\ (x # "sock" => Passes(p, x, DarwinHasIfaddr))
      BY <1>2 DEF DarwinHasIfaddr
    <2>2. QED BY <1>2, <1>15, <2>1 DEF DarwinIfmsgIterList
  <1>19. Gives(p, x, DarwinIfList) /\ Keeps(p, x, DarwinIfStat)
    BY <1>16, <1>17, <1>18 DEF DarwinIfList, DarwinIfStat
  <1>20. Keeps(p, x, DarwinIfConfig) /\ (x = "list" => Passes(p, x, DarwinIfConfig))
    <2>1. x = "ifconf_buf" => Leads(p, x, IfKept("ifconf_buf", <<>>, DarwinIfmsgInit), "rest", "rest", "rest")
      <3>1. x = "ifconf_buf" => /\ Leads(p, x, DarwinIfmsgInit, "null", "rest", "rest")
                                /\ Leads(p, x, <<>>, "work", "rest", "rest")
        BY ONLY <1>3, <1>16, LeadsLess, LeadsOrElse DEF Keeps
      <3>2. QED BY ONLY <1>3, <3>1, LeadsIfKept
    <2>2. QED BY <1>2, <1>16, <1>17, <2>1 DEF DarwinIfConfig
  <1>21. Keeps(p, x, DarwinProcPort)
    <2>1. Leads(p, x, IfKept("libproc", <<>>, Fail), "rest", "rest", "rest")
      <3>1. x = "libproc" => /\ Leads(p, x, <<>>, "work", "work", "rest")
                             /\ Leads(p, x, Fail, "null", "rest", "null")
        OBVIOUS
      <3>2. x = "libproc" => /\ Leads(p, x, <<>>, "work", "rest", "rest")
                             /\ Leads(p, x, Fail, "null", "rest", "rest")
        BY ONLY <1>3, <3>1, LeadsLess
      <3>3. x = "libproc" => Leads(p, x, IfKept("libproc", <<>>, Fail), "rest", "rest", "rest")
        BY ONLY <1>3, <3>2, LeadsIfKept
      <3>4. QED BY <3>3
    <2>2. Leads(p, x, Loop(Try(DarwinFdinfo \o UseKept("ifconf_buf"))),
                IF x = "list" THEN "work" ELSE "rest", IF x = "list" THEN "work" ELSE "rest", "rest")
      BY <1>15, <1>16
    <2>3. Leads(p, x, NewList("list") \o Within({"list"}, DarwinProcList), "rest",
                IF x = "list" THEN "work" ELSE "rest", "rest")
      BY <1>2, <1>11
    <2>4. QED BY <1>2, <1>11, <2>1, <2>2 DEF DarwinProcPort
  <1>22. QED BY ONLY <1>5, <1>6, <1>7, <1>8, <1>9, <1>10, <1>11, <1>12, <1>14, <1>18, <1>19, <1>20,
                     <1>21 DEF p

(***************************************************************************)
(* Windows: libraries are loaded on first use, and four tables are kept.   *)
(***************************************************************************)
LEMMA Win32Names ==
    /\ \A r \in Resources : Local("win32", r)
    /\ \A m \in Win32Dlls : Passing("win32", m) /\ Field("win32", m) /\ m # "sd"
    /\ \A m \in Win32Dlls : m \in StaleBuffers["win32"]
    /\ "unmade" \in StaleBuffers["win32"] /\ "old_object" \in StaleBuffers["win32"]
    /\ \A f \in {"perfbuf", "winsock", "ifconf_buf"} \cup Win32Netif :
         Passing("win32", f) /\ Field("win32", f)
    /\ Win32Dlls \cap Resources = {} /\ Win32Dlls \cap Win32Netif = {}
    /\ "perfbuf" \notin Win32Dlls /\ "winsock" \notin Win32Dlls /\ "ifconf_buf" \notin Win32Dlls
    /\ Win32Netif \cap Resources = {}
    /\ "perfbuf" \notin Resources /\ "winsock" \notin Resources /\ "ifconf_buf" \notin Resources
    /\ {"iphlpapi", "advapi", "ntdll", "psapi", "wtsapi", "winsta", "kernel", "mpr"} \subseteq Win32Dlls
  <1>1. "win32" \in Platforms
    BY DEF Platforms
  <1>2. \A f \in Win32Fields \cup CommonPassing : Passing("win32", f) /\ Field("win32", f)
    BY <1>1, NamesAre DEF Passing
  <1>3. "perfbuf" \in Win32Fields /\ "winsock" \in Win32Fields /\ "ifconf_buf" \in CommonPassing
    BY DEF Win32Fields, CommonPassing, CommonFields
  <1>4. Win32Dlls \subseteq Win32Fields /\ Win32Netif \subseteq Win32Fields
    BY DEF Win32Fields
  <1>5. \A m \in Win32Dlls : m # "sd"
    BY DEF Win32Dlls
  <1>6. /\ Win32Dlls \cap Resources = {}
        /\ "perfbuf" \notin Resources /\ "winsock" \notin Resources /\ "ifconf_buf" \notin Resources
    BY DEF Win32Dlls, Resources
  <1>7. /\ Win32Dlls \cap Win32Netif = {}
        /\ "perfbuf" \notin Win32Dlls /\ "winsock" \notin Win32Dlls /\ "ifconf_buf" \notin Win32Dlls
        /\ {"iphlpapi", "advapi", "ntdll", "psapi", "wtsapi", "winsta", "kernel", "mpr"} \subseteq Win32Dlls
    BY DEF Win32Dlls, Win32Netif
  <1>8. Win32Netif \cap Resources = {}
    BY DEF Win32Netif, Resources
  <1>9. /\ \A m \in Win32Dlls : m \in StaleBuffers["win32"]
        /\ "unmade" \in StaleBuffers["win32"] /\ "old_object" \in StaleBuffers["win32"]
    BY DEF StaleBuffers
  <1>10. QED BY <1>1, <1>2, <1>3, <1>4, <1>5, <1>6, <1>7, <1>8, <1>9, NamesAre

\* A library is loaded once and kept, or marked as one that does not load.
LEMMA DllMoves ==
    ASSUME NEW x, NEW m \in Win32Dlls
    PROVE  /\ x # m => Passes("win32", x, Dll(m))
           /\ \A e : /\ Leads("win32", x, Dll(m), "rest", "rest", e)
                     /\ x # m => /\ Leads("win32", x, Dll(m), "work", "work", e)
                                 /\ Leads("win32", x, Dll(m), "null", "null", e)
                                 /\ Leads("win32", x, Dll(m), "gone", "gone", e)
  <1> DEFINE p == "win32"
  <1> USE LeadsSeq, LeadsChoices, LeadsOrElse, LeadsWithin, LeadsOfPasses, LocalSteps, OtherSteps,
          PassesForms, OtherPasses, PassingSteps
      DEF Open, Ask, Fail, AddTo, Other, Apart, Nothing, Keeps, Gives
  <1>1. Passing(p, m) /\ Field(p, m) /\ m # "sd" /\ m \in StaleBuffers[p]
    BY Win32Names
  <1> HIDE DEF p
  <1>2. x = m => \A e : Leads(p, x, Dll(m), "rest", "rest", e)
    <2>1. SUFFICES ASSUME x = m, NEW e PROVE Leads(p, x, Dll(m), "rest", "rest", e)
      OBVIOUS
    <2>2. Leads(p, x, Ask \o Keep(m), "null", "work", "null") /\ Leads(p, x, <<>>, "work", "work", e)
      BY <1>1, <2>1, FieldSteps
    <2>3. Leads(p, x, Spoil(m), "null", "gone", e)
      <3>1. Leads(p, x, Keep(m), "null", "work", e) /\ Leads(p, x, Dispose(m), "work", "gone", e)
        BY ONLY <1>1, <2>1, FieldSteps
      <3>2. QED BY ONLY <3>1, LeadsSeq DEF Spoil
    <2>4. /\ Leads(p, x, Ask \o Keep(m), "null", "rest", "null")
          /\ Leads(p, x, <<>>, "work", "rest", e)
      BY ONLY <1>1, <2>1, <2>2, LeadsLess
    <2>5. Leads(p, x, Spoil(m), "null", "any", e)
      BY ONLY <2>3, LeadsLess
    <2>6. Leads(p, x, Spoil(m), "null", "rest", e)
      BY ONLY <1>1, <2>1, <2>5, LeadsLess
    <2>7. Leads(p, x, OrElse(Ask \o Keep(m), Spoil(m)), "null", "rest", e)
      BY ONLY <2>4, <2>6, LeadsOrElse
    <2>8. QED BY ONLY <1>1, <2>1, <2>4, <2>7, LeadsIfKept DEF Dll
  <1>3. x # m => Passes(p, x, Dll(m))
    BY <1>1 DEF Dll, Spoil
  <1>4. x # m => \A e : /\ Leads(p, x, Dll(m), "rest", "rest", e)
                        /\ Leads(p, x, Dll(m), "work", "work", e)
                        /\ Leads(p, x, Dll(m), "null", "null", e)
                        /\ Leads(p, x, Dll(m), "gone", "gone", e)
    <2>1. Passes(p, x, <<>>) /\ (x # m => Passes(p, x, Ask \o Keep(m)) /\ Passes(p, x, Spoil(m)))
      BY <1>1 DEF Spoil
    <2>2. x # m => \A k, e : Leads(p, x, Spoil(m), k, k, e) /\ Leads(p, x, <<>>, k, k, e)
      <3>1. x # m => \A k, e : Leads(p, x, Keep(m), k, k, e) /\ Leads(p, x, Dispose(m), k, k, e)
        BY <1>1, OtherSteps
      <3>2. x # m => \A k, e : Leads(p, x, Keep(m) \o Dispose(m), k, k, e)
        BY ONLY <3>1, MovesSeq DEF Leads
      <3>3. QED BY <3>2 DEF Spoil
    <2>3. x # m => \A k : Leads(p, x, Ask \o Keep(m), k, k, k)
      BY <2>1
    <2>4. x # m => \A k \in {"rest", "work", "null", "gone"} : \A e :
            Leads(p, x, OrElse(Ask \o Keep(m), Spoil(m)), k, k, e)
      BY ONLY <2>2, <2>3, LeadsOrElse
    <2>5. QED BY ONLY <1>1, <2>2, <2>4, LeadsChoices DEF Dll
  <1>5. QED BY ONLY <1>2, <1>3, <1>4 DEF p

\* The calls of Windows but for its interfaces, connections and opening.
LEMMA Win32Moves ==
    ASSUME NEW x
    PROVE  /\ Keeps("win32", x, PerfObject) /\ Keeps("win32", x, Win32Mem)
           /\ Keeps("win32", x, Win32Cpu) /\ Gives("win32", x, Win32CpuList)
           /\ Keeps("win32", x, Win32ProcList)
           /\ x \in {"list", "pids"} => Passes("win32", x, Win32ProcList)
           /\ Keeps("win32", x, Win32CredName) /\ Keeps("win32", x, Win32ProcInfo)
           /\ Keeps("win32", x, Win32ProcArgs) /\ (x = "list" => Passes("win32", x, Win32ProcArgs))
           /\ Keeps("win32", x, Win32ProcEnv) /\ Keeps("win32", x, Win32ProcExe)
           /\ Keeps("win32", x, Win32ProcModules) /\ Gives("win32", x, Win32FsList)
           /\ Keeps("win32", x, Win32DiskUsage) /\ Keeps("win32", x, Win32FsUsage)
           /\ Leads("win32", x, Win32CpuInfoList, "rest", IF x = "list" THEN "work" ELSE "rest",
                    IF x = "list" THEN "any" ELSE "rest")
           /\ Keeps("win32", x, Win32ServicePid) /\ Keeps("win32", x, Win32FileVersion)
           /\ Gives("win32", x, Win32WhoList) /\ Keeps("win32", x, Winsock \o Ask)
           /\ Keeps("win32", x, Dll("ntdll") \o PerfObject \o Use("unmade"))
  <1> DEFINE p == "win32"
  <1> USE LeadsSeq, LeadsChoices, LeadsOrElse, LeadsWithin, LeadsOfPasses, LocalSteps, OtherSteps,
          PassesForms, OtherPasses, PassingSteps
      DEF Open, Ask, Fail, AddTo, Other, Apart, Nothing, Keeps, Gives
  <1>1. p \in Platforms
    BY DEF Platforms
  <1>2. /\ Local(p, "list") /\ Local(p, "proc") /\ Local(p, "token") /\ Local(p, "user")
        /\ Local(p, "group") /\ Local(p, "args") /\ Local(p, "env") /\ Local(p, "key")
        /\ Local(p, "cpu") /\ Local(p, "sessions") /\ Local(p, "users") /\ Local(p, "sid")
        /\ Local(p, "buffer") /\ Local(p, "mgr") /\ Local(p, "svc") /\ Local(p, "data")
    BY Win32Names DEF Resources
  <1>3. /\ Passing(p, "perfbuf") /\ Field(p, "perfbuf")
        /\ Passing(p, "winsock") /\ Field(p, "winsock")
        /\ Local(p, "unmade") /\ "unmade" \in StaleBuffers[p]
        /\ Local(p, "old_object") /\ "old_object" \in StaleBuffers[p]
    BY Win32Names DEF Resources
  <1>4. \A m \in Win32Dlls :
           /\ x # m => Passes(p, x, Dll(m))
           /\ \A e : /\ Leads(p, x, Dll(m), "rest", "rest", e)
                     /\ x # m => Leads(p, x, Dll(m), "work", "work", e)
    BY DllMoves
  <1>5. /\ {"ntdll", "psapi", "wtsapi", "winsta", "kernel", "mpr"} \subseteq Win32Dlls
        /\ "perfbuf" \notin Win32Dlls
        /\ \A r \in {"list", "pids", "proc", "token", "user", "group", "args", "env", "sessions", "buffer"} :
             r \notin Win32Dlls
    BY Win32Names DEF Win32Dlls
  <1>6. Keeps(p, x, WhoUtmp) /\ (x # "fp" => Passes(p, x, WhoUtmp))
    BY <1>1, CommonMoves
  <1> HIDE DEF p
  <1>7. /\ x = "perfbuf" => Leads(p, x, PerfObject, "rest", "work", "rest")
        /\ Keeps(p, x, PerfObject)
        /\ x # "perfbuf" => Passes(p, x, PerfObject)
    <2>1. x = "perfbuf" => Leads(p, x, PerfbufInit \o Loop(UseKept("perfbuf")) \o UseKept("perfbuf"),
                                 "rest", "work", "rest")
      BY <1>3, OnceSteps, FieldSteps DEF PerfbufInit
    <2>2. x = "perfbuf" => Leads(p, x, Ask, "work", "work", "work")
      OBVIOUS
    <2>3. x = "perfbuf" => Leads(p, x, Ask, "work", "work", "rest")
      BY ONLY <1>3, <2>2, LeadsLess
    <2>4. x = "perfbuf" => Leads(p, x, PerfObject, "rest", "work", "rest")
      BY <2>1, <2>3 DEF PerfObject
    <2>5. x = "perfbuf" => Leads(p, x, PerfObject, "rest", "rest", "rest")
      BY ONLY <1>3, <2>4, LeadsLess
    <2>6. x # "perfbuf" => Passes(p, x, PerfObject)
      BY OnceSteps DEF PerfObject, PerfbufInit
    <2>7. QED BY <2>4, <2>5, <2>6
  <1>8. \A s : x = "perfbuf" /\ Leads(p, x, s, "rest", "work", "rest") => Leads(p, x, s, "rest", "rest", "rest")
    BY ONLY <1>3, LeadsLess
  <1>9. Keeps(p, x, Win32Mem)
    BY <1>4, <1>5, <1>7 DEF Win32Mem
  <1>10. Keeps(p, x, Win32Cpu)
    <2>1. x = "perfbuf" => Leads(p, x, Win32CpuPerflib, "rest", "work", "rest")
      <3>1. Leads(p, x, Try(Ask), "work", "work", "rest")
        BY PassingSteps
      <3>2. x = "perfbuf" => Leads(p, x, UseKept("perfbuf") \o Try(Ask), "work", "work", "rest")
        BY <1>3, <3>1, FieldSteps
      <3>3. QED BY ONLY <1>7, <3>2, LeadsChoices, LeadsSeq DEF Win32CpuPerflib
    <2>2. x # "perfbuf" => Passes(p, x, Win32CpuPerflib)
      BY <1>7 DEF Win32CpuPerflib
    <2>3. Keeps(p, x, Win32CpuPerflib)
      BY <1>8, <2>1, <2>2
    <2>4. QED BY <1>4, <1>5, <2>3 DEF Win32Cpu
  <1>11. Gives(p, x, Win32CpuList)
    <2>1. x = "perfbuf" => Leads(p, x, Win32CpuListPerflib, "rest", "work", "rest")
      BY <1>3, <1>7, FieldSteps DEF Win32CpuListPerflib
    <2>2. x # "perfbuf" => Gives(p, x, Win32CpuListPerflib)
      BY <1>2, <1>7 DEF Win32CpuListPerflib
    <2>3. Gives(p, x, Win32CpuListPerflib)
      BY <1>8, <2>1, <2>2
    <2>4. Gives(p, x, Win32CpuListNtsys)
      BY <1>2 DEF Win32CpuListNtsys
    <2>5. QED BY <1>4, <1>5, <2>3, <2>4 DEF Win32CpuList
  <1>12. /\ Keeps(p, x, Win32ProcList)
         /\ x \in {"list", "pids"} => Passes(p, x, Win32ProcList)
    <2>1. x = "perfbuf" => Leads(p, x, Win32ProcListPerf, "rest", "work", "rest")
      BY <1>3, <1>7, FieldSteps DEF Win32ProcListPerf
    <2>2. x # "perfbuf" => Passes(p, x, Win32ProcListPerf) /\ Passes(p, x, Win32ProcListEnum)
      BY <1>7, OnceSteps DEF Win32ProcListPerf, Win32ProcListEnum, PerfbufInit
    <2>3. x = "perfbuf" => Leads(p, x, Win32ProcListEnum, "rest", "work", "rest")
      <3>1. Leads(p, x, Ask, "work", "work", "work")
        OBVIOUS
      <3>2. x = "perfbuf" => Leads(p, x, Ask, "work", "work", "rest")
        BY ONLY <1>3, <3>1, LeadsLess
      <3>3. QED BY <1>3, <3>2, OnceSteps, FieldSteps DEF Win32ProcListEnum, PerfbufInit
    <2>4. Keeps(p, x, Win32ProcListPerf) /\ Keeps(p, x, Win32ProcListEnum)
      BY <1>8, <2>1, <2>2, <2>3
    <2>5. QED BY <1>4, <1>5, <2>2, <2>4 DEF Win32ProcList
  <1>13. Keeps(p, x, Win32CredName)
    <2>1. ASSUME NEW buf, Local(p, buf), buf # "sd"
          PROVE  \A e : /\ Leads(p, x, TokenName(buf), "rest", "rest", e)
                        /\ x # buf => Leads(p, x, TokenName(buf), "work", "work", e)
      <3>1. ASSUME x = buf, NEW e PROVE Leads(p, x, TokenName(buf), "rest", "rest", e)
        <4>1. Leads(p, x, Take(buf), "rest", "work", e)
          BY <2>1, <3>1
        <4>2. Leads(p, x, Take(buf), "rest", "any", e)
          BY ONLY <4>1, LeadsLess
        <4>3. QED BY <2>1, <3>1, <4>2 DEF TokenName
      <3>2. x # buf => \A e : /\ Leads(p, x, TokenName(buf), "rest", "rest", e)
                              /\ Leads(p, x, TokenName(buf), "work", "work", e)
        BY <2>1 DEF TokenName
      <3>3. QED BY ONLY <3>1, <3>2
    <2>2. \A e : /\ Leads(p, x, TokenName("user"), "rest", "rest", e)
                 /\ x # "user" => Leads(p, x, TokenName("user"), "work", "work", e)
                 /\ Leads(p, x, TokenName("group"), "rest", "rest", e)
                 /\ x # "group" => Leads(p, x, TokenName("group"), "work", "work", e)
      BY ONLY <1>2, <2>1
    <2>3. x = "token" => Keeps(p, x, Win32CredName)
      BY <1>2, <2>2 DEF Win32CredName
    <2>4. x = "proc" => Keeps(p, x, Win32CredName)
      BY <1>2, <2>2 DEF Win32CredName
    <2>5. x \notin {"token", "proc"} => Keeps(p, x, Win32CredName)
      BY <2>2 DEF Win32CredName
    <2>6. QED BY ONLY <2>3, <2>4, <2>5
  <1>14. Keeps(p, x, Win32ProcInfo)
    <2>1. x = "perfbuf" => Leads(p, x, PerfObject \o Loop(UseKept("perfbuf")), "rest", "work", "rest")
      BY <1>3, <1>7, FieldSteps
    <2>2. x # "perfbuf" => Passes(p, x, PerfObject \o Loop(UseKept("perfbuf")))
      BY <1>7
    <2>3. Keeps(p, x, PerfObject \o Loop(UseKept("perfbuf")))
      BY <1>8, <2>1, <2>2
    <2>4. PICK s : s = PerfObject \o Loop(UseKept("perfbuf"))
      OBVIOUS
    <2>5. Keeps(p, x, s \o Maybe(Fail))
      BY ONLY <2>3, <2>4, LeadsSeq, LeadsChoices, LeadsOfPasses, PassingSteps
         DEF Keeps, Fail, Apart
    <2>6. Win32ProcInfo = Either(<<>>, s \o Maybe(Fail))
      BY ONLY <2>4 DEF Win32ProcInfo
    <2>7. QED BY <2>5, <2>6
  <1>15. Keeps(p, x, Win32DiskUsage) /\ Keeps(p, x, Win32FsUsage)
    <2>1. PICK u : u = Maybe(Use("old_object"))
      OBVIOUS
    <2>2. /\ x # "old_object" => Passes(p, x, u)
          /\ x = "old_object" => Leads(p, x, u, "rest", "rest", "rest")
      <3>1. x # "old_object" => Passes(p, x, u)
        BY <2>1
      <3>2. x = "old_object" => Leads(p, x, Use("old_object"), "rest", "rest", "rest")
        BY ONLY <1>3, StaleSteps
      <3>3. QED BY ONLY <2>1, <3>1, <3>2, LeadsChoices
    <2>3. PICK s : s = PerfObject \o u \o Loop(UseKept("perfbuf")) \o Maybe(Fail)
      OBVIOUS
    <2>4. ASSUME x = "perfbuf" PROVE Leads(p, x, PerfObject \o Maybe(s), "rest", "rest", "rest")
      <3>1. Leads(p, x, PerfObject, "work", "work", "rest")
        BY ONLY <1>3, <1>7, <2>4, LeadsLess
      <3>2. Leads(p, x, Maybe(Fail), "work", "work", "rest")
        <4>1. Leads(p, x, Maybe(Fail), "work", "work", "work")
          BY PassingSteps
        <4>2. QED BY ONLY <1>3, <2>4, <4>1, LeadsLess
      <3>3. Leads(p, x, u, "work", "work", "rest")
        <4>1. Leads(p, x, Use("old_object"), "work", "work", "rest")
          BY ONLY <2>4, OtherSteps DEF Other
        <4>2. QED BY ONLY <2>1, <4>1, LeadsChoices
      <3>4. Leads(p, x, Loop(UseKept("perfbuf")), "work", "work", "rest")
        BY ONLY <1>3, <2>4, FieldSteps, LeadsChoices
      <3>5. Leads(p, x, Maybe(s), "work", "work", "rest")
        BY ONLY <2>3, <3>1, <3>2, <3>3, <3>4, LeadsSeq, LeadsChoices
      <3>6. Leads(p, x, PerfObject \o Maybe(s), "rest", "work", "rest")
        BY ONLY <1>7, <2>4, <3>5, LeadsSeq
      <3>7. QED BY ONLY <1>8, <2>4, <3>6
    <2>5. x \notin {"perfbuf", "old_object"} => Keeps(p, x, PerfObject \o Maybe(s))
      BY <1>7, <2>2, <2>3
    <2>6. x = "old_object" => Keeps(p, x, PerfObject \o Maybe(s))
      <3>1. x = "old_object" => Keeps(p, x, s)
        BY <1>7, <2>2, <2>3
      <3>2. QED BY <1>7, <3>1
    <2>7. Win32DiskUsage = PerfObject \o Maybe(s)
      BY ONLY <2>1, <2>3 DEF Win32DiskUsage
    <2>8. Keeps(p, x, Win32DiskUsage)
      BY ONLY <2>4, <2>5, <2>6, <2>7 DEF Keeps
    <2>9. QED BY <2>8 DEF Win32FsUsage
  <1>16. /\ Keeps(p, x, PebRead) /\ Keeps(p, x, Win32ParseArgs)
         /\ x = "proc" => Passes(p, x, PebRead \o Ask \o Win32ParseArgs) /\ Passes(p, x, PebRead)
         /\ x = "list" => Passes(p, x, PebRead) /\ Passes(p, x, Win32ParseArgs)
    BY <1>2, <1>4, <1>5 DEF PebRead, Win32ParseArgs
  <1>17. Keeps(p, x, Win32ProcArgs) /\ (x = "list" => Passes(p, x, Win32ProcArgs))
    <2>1. Keeps(p, x, Win32RemoteArgs) /\ (x = "list" => Passes(p, x, Win32RemoteArgs))
      BY <1>2, <1>16 DEF Win32RemoteArgs
    <2>2. QED BY <1>16, <2>1 DEF Win32ProcArgs
  <1>18. Keeps(p, x, Win32ProcEnv)
    <2>1. Keeps(p, x, Win32LocalEnv)
      BY <1>2 DEF Win32LocalEnv
    <2>2. Keeps(p, x, Win32RemoteEnv)
      BY <1>2, <1>16 DEF Win32RemoteEnv
    <2>3. QED BY <2>1, <2>2 DEF Win32ProcEnv
  <1>19. Keeps(p, x, Win32ProcExe)
    BY <1>2, <1>16 DEF Win32ProcExe
  <1>20. Keeps(p, x, Win32ProcModules)
    BY <1>2, <1>4, <1>5 DEF Win32ProcModules
  <1>21. Gives(p, x, Win32FsList)
    <2>1. Keeps(p, x, Dll("mpr") \o Ask)
      BY <1>4, <1>5
    <2>2. Gives(p, x, (Dll("mpr") \o Ask) \o NewList("list") \o Loop(Maybe(AddTo("list"))))
      BY <1>2, <2>1
    <2>3. QED BY <2>2 DEF Win32FsList
  <1>22. Leads(p, x, Win32CpuInfoList, "rest", IF x = "list" THEN "work" ELSE "rest",
               IF x = "list" THEN "any" ELSE "rest")
    <2>1. Keeps(p, x, Win32CpuInfo) /\ (x = "list" => Passes(p, x, Win32CpuInfo))
      BY <1>2 DEF Win32CpuInfo
    <2>2. x = "list" => Leads(p, x, Win32CpuInfo, "work", "work", "work")
      BY ONLY <2>1, LeadsOfPasses
    <2>3. x = "list" => Leads(p, x, Win32CpuInfo, "work", "work", "any")
      BY ONLY <2>2, LeadsLess
    <2>4. QED BY <1>2, <2>1, <2>3 DEF Win32CpuInfoList
  <1>23. Keeps(p, x, Win32ServicePid) /\ Keeps(p, x, Win32FileVersion)
    BY <1>2 DEF Win32ServicePid, Win32FileVersion
  <1>24. Gives(p, x, Win32WhoList)
    <2>1. \A e : /\ Leads(p, x, Win32NetSessions, "rest", "rest", e)
                 /\ x = "list" => Leads(p, x, Win32NetSessions, "work", "work", e)
      <3>1. PICK s : s = Take("sessions") \o Loop(AddTo("list")) \o Free("sessions")
        OBVIOUS
      <3>2. \A e : Leads(p, x, Loop(s), "rest", "rest", e)
        BY <1>2, <3>1
      <3>3. \A e : Leads(p, x, Loop(s), "rest", "any", e)
        BY ONLY <3>2, LeadsLess
      <3>4. x = "sessions" => \A e : Leads(p, x, Loop(s) \o FreeIf("sessions"), "rest", "rest", e)
        BY <1>2, <3>3
      <3>5. x # "sessions" => \A e : Leads(p, x, Loop(s) \o FreeIf("sessions"), "rest", "rest", e)
        BY <3>2
      <3>6. x = "list" => \A e : Leads(p, x, Loop(s) \o FreeIf("sessions"), "work", "work", e)
        BY <3>1
      <3>7. QED BY ONLY <3>1, <3>4, <3>5, <3>6 DEF Win32NetSessions
    <2>2. Keeps(p, x, Win32LogonInfo) /\ (x # "key" => Passes(p, x, Win32LogonInfo))
      BY <1>2 DEF Win32LogonInfo
    <2>3. Keeps(p, x, Win32WhoRegistry) /\ (x = "list" => Passes(p, x, Win32WhoRegistry))
      <3>1. PICK t : t = Try(Win32LogonInfo)
        OBVIOUS
      <3>2. \A e : /\ Leads(p, x, t, "rest", "rest", e)
                   /\ x # "key" => Leads(p, x, t, "work", "work", e) /\ Passes(p, x, t)
        BY <2>2, <3>1
      <3>3. PICK s : s = Loop(Maybe(Take("sid") \o Maybe(AddTo("list") \o t) \o Free("sid")))
        OBVIOUS
      <3>4. \A e : /\ Leads(p, x, s, "rest", "rest", e)
                   /\ x = "users" => Leads(p, x, s, "work", "work", e)
                   /\ x = "list" => Passes(p, x, s)
        BY <1>2, <3>2, <3>3
      <3>5. Win32WhoRegistry = ((Ask \o Open("users")) \o s) \o Free("users")
        BY ONLY <3>1, <3>3 DEF Win32WhoRegistry
      <3>6. QED BY <1>2, <3>4, <3>5
    <2>4. Keeps(p, x, Win32WhoWts) /\ (x = "list" => Passes(p, x, Win32WhoWts))
      BY <1>2, <1>4, <1>5 DEF Win32WhoWts
    <2>5. \A s : Keeps(p, x, s) /\ (x = "list" => Passes(p, x, s)) =>
            \A e : Leads(p, x, Try(s), IF x = "list" THEN "work" ELSE "rest",
                         IF x = "list" THEN "work" ELSE "rest", e)
      BY ONLY LeadsOrElse, LeadsOfPasses DEF Keeps
    <2>6. QED BY <1>2, <1>6, <2>1, <2>3, <2>4, <2>5 DEF Win32WhoList
  <1>25. Keeps(p, x, Winsock \o Ask)
    <2>1. Winsock = IfKept("winsock", <<>>, Ask \o Keep("winsock"))
      BY DEF Winsock
    <2>2. x # "winsock" => Passes(p, x, Winsock)
      BY <2>1
    <2>3. ASSUME x = "winsock" PROVE Leads(p, x, Winsock, "rest", "rest", "rest")
      <3>1. /\ Leads(p, x, Ask \o Keep("winsock"), "null", "work", "null")
            /\ Leads(p, x, <<>>, "work", "work", "rest")
        BY <1>3, <2>3, FieldSteps
      <3>2. Leads(p, x, Ask \o Keep("winsock"), "null", "work", "rest")
        BY ONLY <1>3, <2>3, <3>1, LeadsLess
      <3>3. Leads(p, x, Winsock, "rest", "work", "rest")
        BY ONLY <1>3, <2>1, <2>3, <3>1, <3>2, LeadsIfKept
      <3>4. QED BY ONLY <1>3, <2>3, <3>3, LeadsLess
    <2>4. QED BY <2>2, <2>3
  <1>26. Keeps(p, x, Dll("ntdll") \o PerfObject \o Use("unmade"))
    <2>1. Keeps(p, x, Dll("ntdll") \o PerfObject)
      BY <1>4, <1>5, <1>7
    <2>2. Keeps(p, x, Use("unmade"))
      BY <1>3, StaleSteps
    <2>3. QED BY ONLY <2>1, <2>2, LeadsSeq DEF Keeps
  <1>27. QED BY ONLY <1>7, <1>9, <1>10, <1>11, <1>12, <1>13, <1>14, <1>15, <1>17, <1>18, <1>19, <1>20,
                     <1>21, <1>22, <1>23, <1>24, <1>25, <1>26 DEF p

\* What is known of the interfaces, and the tables of connections.
LEMMA Win32NetMoves ==
    ASSUME NEW x
    PROVE  /\ Keeps("win32", x, Win32NetInfo) /\ Gives("win32", x, Win32IfList)
           /\ Keeps("win32", x, Win32IfConfig) /\ Keeps("win32", x, Win32MibIfrow)
           /\ x = "list" => Passes("win32", x, Win32IfConfig)
           /\ Gives("win32", x, Win32RouteList)
           /\ Keeps("win32", x, Win32Connections) /\ (x = "list" => Passes("win32", x, Win32Connections))
           /\ Keeps("win32", x, Dll("iphlpapi") \o Ask)
           /\ Leads("win32", x, Win32ProcPort, "rest", IF x = "table" THEN "any" ELSE "rest",
                    IF x = "table" THEN "any" ELSE "rest")
  <1> DEFINE p == "win32"
  <1> USE LeadsSeq, LeadsChoices, LeadsOrElse, LeadsOfPasses, LocalSteps, OtherSteps,
          PassesForms, OtherPasses, PassingSteps
      DEF Open, Ask, Fail, AddTo, Other, Apart, Nothing, Keeps, Gives
  <1>1. /\ Local(p, "list") /\ Local(p, "info") /\ Local(p, "buffer") /\ Local(p, "tcp")
        /\ Local(p, "udp") /\ Local(p, "table")
    BY Win32Names DEF Resources
  <1>2. /\ Passing(p, "ifconf_buf") /\ Field(p, "ifconf_buf")
        /\ Passing(p, "netif_mib_rows") /\ Field(p, "netif_mib_rows")
        /\ Passing(p, "netif_addr_rows") /\ Field(p, "netif_addr_rows")
        /\ Passing(p, "netif_names") /\ Field(p, "netif_names")
    BY Win32Names DEF Win32Netif
  <1>3. PICK iphlpapi : iphlpapi = "iphlpapi"
    OBVIOUS
  <1>4. /\ x # iphlpapi => Passes(p, x, Dll(iphlpapi))
        /\ \A e : /\ Leads(p, x, Dll(iphlpapi), "rest", "rest", e)
                  /\ x # iphlpapi => /\ Leads(p, x, Dll(iphlpapi), "work", "work", e)
                                     /\ Leads(p, x, Dll(iphlpapi), "null", "null", e)
    BY <1>3, DllMoves DEF Win32Dlls
  <1> HIDE DEF p
  <1>5. \A s : x \in {"ifconf_buf", "netif_mib_rows", "netif_addr_rows", "netif_names"} =>
          /\ Leads(p, x, s, "rest", "work", "rest") => Leads(p, x, s, "rest", "rest", "rest")
          /\ Leads(p, x, s, "null", "work", "rest") => Leads(p, x, s, "null", "rest", "rest")
          /\ Leads(p, x, s, "rest", "work", "work") => Leads(p, x, s, "rest", "work", "rest")
          /\ Leads(p, x, s, "work", "work", "work") => Leads(p, x, s, "work", "work", "rest")
          /\ Leads(p, x, s, "work", "work", "rest") => Leads(p, x, s, "work", "rest", "rest")
          /\ Leads(p, x, s, "null", "null", "null") => Leads(p, x, s, "null", "null", "rest")
          /\ Leads(p, x, s, "rest", "work", "work") => Leads(p, x, s, "null", "work", "work")
    BY ONLY <1>2, LeadsLess
  <1>6. /\ x = "ifconf_buf" => Leads(p, x, Win32Table, "rest", "work", "rest")
        /\ x # "ifconf_buf" => Keeps(p, x, Win32Table)
        /\ x \notin {"ifconf_buf", iphlpapi} => Passes(p, x, Win32Table)
    <2>1. ASSUME x = "ifconf_buf" PROVE Leads(p, x, Win32Table, "rest", "work", "rest")
      <3>1. Leads(p, x, Ask, "work", "work", "work")
        OBVIOUS
      <3>2. Leads(p, x, Ask, "work", "work", "rest")
        BY ONLY <1>5, <2>1, <3>1
      <3>3. QED BY <1>2, <1>3, <1>4, <2>1, <3>2, OnceSteps DEF Win32Table
    <2>2. x # "ifconf_buf" => Keeps(p, x, Win32Table)
      BY <1>3, <1>4, OnceSteps DEF Win32Table
    <2>3. x \notin {"ifconf_buf", iphlpapi} => Passes(p, x, Win32Table)
      BY <1>3, <1>4, OnceSteps DEF Win32Table
    <2>4. QED BY ONLY <2>1, <2>2, <2>3
  <1>7. /\ Keeps(p, x, Win32IpAddr) /\ (x = "list" => Passes(p, x, Win32IpAddr))
    <2>1. PICK s : s = Dll("iphlpapi") \o Keep("netif_addr_rows") \o Win32Table
                         \o Loop(UseKept("ifconf_buf") \o UseKept("netif_addr_rows"))
      OBVIOUS
    <2>2. PICK i : i = IfKept("netif_addr_rows", UseKept("netif_addr_rows"), s)
      OBVIOUS
    <2>3. ASSUME x = "netif_addr_rows" PROVE Leads(p, x, i, "rest", "work", "rest")
      <3>1. Leads(p, x, Dll("iphlpapi") \o Keep("netif_addr_rows"), "null", "work", "rest")
        BY <1>2, <1>3, <1>4, <2>3, FieldSteps
      <3>2. Leads(p, x, Win32Table \o Loop(UseKept("ifconf_buf") \o UseKept("netif_addr_rows")),
                  "work", "work", "work")
        BY <1>2, <1>3, <1>6, <2>3, FieldSteps
      <3>3. Leads(p, x, Win32Table, "work", "work", "rest")
        BY ONLY <1>3, <1>5, <1>6, <2>3, LeadsOfPasses
      <3>4. Leads(p, x, s, "null", "work", "rest")
        BY <1>2, <2>1, <2>3, <3>1, <3>3, FieldSteps
      <3>5. Leads(p, x, UseKept("netif_addr_rows"), "work", "work", "rest")
        BY ONLY <1>2, <2>3, FieldSteps
      <3>6. QED BY ONLY <1>2, <2>2, <2>3, <3>4, <3>5, LeadsIfKept
    <2>4. x = "ifconf_buf" => Leads(p, x, s, "rest", "work", "rest")
      BY <1>2, <1>3, <1>4, <1>6, <2>1, FieldSteps
    <2>5. x # "netif_addr_rows" => Keeps(p, x, s)
      <3>1. x \notin {"netif_addr_rows", "ifconf_buf"} => Keeps(p, x, s)
        BY <1>3, <1>4, <1>6, <2>1
      <3>2. QED BY ONLY <1>5, <2>4, <3>1 DEF Keeps
    <2>6. x # "netif_addr_rows" => Leads(p, x, i, "rest", "rest", "rest")
      BY <2>2, <2>5
    <2>7. Leads(p, x, i, "rest", "rest", "rest")
      BY ONLY <1>5, <2>3, <2>6
    <2>8. x = "list" => Passes(p, x, s) /\ Passes(p, x, i)
      BY <1>3, <1>4, <1>6, <2>1, <2>2
    <2>9. Win32IpAddr = i \o Ask
      BY ONLY <2>1, <2>2 DEF Win32IpAddr
    <2>10. QED BY <2>7, <2>8, <2>9
  <1>8. Keeps(p, x, Win32NetInfo)
    <2>1. PICK s : s = Win32Table \o Loop(UseKept("ifconf_buf"))
      OBVIOUS
    <2>2. x = "ifconf_buf" => Leads(p, x, s, "rest", "work", "rest")
      BY <1>2, <1>6, <2>1, FieldSteps
    <2>3. x # "ifconf_buf" => Keeps(p, x, s)
      BY <1>6, <2>1
    <2>4. Keeps(p, x, s)
      BY ONLY <1>5, <2>2, <2>3 DEF Keeps
    <2>5. PICK t : t = Dll("iphlpapi") \o Ask \o Ask \o Take("info") \o AskOr({"info"})
                         \o Use("info") \o Free("info")
      OBVIOUS
    <2>6. Keeps(p, x, t)
      BY <1>1, <1>3, <1>4, <2>5 DEF Win32Dlls
    <2>7. Win32NetInfo = t \o Try(s)
      BY ONLY <2>1, <2>5 DEF Win32NetInfo
    <2>8. QED BY <2>4, <2>6, <2>7
  <1>9. /\ x \in {"netif_mib_rows", "netif_names"} => Leads(p, x, Win32IfTable, "rest", "work", "work")
        /\ x = "ifconf_buf" => Leads(p, x, Win32IfTable, "rest", "work", "rest")
        /\ x \notin {"netif_mib_rows", "netif_names", "ifconf_buf"} => Keeps(p, x, Win32IfTable)
        /\ x \notin {"netif_mib_rows", "netif_names", "ifconf_buf", iphlpapi} => Passes(p, x, Win32IfTable)
    <2>1. x \in {"netif_mib_rows", "netif_names"} => Leads(p, x, Win32IfTable, "rest", "work", "work")
      <3>1. x \in {"netif_mib_rows", "netif_names"} => Leads(p, x, Win32Table, "work", "work", "work")
        BY ONLY <1>3, <1>6, LeadsOfPasses
      <3>2. x = "netif_mib_rows" => Leads(p, x, Win32IfTable, "rest", "work", "work")
        BY <1>2, <3>1, OnceSteps DEF Win32IfTable
      <3>3. x = "netif_names" => Leads(p, x, Win32IfTable, "rest", "work", "work")
        BY <1>2, <3>1, OnceSteps DEF Win32IfTable
      <3>4. QED BY ONLY <3>2, <3>3
    <2>2. x = "ifconf_buf" => Leads(p, x, Win32IfTable, "rest", "work", "rest")
      BY <1>2, <1>6, OnceSteps, FieldSteps DEF Win32IfTable
    <2>3. x \notin {"netif_mib_rows", "netif_names", "ifconf_buf"} => Keeps(p, x, Win32IfTable)
      BY <1>6, OnceSteps DEF Win32IfTable
    <2>4. x \notin {"netif_mib_rows", "netif_names", "ifconf_buf", iphlpapi} => Passes(p, x, Win32IfTable)
      BY <1>6, OnceSteps DEF Win32IfTable
    <2>5. QED BY ONLY <2>1, <2>2, <2>3, <2>4
  <1>10. /\ x \in {"netif_mib_rows", "netif_names", "ifconf_buf"} =>
              \A e : Leads(p, x, Win32IfRow, "work", "work", e)
         /\ x \notin {"netif_mib_rows", "netif_names", "ifconf_buf"} =>
              /\ Passes(p, x, Win32IfRow)
              /\ \A e : Leads(p, x, Win32IfRow, "work", "work", e)
    <2>1. x = "netif_mib_rows" => \A e : Leads(p, x, Win32IfRow, "work", "work", e)
      BY <1>2, FieldSteps DEF Win32IfRow
    <2>2. x = "netif_names" => \A e : Leads(p, x, Win32IfRow, "work", "work", e)
      BY <1>2, FieldSteps DEF Win32IfRow
    <2>3. x = "ifconf_buf" => \A e : Leads(p, x, Win32IfRow, "work", "work", e)
      BY <1>2, FieldSteps DEF Win32IfRow
    <2>4. x \notin {"netif_mib_rows", "netif_names", "ifconf_buf"} =>
            /\ Passes(p, x, Win32IfRow)
            /\ \A e : Leads(p, x, Win32IfRow, "work", "work", e)
      BY DEF Win32IfRow
    <2>5. QED BY ONLY <2>1, <2>2, <2>3, <2>4
  <1>11. Gives(p, x, Win32IfList)
    <2>1. x \in {"netif_mib_rows", "netif_names", "ifconf_buf"} =>
            Leads(p, x, Win32IfTable, "rest", "work", "rest")
      BY ONLY <1>5, <1>9
    <2>2. x \in {"netif_mib_rows", "netif_names", "ifconf_buf"} =>
            Leads(p, x, Win32IfList, "rest", "work", "rest")
      BY <1>10, <2>1 DEF Win32IfList
    <2>3. x \notin {"netif_mib_rows", "netif_names", "ifconf_buf"} => Gives(p, x, Win32IfList)
      BY <1>1, <1>9, <1>10 DEF Win32IfList
    <2>4. QED BY ONLY <1>5, <2>2, <2>3 DEF Gives
  <1>12. PICK r : r = Win32IfTable \o Loop(Maybe(Win32IfRow))
    OBVIOUS
  <1>13. /\ x \in {"netif_mib_rows", "netif_names"} => Leads(p, x, r, "rest", "work", "work")
         /\ x = "ifconf_buf" => Leads(p, x, r, "rest", "work", "rest")
         /\ x \notin {"netif_mib_rows", "netif_names", "ifconf_buf"} => Keeps(p, x, r)
         /\ x \notin {"netif_mib_rows", "netif_names", "ifconf_buf", iphlpapi} => Passes(p, x, r)
    BY <1>9, <1>10, <1>12
  <1>14. Keeps(p, x, r)
    BY ONLY <1>5, <1>13 DEF Keeps
  <1>15. /\ Keeps(p, x, Win32MibIfrow)
         /\ x = "list" => Passes(p, x, Win32MibIfrow)
    <2>1. PICK i : i = IfKept("netif_mib_rows", <<>>, r)
      OBVIOUS
    <2>2. x = "netif_mib_rows" => Leads(p, x, i, "rest", "work", "work")
      <3>1. x = "netif_mib_rows" => Leads(p, x, r, "null", "work", "work")
        BY ONLY <1>5, <1>13
      <3>2. Leads(p, x, <<>>, "work", "work", "work")
        OBVIOUS
      <3>3. QED BY ONLY <1>2, <2>1, <3>1, <3>2, LeadsIfKept
    <2>3. x # "netif_mib_rows" => Keeps(p, x, i)
      BY <1>14, <2>1
    <2>4. Win32MibIfrow = ((i \o UseKept("netif_mib_rows")) \o Ask) \o Maybe(Ask)
      BY ONLY <1>12, <2>1 DEF Win32MibIfrow
    <2>5. x = "netif_mib_rows" => Leads(p, x, Win32MibIfrow, "rest", "work", "work")
      BY <1>2, <2>2, <2>4, FieldSteps
    <2>6. x = "netif_mib_rows" => Leads(p, x, Win32MibIfrow, "rest", "rest", "rest")
      BY ONLY <1>5, <2>5
    <2>7. x # "netif_mib_rows" => Keeps(p, x, Win32MibIfrow)
      BY <2>3, <2>4
    <2>8. x = "list" => Passes(p, x, i) /\ Passes(p, x, Win32MibIfrow)
      BY <1>3, <1>13, <2>1, <2>4
    <2>9. QED BY ONLY <2>6, <2>7, <2>8 DEF Keeps
  <1>16. Keeps(p, x, Win32IfConfig) /\ (x = "list" => Passes(p, x, Win32IfConfig))
    BY <1>7, <1>15 DEF Win32IfConfig
  <1>17. Gives(p, x, Win32RouteList)
    <2>1. PICK i : i = IfKept("netif_names", <<>>, Try(r))
      OBVIOUS
    <2>2. PICK b : b = Dll("iphlpapi") \o Ask \o Take("buffer") \o AskOr({"buffer"})
      OBVIOUS
    <2>3. PICK c : c = Loop(AddTo("list") \o UseKept("netif_names"))
      OBVIOUS
    <2>4. Win32RouteList = (((b \o i) \o NewList("list")) \o c) \o Free("buffer")
      BY ONLY <1>12, <2>1, <2>2, <2>3 DEF Win32RouteList
    <2>5. ASSUME x = "netif_names" PROVE Gives(p, x, Win32RouteList)
      <3>1. Leads(p, x, r, "null", "work", "work") /\ Leads(p, x, <<>>, "work", "work", "rest")
        BY ONLY <1>5, <1>13, <2>5, LeadsOrElse
      <3>2. Leads(p, x, Try(r), "null", "work", "rest")
        BY ONLY <3>1, LeadsOrElse
      <3>3. Leads(p, x, i, "rest", "work", "rest")
        BY ONLY <1>2, <2>1, <2>5, <3>1, <3>2, LeadsIfKept
      <3>4. Leads(p, x, b, "rest", "rest", "rest")
        BY <1>3, <1>4, <2>2, <2>5
      <3>5. Leads(p, x, c, "work", "work", "rest")
        BY <1>2, <2>3, <2>5, FieldSteps
      <3>6. Leads(p, x, Win32RouteList, "rest", "work", "rest")
        BY <2>4, <2>5, <3>3, <3>4, <3>5
      <3>7. QED BY ONLY <1>5, <2>5, <3>6 DEF Gives
    <2>6. ASSUME x # "netif_names" PROVE Gives(p, x, Win32RouteList)
      <3>1. \A e : Leads(p, x, i, "rest", "rest", e)
        BY <1>14, <2>1, <2>6
      <3>2. x = "buffer" => \A e : Leads(p, x, i, "work", "work", e)
        BY <1>3, <1>13, <2>1, <2>6
      <3>3. Leads(p, x, b, "rest", IF x = "buffer" THEN "work" ELSE "rest", "rest")
        BY <1>1, <1>3, <1>4, <2>2
      <3>4. \A e : Leads(p, x, c, "rest", "rest", e) /\ Leads(p, x, c, "work", "work", e)
        BY <2>3, <2>6
      <3>5. QED BY <1>1, <2>4, <3>1, <3>2, <3>3, <3>4
    <2>7. QED BY ONLY <2>5, <2>6
  <1>18. Keeps(p, x, Win32Connections) /\ (x = "list" => Passes(p, x, Win32Connections))
    <2>1. ASSUME NEW buf \in {"tcp", "udp"}
          PROVE  /\ Keeps(p, x, Win32ConnTable(buf))
                 /\ x = "list" => Passes(p, x, Win32ConnTable(buf))
      BY <1>1, <1>3, <1>4 DEF Win32ConnTable
    <2>2. QED BY <2>1 DEF Win32Connections
  <1>19. Keeps(p, x, Dll("iphlpapi") \o Ask)
    BY <1>3, <1>4
  <1>20. Leads(p, x, Win32ProcPort, "rest", IF x = "table" THEN "any" ELSE "rest",
               IF x = "table" THEN "any" ELSE "rest")
    <2>1. x # "table" => Keeps(p, x, Win32ProcPort)
      BY <1>3, <1>4 DEF Win32ProcPort
    <2>2. PICK b : b = Dll("iphlpapi") \o Ask \o Ask
      OBVIOUS
    <2>3. x = "table" => Leads(p, x, b, "rest", "rest", "rest")
      BY <1>3, <1>4, <2>2
    <2>4. x = "table" => Leads(p, x, b, "rest", "rest", "any")
      BY ONLY <2>3, LeadsLess
    <2>5. Leads(p, x, Maybe(Fail), "work", "work", "work")
      OBVIOUS
    <2>6. Leads(p, x, Maybe(Fail), "work", "work", "any")
      BY ONLY <2>5, LeadsLess
    <2>7. Win32ProcPort = ((b \o Take("table")) \o Loop(Use("table"))) \o Maybe(Fail)
      BY ONLY <2>2 DEF Win32ProcPort
    <2>8. x = "table" => Leads(p, x, Win32ProcPort, "rest", "work", "any")
      BY <1>1, <2>4, <2>6, <2>7
    <2>9. x = "table" => Leads(p, x, Win32ProcPort, "rest", "any", "any")
      BY ONLY <2>8, LeadsLess
    <2>10. QED BY ONLY <2>1, <2>9 DEF Keeps
  <1>21. QED BY ONLY <1>8, <1>11, <1>15, <1>16, <1>17, <1>18, <1>19, <1>20 DEF p

(***************************************************************************)
(* Solaris: the mib2 stream and its two buffers. A buffer x is followed    *)
(* with the descriptor: Pairs(x, A, B) are the values where the descriptor *)
(* has one of A and the buffer one of B.                                   *)
(***************************************************************************)
Pairs(x, A, B) == {w \in States("solaris", x) : w["sd"] \in A /\ w[x] \in B}

\* The modes of a buffer as pairs.
LEMMA PairsAre ==
    ASSUME NEW x \in {"smb", "db"}
    PROVE  /\ Tracked("solaris", x) = {"sd", x} /\ ~Alone("solaris", x) /\ x \in Kept["solaris"]
           /\ Mode("solaris", x, "rest")
                = Pairs(x, {"live"}, At("solaris", x, "rest"))
                    \cup Pairs(x, {"null"}, At("solaris", x, "rest") \ Living)
           /\ Mode("solaris", x, "gone") = Pairs(x, Values, Gone)
           /\ \A A, B : /\ Pairs(x, A, B) \subseteq States("solaris", x) /\ AreValues(Pairs(x, A, B))
                        /\ \A w \in Pairs(x, A, B) : w \in [{"sd", x} -> Values]
           /\ \A A, B, A2, B2 : A \subseteq A2 /\ B \subseteq B2 =>
                Pairs(x, A, B) \subseteq Pairs(x, A2, B2)
           /\ At("solaris", x, "rest") = IF x = "smb" THEN FieldValues ELSE {"null", "live"}
  <1>1. Tracked("solaris", x) = {"sd", x} /\ ~Alone("solaris", x)
    BY DEF Tracked, Beside, Alone
  <1>2. /\ x \in Kept["solaris"] /\ StaleBuffers["solaris"] = {"ifconf_buf", "smb"}
        /\ x \notin Lasting("solaris")
    BY DEF Kept, SolarisFields, StaleBuffers, Lasting
  <1>3. /\ At("solaris", x, "rest") = IF x = "smb" THEN FieldValues ELSE {"null", "live"}
        /\ At("solaris", x, "gone") = Gone
    BY <1>2 DEF At
  <1>4. Mode("solaris", x, "rest")
          = Pairs(x, {"live"}, At("solaris", x, "rest"))
              \cup Pairs(x, {"null"}, At("solaris", x, "rest") \ Living)
    BY <1>1 DEF Mode, Pairs
  <1>5. Mode("solaris", x, "gone") = Pairs(x, Values, Gone)
    <2>1. \A w \in States("solaris", x) : w["sd"] \in Values
      BY <1>1 DEF States
    <2>2. QED BY <1>3, <2>1 DEF Mode, Pairs
  <1>6. \A A, B : /\ Pairs(x, A, B) \subseteq States("solaris", x) /\ AreValues(Pairs(x, A, B))
                  /\ \A w \in Pairs(x, A, B) : w \in [{"sd", x} -> Values]
    <2>1. \A A, B : Pairs(x, A, B) \subseteq States("solaris", x)
      BY DEF Pairs
    <2>2. QED BY <1>1, <2>1, ModesAre DEF States
  <1>7. \A A, B, A2, B2 : A \subseteq A2 /\ B \subseteq B2 => Pairs(x, A, B) \subseteq Pairs(x, A2, B2)
    BY DEF Pairs
  <1>8. QED BY <1>1, <1>2, <1>3, <1>4, <1>5, <1>6, <1>7

\* A step on the descriptor, on the buffer, or on neither.
LEMMA PairStep ==
    ASSUME NEW x \in {"smb", "db"}, NEW do, NEW r, NEW A, NEW B, NEW A2, NEW B2, NEW exits,
           do \notin Branches \cup Ends \cup Failing \cup {"throws", "new_handle", "return"},
           \/ /\ r = "sd" /\ B \subseteq B2
              /\ \A v \in A : Ready("solaris", do, r, v) /\ Then(do, v) \in Values \cap A2
           \/ /\ r = x /\ A \subseteq A2
              /\ \A v \in B : Ready("solaris", do, r, v) /\ Then(do, v) \in Values \cap B2
           \/ r \notin {"sd", x} /\ A \subseteq A2 /\ B \subseteq B2
    PROVE  MovesIn("solaris", Step(do, r, {}, 1), Pairs(x, A, B), Pairs(x, A2, B2), exits,
                   States("solaris", x))
  <1>1. PICK st : st = [do |-> do, res |-> r, undo |-> {}, next |-> 1, fail |-> 0]
    OBVIOUS
  <1>2. ASSUME NEW w \in Pairs(x, A, B)
        PROVE  Good("solaris", st, w) /\ Turned(st, w) \in Pairs(x, A2, B2)
    <2>1. w \in [{"sd", x} -> Values] /\ w["sd"] \in A /\ w[x] \in B
      BY PairsAre DEF Pairs
    <2>2. Good("solaris", st, w)
      BY <1>1, <2>1 DEF Good
    <2>3. PICK v : v = [m \in {"sd", x} |-> IF m = r THEN Then(do, w[m]) ELSE w[m]]
      OBVIOUS
    <2>4. Turned(st, w) = v
      BY <1>1, <2>1, <2>3 DEF Turned
    <2>5. v \in [{"sd", x} -> Values] /\ v["sd"] \in A2 /\ v[x] \in B2
      BY <2>1, <2>3
    <2>6. QED BY <2>2, <2>4, <2>5, PairsAre DEF Pairs, States
  <1>3. Pairs(x, A, B) \subseteq States("solaris", x)
    BY PairsAre
  <1>4. QED BY <1>1, <1>2, <1>3, MovesStep

\* A question and a refusal.
LEMMA PairsAsked ==
    ASSUME NEW x \in {"smb", "db"}, NEW V \in SUBSET States("solaris", x), NEW e,
           V \subseteq Mode("solaris", x, e)
    PROVE  /\ MovesIn("solaris", Ask, V, V, {"error"} \X Mode("solaris", x, e), States("solaris", x))
           /\ \A b : MovesIn("solaris", Fail, V, b, {"error"} \X Mode("solaris", x, e),
                             States("solaris", x))
  <1>1. ASSUME NEW do \in {"ask", "refuse"}, NEW b, do = "ask" => V \subseteq b
        PROVE  MovesIn("solaris", Step(do, Nothing, {}, 1), V, b,
                       {"error"} \X Mode("solaris", x, e), States("solaris", x))
    <2>1. PICK st : st = [do |-> do, res |-> Nothing, undo |-> {}, next |-> 1, fail |-> 0]
      OBVIOUS
    <2>2. PICK u : u = {}
      OBVIOUS
    <2>3. ASSUME NEW w \in V
          PROVE  Good("solaris", st, w) /\ Turned(st, w) = w /\ Undone(u, w) = w
      <3>1. w \in [{"sd", x} -> Values]
        BY PairsAre DEF States
      <3>2. Turned(st, w) = w /\ Undone(u, w) = w
        BY <2>1, <2>2, <3>1 DEF Turned, Undone, Then, Taking
      <3>3. Good("solaris", st, w)
        BY <2>1, <3>1 DEF Good, CanUndo, Ready, Taking, Failing
      <3>4. QED BY <3>2, <3>3
    <2>4. do \notin Branches /\ do # "throws" /\ (do \notin Ends => do = "ask")
      BY DEF Branches, Ends
    <2>5. \A w \in V : <<"error", Undone(u, w)>> \in {"error"} \X Mode("solaris", x, e)
      BY <2>3
    <2>6. QED BY <1>1, <2>1, <2>2, <2>3, <2>4, <2>5, MovesStep
  <1>2. QED BY <1>1, StepsAreFor DEF Ask, Fail, Nothing

\* Tests of the descriptor and of the buffer.
LEMMA PairsIfKept ==
    ASSUME NEW x \in {"smb", "db"}, NEW s, NEW t, NEW b \in SUBSET States("solaris", x), NEW exits
    PROVE  /\ \A B, B2 : /\ MovesIn("solaris", s, Pairs(x, {"live"}, B), b, exits, States("solaris", x))
                         /\ MovesIn("solaris", t, Pairs(x, {"null"}, B2), b, exits, States("solaris", x))
                         => MovesIn("solaris", IfKept("sd", s, t),
                                    Pairs(x, {"live"}, B) \cup Pairs(x, {"null"}, B2), b, exits,
                                    States("solaris", x))
           /\ \A A, B : /\ B \subseteq FieldValues
                        /\ MovesIn("solaris", s, Pairs(x, A, B \ {"null"}), b, exits, States("solaris", x))
                        /\ MovesIn("solaris", t, Pairs(x, A, {"null"}), b, exits, States("solaris", x))
                        => MovesIn("solaris", IfKept(x, s, t), Pairs(x, A, B), b, exits,
                                   States("solaris", x))
           /\ \A f, A, B : /\ f \notin {"sd", x}
                           /\ MovesIn("solaris", s, Pairs(x, A, B), b, exits, States("solaris", x))
                           /\ MovesIn("solaris", t, Pairs(x, A, B), b, exits, States("solaris", x))
                        => MovesIn("solaris", IfKept(f, s, t), Pairs(x, A, B), b, exits,
                                   States("solaris", x))
  <1>1. AreValues(b) /\ b \subseteq States("solaris", x) /\ "if_kept" \in {"fork", "if_kept"}
    BY ModesAre
  <1>2. ASSUME NEW B, NEW B2,
               MovesIn("solaris", s, Pairs(x, {"live"}, B), b, exits, States("solaris", x)),
               MovesIn("solaris", t, Pairs(x, {"null"}, B2), b, exits, States("solaris", x))
        PROVE  MovesIn("solaris", IfKept("sd", s, t),
                       Pairs(x, {"live"}, B) \cup Pairs(x, {"null"}, B2), b, exits,
                       States("solaris", x))
    <2>1. PICK a : a = Pairs(x, {"live"}, B) \cup Pairs(x, {"null"}, B2)
      OBVIOUS
    <2>2. a \subseteq States("solaris", x) /\ AreValues(a)
      <3>1. a \subseteq States("solaris", x)
        BY <2>1, PairsAre
      <3>2. QED BY <3>1, ModesAre
    <2>3. \A w \in a : \/ "sd" \in DOMAIN w /\ w["sd"] = "null" /\ w \in Pairs(x, {"null"}, B2)
                       \/ "sd" \in DOMAIN w /\ w["sd"] \in FieldValues \ {"null"}
                            /\ w \in Pairs(x, {"live"}, B)
      <3>1. \A w \in a : w \in [{"sd", x} -> Values]
        BY <2>1, PairsAre
      <3>2. QED BY <2>1, <3>1 DEF Pairs, FieldValues
    <2>4. MovesIn("solaris", IfKept("sd", s, t), a, b, exits, States("solaris", x))
      BY <1>1, <1>2, <2>2, <2>3, MovesBranch DEF IfKept
    <2>5. QED BY <2>1, <2>4
  <1>3. ASSUME NEW A, NEW B, B \subseteq FieldValues,
               MovesIn("solaris", s, Pairs(x, A, B \ {"null"}), b, exits, States("solaris", x)),
               MovesIn("solaris", t, Pairs(x, A, {"null"}), b, exits, States("solaris", x))
        PROVE  MovesIn("solaris", IfKept(x, s, t), Pairs(x, A, B), b, exits, States("solaris", x))
    <2>1. Pairs(x, A, B) \subseteq States("solaris", x) /\ AreValues(Pairs(x, A, B))
      BY PairsAre
    <2>2. \A w \in Pairs(x, A, B) :
            \/ x \in DOMAIN w /\ w[x] = "null" /\ w \in Pairs(x, A, {"null"})
            \/ x \in DOMAIN w /\ w[x] \in FieldValues \ {"null"} /\ w \in Pairs(x, A, B \ {"null"})
      <3>1. \A w \in Pairs(x, A, B) : w \in [{"sd", x} -> Values]
        BY PairsAre
      <3>2. QED BY <1>3, <3>1 DEF Pairs
    <2>3. QED BY <1>1, <1>3, <2>1, <2>2, MovesBranch DEF IfKept
  <1>4. ASSUME NEW f, NEW A, NEW B, f \notin {"sd", x},
               MovesIn("solaris", s, Pairs(x, A, B), b, exits, States("solaris", x)),
               MovesIn("solaris", t, Pairs(x, A, B), b, exits, States("solaris", x))
        PROVE  MovesIn("solaris", IfKept(f, s, t), Pairs(x, A, B), b, exits, States("solaris", x))
    <2>1. Pairs(x, A, B) \subseteq States("solaris", x) /\ AreValues(Pairs(x, A, B))
      BY PairsAre
    <2>2. \A w \in Pairs(x, A, B) : f \notin DOMAIN w
      <3>1. \A w \in Pairs(x, A, B) : w \in [{"sd", x} -> Values]
        BY PairsAre
      <3>2. QED BY <1>4, <3>1
    <2>3. QED BY <1>1, <1>4, <2>1, <2>2, EitherForms
  <1>5. QED BY <1>2, <1>3, <1>4

\* Closing the stream leaves neither the descriptor nor the buffer; a message
\* from it finds both.
LEMMA Mib2Pairs ==
    ASSUME NEW x \in {"smb", "db"}
    PROVE  /\ Leads("solaris", x, SolarisCloseMib2, "rest", "rest", "rest")
           /\ Leads("solaris", x, SolarisCloseMib2, "rest", "gone", "left")
           /\ Keeps("solaris", x, SolarisGetMib2)
  <1> DEFINE p == "solaris"
             all == States(p, x)
             on == At(p, x, "rest")
             off == At(p, x, "rest") \ Living
             exits == {"error"} \X Mode(p, x, "rest")
             Moves_(s, a, b) == MovesIn(p, s, a, b, {}, all)
             Asks_(s, a, b) == MovesIn(p, s, a, b, exits, all)
  <1>1. /\ "live" \in on /\ "null" \in off /\ on \subseteq FieldValues /\ off \subseteq on
        /\ off \subseteq Gone /\ on \subseteq Values /\ Gone \subseteq Values
        /\ x = "smb" => on = FieldValues
        /\ x = "db" => \A v \in on \ {"null"} : v = "live"
    BY PairsAre DEF FieldValues, Living, Values, Gone
  <1>2. /\ Mode(p, x, "rest") = Pairs(x, {"live"}, on) \cup Pairs(x, {"null"}, off)
        /\ Mode(p, x, "gone") = Pairs(x, Values, Gone)
        /\ \A A, B : Pairs(x, A, B) \subseteq all
        /\ \A A, B, A2, B2 : A \subseteq A2 /\ B \subseteq B2 => Pairs(x, A, B) \subseteq Pairs(x, A2, B2)
    BY PairsAre
  <1>3. Pairs(x, {"null"}, {"null"}) \subseteq Mode(p, x, "rest")
    BY <1>1, <1>2
  <1>4. x \in StaleBuffers[p] <=> x = "smb"
    BY DEF StaleBuffers
  <1>5. /\ \A v \in on \ {"null"} : Ready(p, "dispose", x, v) /\ Then("dispose", v) = "dangling"
        /\ \A v \in Gone : Ready(p, "clear", x, v) /\ Then("clear", v) = "null"
        /\ \A v \in Gone : Ready(p, "keep", x, v) /\ Then("keep", v) = "live"
        /\ x = "smb" => \A v \in FieldValues : Ready(p, "use_kept", x, v) /\ Then("use_kept", v) = v
    BY <1>1, <1>4 DEF Ready, Then, Taking, Living, Gone
  <1>6. /\ Ready(p, "dispose", "sd", "live") /\ Then("dispose", "live") = "dangling"
        /\ Ready(p, "clear", "sd", "dangling") /\ Then("clear", "dangling") = "null"
        /\ Ready(p, "keep", "sd", "null") /\ Then("keep", "null") = "live"
        /\ {"dangling", "null", "live"} \subseteq Values /\ {"dangling", "null"} \subseteq Gone
    BY DEF Ready, Then, Taking, Living, Gone, FieldValues, Values
  <1>7. \A do \in {"dispose", "clear", "keep", "use_kept"} :
          do \notin Branches \cup Ends \cup Failing \cup {"throws", "new_handle", "return"}
    BY DEF Branches, Ends, Failing
  <1>8. Moves_(Dispose("sd") \o Clear("sd"), Pairs(x, {"live"}, on), Pairs(x, {"null"}, on))
    <2>1. Moves_(Dispose("sd"), Pairs(x, {"live"}, on), Pairs(x, {"dangling"}, on))
      BY <1>6, <1>7, PairStep DEF Dispose
    <2>2. Moves_(Clear("sd"), Pairs(x, {"dangling"}, on), Pairs(x, {"null"}, on))
      BY <1>6, <1>7, PairStep DEF Clear
    <2>3. QED BY <2>1, <2>2, MovesSeq
  <1>9. \A V \in SUBSET all : Moves_(<<>>, V, V)
    BY MovesEmpty
  <1>10. ASSUME NEW f \in {"smb", "db"}, f # x, NEW B
         PROVE  Moves_(IfKept(f, Dispose(f) \o Clear(f), <<>>), Pairs(x, {"null"}, B), Pairs(x, {"null"}, B))
    <2>1. PICK V : V = Pairs(x, {"null"}, B)
      OBVIOUS
    <2>2. Moves_(Dispose(f), V, V) /\ Moves_(Clear(f), V, V)
      BY <1>7, <1>10, <2>1, PairStep DEF Dispose, Clear
    <2>3. Moves_(Dispose(f) \o Clear(f), V, V)
      BY <2>2, MovesSeq
    <2>4. V \in SUBSET all
      BY <1>2, <2>1
    <2>5. QED BY <1>9, <1>10, <2>1, <2>3, <2>4, PairsIfKept
  <1>11. Moves_(IfKept(x, Dispose(x) \o Clear(x), <<>>), Pairs(x, {"null"}, on), Pairs(x, {"null"}, {"null"}))
    <2>1. Moves_(Dispose(x), Pairs(x, {"null"}, on \ {"null"}), Pairs(x, {"null"}, {"dangling"}))
      BY <1>5, <1>6, <1>7, PairStep DEF Dispose
    <2>2. Moves_(Clear(x), Pairs(x, {"null"}, {"dangling"}), Pairs(x, {"null"}, {"null"}))
      BY <1>5, <1>6, <1>7, PairStep DEF Clear
    <2>3. Moves_(Dispose(x) \o Clear(x), Pairs(x, {"null"}, on \ {"null"}), Pairs(x, {"null"}, {"null"}))
      BY <2>1, <2>2, MovesSeq
    <2>4. Pairs(x, {"null"}, {"null"}) \in SUBSET all
      BY <1>2
    <2>5. QED BY <1>1, <1>9, <2>3, <2>4, PairsIfKept
  <1>12. Moves_(SolarisCloseMib2, Pairs(x, {"live"}, on) \cup Pairs(x, {"null"}, off), Pairs(x, {"null"}, off))
    <2>1. PICK D : D = Dispose("sd") \o Clear("sd")
      OBVIOUS
    <2>2. PICK E : E = IfKept("db", Dispose("db") \o Clear("db"), <<>>)
      OBVIOUS
    <2>3. PICK F : F = IfKept("smb", Dispose("smb") \o Clear("smb"), <<>>)
      OBVIOUS
    <2>4. Moves_(D, Pairs(x, {"live"}, on), Pairs(x, {"null"}, on))
      BY <1>8, <2>1
    <2>5. x = "db" => /\ Moves_(E, Pairs(x, {"null"}, on), Pairs(x, {"null"}, {"null"}))
                      /\ Moves_(F, Pairs(x, {"null"}, {"null"}), Pairs(x, {"null"}, {"null"}))
      BY <1>10, <1>11, <2>2, <2>3
    <2>6. x = "smb" => /\ Moves_(E, Pairs(x, {"null"}, on), Pairs(x, {"null"}, on))
                       /\ Moves_(F, Pairs(x, {"null"}, on), Pairs(x, {"null"}, {"null"}))
      BY <1>10, <1>11, <2>2, <2>3
    <2>7. Moves_((D \o E) \o F, Pairs(x, {"live"}, on), Pairs(x, {"null"}, {"null"}))
      BY <2>4, <2>5, <2>6, MovesSeq
    <2>8. Moves_((D \o E) \o F, Pairs(x, {"live"}, on), Pairs(x, {"null"}, off))
      <3>1. Pairs(x, {"null"}, {"null"}) \subseteq Pairs(x, {"null"}, off)
        BY <1>1, <1>2
      <3>2. QED BY <2>7, <3>1, MovesWeaker
    <2>9. Pairs(x, {"null"}, off) \in SUBSET all
      BY <1>2
    <2>10. Moves_(IfKept("sd", (D \o E) \o F, <<>>),
                  Pairs(x, {"live"}, on) \cup Pairs(x, {"null"}, off), Pairs(x, {"null"}, off))
      BY <1>9, <2>8, <2>9, PairsIfKept
    <2>11. SolarisCloseMib2 = IfKept("sd", (D \o E) \o F, <<>>)
      BY <2>1, <2>2, <2>3 DEF SolarisCloseMib2
    <2>12. QED BY <2>10, <2>11
  <1>13. /\ Leads(p, x, SolarisCloseMib2, "rest", "rest", "rest")
         /\ Leads(p, x, SolarisCloseMib2, "rest", "gone", "left")
    <2>1. /\ Pairs(x, {"null"}, off) \subseteq Mode(p, x, "rest")
          /\ Pairs(x, {"null"}, off) \subseteq Mode(p, x, "gone")
      BY <1>1, <1>2, <1>6
    <2>2. \A m : {} \subseteq {"error"} \X Mode(p, x, m)
      OBVIOUS
    <2>3. MovesIn(p, SolarisCloseMib2, Mode(p, x, "rest"), Pairs(x, {"null"}, off), {}, all)
      BY <1>2, <1>12
    <2>4. MovesIn(p, SolarisCloseMib2, Mode(p, x, "rest"), Mode(p, x, "rest"),
                  {"error"} \X Mode(p, x, "rest"), all)
      <3>1. PICK R : R = Mode(p, x, "rest")
        OBVIOUS
      <3>2. PICK E : E = {"error"} \X Mode(p, x, "rest")
        OBVIOUS
      <3>3. Pairs(x, {"null"}, off) \subseteq R /\ R \subseteq R /\ {} \subseteq E
              /\ MovesIn(p, SolarisCloseMib2, R, Pairs(x, {"null"}, off), {}, all)
        BY <2>1, <2>3, <3>1
      <3>4. MovesIn(p, SolarisCloseMib2, R, R, E, all)
        BY ONLY <3>3, MovesWeaker
      <3>5. QED BY ONLY <3>1, <3>2, <3>4
    <2>5. MovesIn(p, SolarisCloseMib2, Mode(p, x, "rest"), Mode(p, x, "gone"),
                  {"error"} \X Mode(p, x, "left"), all)
      BY <2>1, <2>2, <2>3, MovesWeaker
    <2>6. QED BY <2>4, <2>5 DEF Leads
  <1>14. PICK V : V = Pairs(x, {"live"}, on)
    OBVIOUS
  <1>15. PICK W : W = Pairs(x, {"null"}, off)
    OBVIOUS
  <1>16. /\ V \in SUBSET all /\ W \in SUBSET all /\ V \subseteq Mode(p, x, "rest")
         /\ W \subseteq Mode(p, x, "rest")
         /\ Asks_(Ask, V, V) /\ Asks_(Ask, W, W) /\ Asks_(<<>>, V, V) /\ \A b : Asks_(Fail, W, b)
    <2>1. /\ V \in SUBSET all /\ W \in SUBSET all /\ V \subseteq Mode(p, x, "rest")
          /\ W \subseteq Mode(p, x, "rest")
      BY <1>2, <1>14, <1>15
    <2>2. QED BY <2>1, PairsAsked, MovesEmpty
  <1>17. Asks_(UseKept("smb"), V, V)
    BY <1>1, <1>5, <1>7, <1>14, PairStep DEF UseKept
  <1>18. Asks_(KeepOnce("db"), V, V)
    <2>1. x # "db" => Asks_(Keep("db"), V, V)
      BY <1>7, <1>14, PairStep DEF Keep
    <2>2. x = "db" => Asks_(Keep("db"), Pairs(x, {"live"}, {"null"}), V)
      BY <1>1, <1>5, <1>6, <1>7, <1>14, PairStep DEF Keep
    <2>3. Pairs(x, {"live"}, on \ {"null"}) \subseteq V
      BY <1>2, <1>14
    <2>4. Asks_(<<>>, Pairs(x, {"live"}, on \ {"null"}), V)
      BY <1>16, <2>3, MovesWeaker
    <2>5. QED BY <1>1, <1>14, <1>16, <2>1, <2>2, <2>4, PairsIfKept DEF KeepOnce
  <1>19. Asks_(SolarisOpenMib2, W, V)
    <2>1. PICK U : U = Pairs(x, {"live"}, off)
      OBVIOUS
    <2>2. U \subseteq V /\ U \in SUBSET all /\ U \subseteq Mode(p, x, "rest")
      BY <1>1, <1>2, <1>14, <1>16, <2>1
    <2>3. Asks_(Keep("sd"), W, U)
      BY <1>6, <1>7, <1>15, <2>1, PairStep DEF Keep
    <2>4. Asks_(Ask, U, U)
      BY <2>2, PairsAsked
    <2>5. Asks_(Keep("smb"), U, V)
      BY <1>1, <1>5, <1>6, <1>7, <1>14, <2>1, PairStep DEF Keep
    <2>6. QED BY <1>16, <2>3, <2>4, <2>5, MovesSeq DEF SolarisOpenMib2
  <1>20. Asks_(SolarisCloseMib2, V, W)
    <2>1. V \subseteq Pairs(x, {"live"}, on) \cup Pairs(x, {"null"}, off) /\ {} \subseteq exits
      BY <1>14
    <2>2. PICK a : a = Pairs(x, {"live"}, on) \cup Pairs(x, {"null"}, off)
      OBVIOUS
    <2>3. PICK E : E = exits
      OBVIOUS
    <2>4. MovesIn(p, SolarisCloseMib2, a, W, {}, all)
      BY <1>12, <1>15, <2>2
    <2>5. V \subseteq a /\ {} \subseteq E
      BY <2>1, <2>2
    <2>6. MovesIn(p, SolarisCloseMib2, V, W, E, all)
      BY ONLY <2>4, <2>5, MovesWeaker
    <2>7. QED BY ONLY <2>3, <2>6
  <1>21. Asks_(Maybe(SolarisCloseMib2 \o Fail), V, V)
    BY <1>16, <1>20, MovesSeq, LoopForms, ModesAre
  <1>22. PICK s : s = IfKept("sd", <<>>, SolarisOpenMib2 \o UseKept("smb") \o Ask)
    OBVIOUS
  <1>23. Asks_(s, Mode(p, x, "rest"), V)
    <2>1. PICK t : t = SolarisOpenMib2 \o UseKept("smb") \o Ask
      OBVIOUS
    <2>2. Asks_(t, W, V)
      BY ONLY <1>16, <1>17, <1>19, <2>1, MovesSeq
    <2>3. Asks_(IfKept("sd", <<>>, t), V \cup W, V)
      BY <1>14, <1>15, <1>16, <2>2, PairsIfKept
    <2>4. V \cup W = Mode(p, x, "rest")
      BY <1>2, <1>14, <1>15
    <2>5. QED BY <1>22, <2>1, <2>3, <2>4
  <1>24. Asks_(s \o UseKept("smb") \o Maybe(SolarisCloseMib2 \o Fail) \o Ask \o KeepOnce("db") \o Ask,
               Mode(p, x, "rest"), V)
    BY ONLY <1>16, <1>17, <1>18, <1>21, <1>23, MovesSeq
  <1>25. Asks_(SolarisGetMib2, Mode(p, x, "rest"), Mode(p, x, "rest"))
    <2>1. SolarisGetMib2 = s \o UseKept("smb") \o Maybe(SolarisCloseMib2 \o Fail) \o Ask
                             \o KeepOnce("db") \o Ask
      BY <1>22 DEF SolarisGetMib2
    <2>2. QED BY <1>16, <1>24, <2>1, MovesWeaker
  <1>26. QED BY <1>13, <1>25 DEF Keeps, Leads

\* The messages of the stream: what belongs to the stream, and all the rest.
LEMMA Mib2Moves ==
    ASSUME NEW x
    PROVE  /\ Keeps("solaris", x, SolarisGetMib2) /\ Keeps("solaris", x, SolarisCloseMib2)
           /\ x \in {"sd", "smb", "db"} => Leads("solaris", x, SolarisCloseMib2, "rest", "gone", "left")
           /\ x \notin {"sd", "smb", "db"} => /\ Passes("solaris", x, SolarisGetMib2)
                                              /\ Passes("solaris", x, SolarisCloseMib2)
  <1> DEFINE p == "solaris"
  <1>1. x \in {"smb", "db"} =>
          /\ Keeps(p, x, SolarisGetMib2) /\ Keeps(p, x, SolarisCloseMib2)
          /\ Leads(p, x, SolarisCloseMib2, "rest", "gone", "left")
    BY Mib2Pairs DEF Keeps
  <1>2. ASSUME x \notin {"sd", "smb", "db"}
        PROVE  Passes(p, x, SolarisGetMib2) /\ Passes(p, x, SolarisCloseMib2)
    <2>1. "sd" \notin Tracked(p, x) /\ "smb" # x /\ "db" # x
      BY <1>2 DEF Tracked, Beside
    <2>2. \A do \in {"keep", "dispose", "clear"} : Steady(p, x, Step(do, "sd", {}, 1))
      BY <2>1, SteadyStep DEF Branches, Ends, Failing
    <2>3. Passes(p, x, Keep("sd")) /\ Passes(p, x, Dispose("sd")) /\ Passes(p, x, Clear("sd"))
      BY <2>2, LeadsOfPasses DEF Keep, Dispose, Clear
    <2>4. ASSUME NEW s, NEW t, Passes(p, x, s), Passes(p, x, t)
          PROVE  Passes(p, x, IfKept("sd", s, t))
      <3>1. ASSUME NEW V \in SUBSET States(p, x)
            PROVE  MovesIn(p, IfKept("sd", s, t), V, V, {"error"} \X V, V)
        <4>1. MovesIn(p, s, V, V, {"error"} \X V, V) /\ MovesIn(p, t, V, V, {"error"} \X V, V)
          BY <2>4, <3>1 DEF Passes
        <4>2. V \subseteq V /\ AreValues(V) /\ \A w \in V : "sd" \notin DOMAIN w
          BY <2>1, <3>1, ModesAre
        <4>3. QED BY <4>1, <4>2, EitherForms
      <3>2. QED BY <3>1 DEF Passes
    <2>5. PICK D : D = IfKept("db", Dispose("db") \o Clear("db"), <<>>)
      OBVIOUS
    <2>6. PICK E : E = IfKept("smb", Dispose("smb") \o Clear("smb"), <<>>)
      OBVIOUS
    <2>7. Passes(p, x, D) /\ Passes(p, x, E)
      BY <1>2, <2>5, <2>6, PassesForms, OtherPasses DEF Other
    <2>8. Passes(p, x, SolarisCloseMib2)
      <3>1. Passes(p, x, Dispose("sd") \o Clear("sd") \o D \o E) /\ Passes(p, x, <<>>)
        BY <2>3, <2>7, PassesForms
      <3>2. QED BY <2>4, <2>5, <2>6, <3>1 DEF SolarisCloseMib2
    <2>9. Passes(p, x, Ask) /\ Passes(p, x, Fail) /\ Passes(p, x, <<>>)
      BY PassingSteps, PassesForms DEF Apart, Ask, Fail
    <2>10. /\ Passes(p, x, Keep("smb")) /\ Passes(p, x, UseKept("smb")) /\ Passes(p, x, KeepOnce("db"))
      BY <1>2, OtherPasses, OnceSteps DEF Other
    <2>11. Passes(p, x, SolarisOpenMib2)
      BY <2>3, <2>9, <2>10, PassesForms DEF SolarisOpenMib2
    <2>12. Passes(p, x, IfKept("sd", <<>>, SolarisOpenMib2 \o UseKept("smb") \o Ask))
      BY <2>4, <2>9, <2>10, <2>11, PassesForms
    <2>13. Passes(p, x, SolarisGetMib2)
      BY <2>8, <2>9, <2>10, <2>12, PassesForms DEF SolarisGetMib2
    <2>14. QED BY <2>8, <2>13
  <1>3. ASSUME x = "sd"
        PROVE  /\ Keeps(p, x, SolarisGetMib2) /\ Keeps(p, x, SolarisCloseMib2)
               /\ Leads(p, x, SolarisCloseMib2, "rest", "gone", "left")
    <2>1. Passing(p, x) /\ Field(p, x) /\ Alone(p, x)
      BY <1>3, NamesAre DEF SolarisFields, Passing, Field
    <2>2. \A e : /\ Leads(p, x, Keep("sd"), "null", "work", e)
                 /\ Leads(p, x, Dispose("sd") \o Clear("sd"), "work", "null", e)
      BY <1>3, <2>1, FieldSteps, LeadsSeq
    <2>3. PICK D : D = IfKept("db", Dispose("db") \o Clear("db"), <<>>)
      OBVIOUS
    <2>4. PICK E : E = IfKept("smb", Dispose("smb") \o Clear("smb"), <<>>)
      OBVIOUS
    <2>5. \A e : Leads(p, x, D, "null", "null", e) /\ Leads(p, x, E, "null", "null", e)
      BY <1>3, <2>3, <2>4, OtherSteps, LeadsOrElse, LeadsSeq, LeadsChoices DEF Other
    <2>6. \A e : Leads(p, x, SolarisCloseMib2, "rest", "null", e)
      <3>1. PICK s : s = (Dispose("sd") \o Clear("sd")) \o D \o E
        OBVIOUS
      <3>2. \A e : Leads(p, x, (Dispose("sd") \o Clear("sd")) \o D, "work", "null", e)
        BY ONLY <2>2, <2>5, LeadsSeq
      <3>3. \A e : Leads(p, x, s, "work", "null", e) /\ Leads(p, x, <<>>, "null", "null", e)
        BY ONLY <2>5, <3>1, <3>2, LeadsSeq, LeadsOrElse
      <3>4. \A e : Leads(p, x, IfKept(x, s, <<>>), "rest", "null", e)
        BY ONLY <2>1, <3>3, LeadsIfKept
      <3>5. SolarisCloseMib2 = IfKept(x, s, <<>>)
        BY ONLY <1>3, <2>3, <2>4, <3>1 DEF SolarisCloseMib2
      <3>6. QED BY ONLY <3>4, <3>5
    <2>7. Keeps(p, x, SolarisCloseMib2) /\ Leads(p, x, SolarisCloseMib2, "rest", "gone", "left")
      BY ONLY <2>1, <2>6, LeadsLess DEF Keeps
    <2>8. /\ \A e : Leads(p, x, UseKept("smb"), "work", "work", e)
                   /\ Leads(p, x, Keep("smb"), "work", "work", e)
                   /\ Leads(p, x, KeepOnce("db"), "work", "work", e)
                   /\ Leads(p, x, <<>>, "work", "work", e)
      BY <1>3, OtherSteps, OnceSteps, LeadsOrElse DEF Other
    <2>9. /\ Leads(p, x, Ask, "null", "null", "null") /\ Leads(p, x, Ask, "work", "work", "work")
          /\ Leads(p, x, Fail, "null", "work", "null")
      BY PassingSteps, LeadsOfPasses, <1>3 DEF Ask, Fail, Apart
    <2>10. /\ Leads(p, x, Ask, "null", "null", "rest") /\ Leads(p, x, Ask, "work", "work", "rest")
           /\ Leads(p, x, Fail, "null", "work", "rest")
      BY ONLY <2>1, <2>9, LeadsLess
    <2>11. Leads(p, x, SolarisOpenMib2, "null", "work", "rest")
      BY ONLY <2>2, <2>8, <2>10, LeadsSeq DEF SolarisOpenMib2
    <2>12. PICK t : t = SolarisOpenMib2 \o UseKept("smb") \o Ask
      OBVIOUS
    <2>13. Leads(p, x, IfKept(x, <<>>, t), "rest", "work", "rest")
      <3>1. Leads(p, x, t, "null", "work", "rest")
        BY ONLY <2>8, <2>10, <2>11, <2>12, LeadsSeq
      <3>2. QED BY ONLY <2>1, <2>8, <3>1, LeadsIfKept
    <2>14. Leads(p, x, Maybe(SolarisCloseMib2 \o Fail), "work", "work", "rest")
      <3>1. Leads(p, x, SolarisCloseMib2, "work", "null", "rest")
        BY ONLY <2>1, <2>6, LeadsLess
      <3>2. Leads(p, x, SolarisCloseMib2 \o Fail, "work", "work", "rest")
        BY ONLY <2>10, <3>1, LeadsSeq
      <3>3. QED BY ONLY <3>2, LeadsChoices
    <2>15. Leads(p, x, IfKept(x, <<>>, t) \o UseKept("smb") \o Maybe(SolarisCloseMib2 \o Fail)
                         \o Ask \o KeepOnce("db") \o Ask, "rest", "work", "rest")
      BY ONLY <2>8, <2>10, <2>13, <2>14, LeadsSeq
    <2>16. Leads(p, x, SolarisGetMib2, "rest", "work", "rest")
      BY ONLY <1>3, <2>12, <2>15 DEF SolarisGetMib2
    <2>17. Keeps(p, x, SolarisGetMib2)
      BY ONLY <2>1, <2>16, LeadsLess DEF Keeps
    <2>18. QED BY <2>7, <2>17
  <1>4. QED BY <1>1, <1>2, <1>3, LeadsOfPasses DEF Keeps

\* kstat, /proc and libproc.
LEMMA SolarisProcMoves ==
    ASSUME NEW x
    PROVE  /\ Keeps("solaris", x, SolarisKstatUpdate)
           /\ x \notin {"kc", "ks_cpu"} => Passes("solaris", x, SolarisKstatUpdate)
           /\ Gives("solaris", x, SolarisCpuList) /\ Gives("solaris", x, SolarisCpuInfoList)
           /\ Keeps("solaris", x, SolarisSwap) /\ Keeps("solaris", x, SolarisCpu)
           /\ Keeps("solaris", x, SolarisIfStat) /\ Keeps("solaris", x, SolarisNfs)
           /\ Keeps("solaris", x, SolarisProcArgs) /\ (x = "list" => Passes("solaris", x, SolarisProcArgs))
           /\ Keeps("solaris", x, SolarisProcEnv) /\ Keeps("solaris", x, SolarisPsinfo)
           /\ Keeps("solaris", x, SolarisProcExe) /\ Keeps("solaris", x, SolarisProcModules)
           /\ Keeps("solaris", x, SolarisProcPort)
  <1> DEFINE p == "solaris"
  <1> USE LeadsSeq, LeadsChoices, LeadsOrElse, LeadsWithin, LeadsOfPasses, LocalSteps, OtherSteps,
          PassesForms, OtherPasses, PassingSteps
      DEF Open, Ask, Fail, AddTo, Other, Apart, Nothing, Keeps, Gives
  <1>1. p \in Platforms
    BY DEF Platforms
  <1>2. /\ Local(p, "fd") /\ Local(p, "fp") /\ Local(p, "dirp") /\ Local(p, "list")
        /\ Local(p, "chips") /\ Local(p, "stab") /\ Local(p, "phandle") /\ Local(p, "argvp")
        /\ Local(p, "pipe") /\ Local(p, "agent")
    BY <1>1, NamesAre DEF Resources
  <1>3. /\ Passing(p, "ks_cpu") /\ Field(p, "ks_cpu") /\ Passing(p, "pinfo") /\ Field(p, "pinfo")
        /\ Passing(p, "cpulist") /\ Field(p, "cpulist") /\ Passing(p, "plib") /\ Field(p, "plib")
        /\ Passing(p, "pargs") /\ Field(p, "pargs") /\ Field(p, "kc") /\ "kc" \in Lasting(p)
    BY <1>1, NamesAre DEF SolarisFields, Passing
  <1>4. "cpulist" \notin StaleBuffers[p]
    BY DEF StaleBuffers
  <1>5. Safe(SolarisChips)
    BY SafeSteps, SafeForms DEF SolarisChips
  <1>6. /\ Keeps(p, x, DlinfoModules) /\ Keeps(p, x, ProcfsList) /\ (x # "dirp" => Passes(p, x, ProcfsList))
    BY <1>1, CommonMoves
  <1> HIDE DEF p
  <1>7. Keeps(p, x, SolarisKstatUpdate) /\ (x \notin {"kc", "ks_cpu"} => Passes(p, x, SolarisKstatUpdate))
    <2>1. x # "ks_cpu" => Passes(p, x, SolarisGetKstats)
      BY DEF SolarisGetKstats
    <2>2. x = "ks_cpu" => Leads(p, x, SolarisGetKstats, "rest", "rest", "rest")
      <3>1. ASSUME x = "ks_cpu"
            PROVE  Leads(p, x, SolarisGetKstats, "rest", "rest", "rest")
        <4>1. \A e : Leads(p, x, KeepOnce("ks_cpu"), "rest", "work", e)
          BY ONLY <1>3, <3>1, OnceSteps
        <4>2. Leads(p, x, Loop(UseKept("ks_cpu")), "work", "work", "rest")
          BY <1>3, <3>1, FieldSteps
        <4>3. Leads(p, x, KeepOnce("ks_cpu") \o Loop(UseKept("ks_cpu")), "rest", "work", "rest")
          BY ONLY <4>1, <4>2, LeadsSeq
        <4>4. Leads(p, x, SolarisGetKstats, "rest", "work", "rest")
          BY ONLY <4>3 DEF SolarisGetKstats, KeepOnce
        <4>5. QED BY ONLY <1>3, <3>1, <4>4, LeadsLess
      <3>2. QED BY ONLY <3>1
    <2>3. x = "kc" => Leads(p, x, UseKept("kc"), "rest", "rest", "rest")
      <3>1. x = "kc" => Leads(p, x, UseKept("kc"), "work", "work", "rest")
        BY <1>3, FieldSteps
      <3>2. QED BY ONLY <1>3, <3>1, LeadsLess
    <2>4. x = "kc" => Keeps(p, x, SolarisKstatUpdate)
      BY <2>1, <2>3 DEF SolarisKstatUpdate
    <2>5. x # "kc" => Keeps(p, x, SolarisKstatUpdate)
      BY <2>1, <2>2 DEF SolarisKstatUpdate
    <2>6. x \notin {"kc", "ks_cpu"} => Passes(p, x, SolarisKstatUpdate)
      BY <2>1 DEF SolarisKstatUpdate
    <2>7. QED BY ONLY <2>4, <2>5, <2>6
  <1>8. Keeps(p, x, SolarisSwap) /\ Keeps(p, x, SolarisIfStat) /\ Keeps(p, x, SolarisNfs)
    BY <1>2, <1>7 DEF SolarisSwap, SolarisIfStat, SolarisNfs
  <1>9. Keeps(p, x, SolarisChips) /\ (x # "chips" => Passes(p, x, SolarisChips))
    BY <1>2 DEF SolarisChips
  <1>10. Gives(p, x, SolarisCpuList) /\ Gives(p, x, SolarisCpuInfoList)
    <2>1. Leads(p, x, Ask, "rest", "rest", "rest")
            /\ (x # "list" => Leads(p, x, NewList("list"), "rest", "rest", "rest"))
            /\ (x = "list" => Leads(p, x, NewList("list"), "rest", "work", "rest"))
      BY <1>2, OtherSteps
    <2>2. x = "list" => Leads(p, x, SolarisChips, "work", "work", "rest")
      BY <1>2 DEF SolarisChips
    <2>3. Gives(p, x, SolarisCpuList)
      <3>1. PICK K : K = SolarisKstatUpdate
        OBVIOUS
      <3>2. x = "list" => Leads(p, x, K \o NewList("list") \o SolarisChips, "rest", "work", "rest")
        BY ONLY <1>7, <2>1, <2>2, <3>1, LeadsSeq DEF Keeps
      <3>3. x # "list" => Leads(p, x, K \o NewList("list") \o SolarisChips, "rest", "rest", "rest")
        BY ONLY <1>7, <1>9, <2>1, <3>1, LeadsSeq DEF Keeps
      <3>4. QED BY ONLY <3>1, <3>2, <3>3 DEF SolarisCpuList, Gives
    <2>4. Gives(p, x, SolarisCpuInfoList)
      <3>1. PICK K : K = SolarisKstatUpdate \o Ask
        OBVIOUS
      <3>2. Leads(p, x, K, "rest", "rest", "rest")
        BY ONLY <1>7, <2>1, <3>1, LeadsSeq DEF Keeps
      <3>3. x = "list" => Leads(p, x, K \o NewList("list") \o SolarisChips, "rest", "work", "rest")
        BY ONLY <2>1, <2>2, <3>2, LeadsSeq
      <3>4. x # "list" => Leads(p, x, K \o NewList("list") \o SolarisChips, "rest", "rest", "rest")
        BY ONLY <1>9, <2>1, <3>2, LeadsSeq DEF Keeps
      <3>5. QED BY ONLY <3>1, <3>3, <3>4 DEF SolarisCpuInfoList, Gives
    <2>5. QED BY ONLY <2>3, <2>4
  <1>11. Keeps(p, x, SolarisCpu)
    <2>1. CASE x = "cpulist"
      <3>1. Leads(p, x, OnKept("cpulist", SolarisChips), "work", "work", "work")
        BY ONLY <1>3, <1>4, <1>5, <1>9, <2>1, LeadsOnKept
      <3>2. Leads(p, x, OnKept("cpulist", SolarisChips), "work", "rest", "rest")
        BY ONLY <1>3, <2>1, <3>1, LeadsLess
      <3>3. QED BY <1>3, <1>7, <2>1, <3>2, OnceSteps DEF SolarisCpu
    <2>2. CASE x # "cpulist"
      <3>1. Leads(p, x, OnKept("cpulist", SolarisChips), "rest", "rest", "rest")
        BY ONLY <1>2, <1>5, <1>9, <2>2, LeadsOnKept DEF Keeps
      <3>2. QED BY <1>7, <2>2, <3>1, OnceSteps DEF SolarisCpu
    <2>3. QED BY ONLY <2>1, <2>2
  <1>12. /\ Keeps(p, x, SolarisInitLibproc) /\ (x # "plib" => Passes(p, x, SolarisInitLibproc))
         /\ x = "plib" => Leads(p, x, SolarisInitLibproc, "rest", "work", "rest")
    <2>1. x # "plib" => Passes(p, x, SolarisInitLibproc)
      BY DEF SolarisInitLibproc
    <2>2. ASSUME x = "plib"
          PROVE  Leads(p, x, SolarisInitLibproc, "rest", "work", "rest")
      <3>1. Leads(p, x, OrElse(Ask, Dispose("plib") \o Clear("plib") \o Fail), "work", "work", "null")
        BY <1>3, <2>2, FieldSteps
      <3>2. Leads(p, x, Ask \o Keep("plib") \o OrElse(Ask, Dispose("plib") \o Clear("plib") \o Fail),
                  "null", "work", "null")
        BY <1>3, <2>2, <3>1, FieldSteps
      <3>3. Leads(p, x, Ask \o Keep("plib") \o OrElse(Ask, Dispose("plib") \o Clear("plib") \o Fail),
                  "null", "work", "rest")
        BY ONLY <1>3, <2>2, <3>2, LeadsLess
      <3>4. Leads(p, x, <<>>, "work", "work", "rest")
        BY ONLY LeadsOrElse
      <3>5. Leads(p, x, IfKept(x, <<>>, Ask \o Keep("plib")
                                   \o OrElse(Ask, Dispose("plib") \o Clear("plib") \o Fail)),
                  "rest", "work", "rest")
        BY ONLY <1>3, <2>2, <3>3, <3>4, LeadsIfKept
      <3>6. QED BY ONLY <2>2, <3>5 DEF SolarisInitLibproc
    <2>3. x = "plib" => Leads(p, x, SolarisInitLibproc, "rest", "rest", "rest")
      BY ONLY <1>3, <2>2, LeadsLess
    <2>4. QED BY ONLY <2>1, <2>2, <2>3, LeadsOfPasses DEF Keeps
  <1>13. Keeps(p, x, SolarisPsinfo) /\ (x \notin {"pinfo", "fd"} => Passes(p, x, SolarisPsinfo))
    <2>1. x \notin {"pinfo", "fd"} => Passes(p, x, SolarisPsinfo)
      BY OnceSteps DEF SolarisPsinfo
    <2>2. x = "fd" => Keeps(p, x, SolarisPsinfo)
      BY <1>2, OnceSteps DEF SolarisPsinfo
    <2>3. ASSUME x = "pinfo"
          PROVE  Keeps(p, x, SolarisPsinfo)
      <3>1. Leads(p, x, Maybe(Open("fd") \o UseKept("pinfo") \o Free("fd") \o Ask), "work", "work", "work")
        BY <1>3, <2>3, FieldSteps
      <3>2. Leads(p, x, Maybe(Open("fd") \o UseKept("pinfo") \o Free("fd") \o Ask), "work", "rest", "rest")
        BY ONLY <1>3, <2>3, <3>1, LeadsLess
      <3>3. QED BY <1>3, <2>3, <3>2, OnceSteps DEF SolarisPsinfo
    <2>4. QED BY ONLY <2>1, <2>2, <2>3, LeadsOfPasses DEF Keeps
  <1>14. Keeps(p, x, SolarisUcbPs) /\ (x = "list" => Passes(p, x, SolarisUcbPs))
    <2>1. x \notin {"pargs", "pipe"} => Passes(p, x, SolarisUcbPs)
      BY OnceSteps DEF SolarisUcbPs
    <2>2. x = "pipe" => Keeps(p, x, SolarisUcbPs)
      BY <1>2, OnceSteps DEF SolarisUcbPs
    <2>3. ASSUME x = "pargs"
          PROVE  Keeps(p, x, SolarisUcbPs)
      <3>1. PICK s : s = Maybe(Open("pipe") \o Maybe(UseKept("pargs")) \o Free("pipe") \o Ask)
        OBVIOUS
      <3>2. Leads(p, x, s, "work", "work", "work")
        BY <1>3, <2>3, <3>1, FieldSteps
      <3>3. Leads(p, x, s, "work", "work", "rest")
        BY ONLY <1>3, <2>3, <3>2, LeadsLess
      <3>4. Leads(p, x, KeepOnce("pargs") \o Maybe(UseKept("pargs")), "rest", "work", "rest")
        BY <1>3, <2>3, FieldSteps, OnceSteps
      <3>5. Leads(p, x, Loop(AddTo("list")), "work", "work", "rest")
        OBVIOUS
      <3>6. Leads(p, x, (KeepOnce("pargs") \o Maybe(UseKept("pargs"))) \o s \o Loop(AddTo("list")),
                  "rest", "work", "rest")
        BY ONLY <3>3, <3>4, <3>5, LeadsSeq
      <3>7. Leads(p, x, SolarisUcbPs, "rest", "work", "rest")
        BY ONLY <3>1, <3>6 DEF SolarisUcbPs
      <3>8. QED BY ONLY <1>3, <2>3, <3>7, LeadsLess DEF Keeps
    <2>4. QED BY ONLY <2>1, <2>2, <2>3, LeadsOfPasses DEF Keeps
  <1>15. Keeps(p, x, SolarisReadArgs) /\ (x = "list" => Passes(p, x, SolarisReadArgs))
    <2>1. x \notin {"fd", "argvp"} => Passes(p, x, SolarisReadArgs)
      BY DEF SolarisReadArgs
    <2>2. x = "fd" => Keeps(p, x, SolarisReadArgs)
      BY <1>2 DEF SolarisReadArgs
    <2>3. ASSUME x = "argvp"
          PROVE  Keeps(p, x, SolarisReadArgs)
      <3>1. Leads(p, x, Maybe(Take("argvp")), "rest", "any", "rest")
        <4>1. Leads(p, x, Take("argvp"), "rest", "any", "rest")
          <5>1. Leads(p, x, Take("argvp"), "rest", "work", "rest")
            BY <1>2, <2>3
          <5>2. QED BY ONLY <5>1, LeadsLess
        <4>2. QED BY ONLY <4>1, LeadsChoices
      <3>2. Leads(p, x, Ask \o Loop(Ask \o AddTo("list")), "any", "any", "any")
        BY <2>3
      <3>3. Leads(p, x, Free("fd") \o FreeIf("argvp") \o Fail, "any", "any", "rest")
        <4>1. Leads(p, x, Free("fd") \o FreeIf("argvp"), "any", "rest", "rest")
          BY <1>2, <2>3
        <4>2. Leads(p, x, Fail, "rest", "any", "rest")
          BY <2>3
        <4>3. QED BY ONLY <4>1, <4>2, LeadsSeq
      <3>4. Leads(p, x, OrElse(Ask \o Loop(Ask \o AddTo("list")), Free("fd") \o FreeIf("argvp") \o Fail),
                  "any", "any", "rest")
        BY ONLY <3>2, <3>3, LeadsOrElse
      <3>5. Leads(p, x, FreeIf("argvp"), "any", "rest", "rest") /\ Leads(p, x, Free("fd"), "rest", "rest", "rest")
              /\ Leads(p, x, Take("fd"), "rest", "rest", "rest")
        BY <1>2, <2>3
      <3>6. QED BY ONLY <3>1, <3>4, <3>5, LeadsSeq DEF SolarisReadArgs, Keeps
    <2>4. QED BY ONLY <2>1, <2>2, <2>3, LeadsOfPasses DEF Keeps
  <1>16. Keeps(p, x, SolarisProcArgs) /\ (x = "list" => Passes(p, x, SolarisProcArgs))
    BY <1>13, <1>14, <1>15 DEF SolarisProcArgs
  <1>17. Keeps(p, x, SolarisProcEnv)
    BY <1>2, <1>13 DEF SolarisProcEnv
  <1>18. Keeps(p, x, SolarisPgrab({}) \o Use("phandle") \o Free("phandle"))
           /\ (x # "phandle" => Passes(p, x, SolarisPgrab({}) \o Use("phandle") \o Free("phandle")))
    BY <1>2 DEF SolarisPgrab
  <1>19. Keeps(p, x, SolarisProcExe)
    <2>1. PICK s : s = SolarisPgrab({}) \o Use("phandle") \o Free("phandle")
      OBVIOUS
    <2>2. Keeps(p, x, s) /\ (x # "phandle" => Passes(p, x, s))
      BY <1>18, <2>1
    <2>3. x # "plib" => Keeps(p, x, SolarisInitLibproc \o Maybe(Try(s)) \o UseKept("plib"))
      BY <1>12, <2>2
    <2>4. x = "plib" => Keeps(p, x, SolarisInitLibproc \o Maybe(Try(s)) \o UseKept("plib"))
      <3>1. x = "plib" => /\ Leads(p, x, Maybe(Try(s)), "work", "work", "rest")
                          /\ Leads(p, x, UseKept("plib"), "work", "work", "rest")
        BY <1>3, <2>2, FieldSteps
      <3>2. x = "plib" => Leads(p, x, SolarisInitLibproc \o Maybe(Try(s)) \o UseKept("plib"), "rest", "work", "rest")
        BY ONLY <1>12, <3>1, LeadsSeq
      <3>3. QED BY ONLY <1>3, <3>2, LeadsLess DEF Keeps
    <2>5. QED BY <2>1, <2>3, <2>4 DEF SolarisProcExe
  <1>20. Keeps(p, x, SolarisProcModules)
    <2>1. x = "fd" => Keeps(p, x, SolarisPgrabModules)
      BY <1>2, <1>12 DEF SolarisPgrabModules, SolarisPgrab
    <2>2. x = "phandle" => Keeps(p, x, SolarisPgrabModules)
      BY <1>2, <1>12 DEF SolarisPgrabModules, SolarisPgrab
    <2>3. x \notin {"fd", "phandle"} => Keeps(p, x, SolarisPgrabModules)
      BY <1>12 DEF SolarisPgrabModules, SolarisPgrab
    <2>4. QED BY <1>6, <2>1, <2>2, <2>3 DEF SolarisProcModules
  <1>21. Keeps(p, x, SolarisProcPort)
    <2>1. PICK s : s = Try(SolarisPgrab({}) \o Maybe(Take("agent") \o Try(SolarisFindPort) \o Free("agent"))
                             \o Free("phandle"))
      OBVIOUS
    <2>2. Keeps(p, x, SolarisFindPort) /\ (x # "dirp" => Passes(p, x, SolarisFindPort))
      BY <1>2 DEF SolarisFindPort
    <2>3. Keeps(p, x, s) /\ (x = "list" => Leads(p, x, s, "work", "work", "rest"))
      <3>1. x = "phandle" => Keeps(p, x, s)
        BY <1>2, <2>1, <2>2 DEF SolarisPgrab
      <3>2. x = "agent" => Keeps(p, x, s)
        BY <1>2, <2>1, <2>2 DEF SolarisPgrab
      <3>3. x \notin {"agent", "phandle"} => Keeps(p, x, s)
        BY <1>2, <2>1, <2>2 DEF SolarisPgrab
      <3>4. x = "list" => Leads(p, x, s, "work", "work", "rest")
        BY <1>2, <2>1, <2>2 DEF SolarisPgrab
      <3>5. QED BY ONLY <3>1, <3>2, <3>3, <3>4
    <2>4. SolarisProcPort = SolarisInitLibproc \o NewList("list") \o Within({"list"}, ProcfsList)
                              \o Loop(s) \o Free("list") \o Maybe(Fail)
      BY ONLY <2>1 DEF SolarisProcPort
    <2>5. x = "list" => Keeps(p, x, SolarisInitLibproc \o NewList("list") \o Within({"list"}, ProcfsList)
                              \o Loop(s) \o Free("list") \o Maybe(Fail))
      BY <1>2, <1>6, <1>12, <2>3
    <2>6. x # "list" => Keeps(p, x, SolarisInitLibproc \o NewList("list") \o Within({"list"}, ProcfsList)
                              \o Loop(s) \o Free("list") \o Maybe(Fail))
      BY <1>2, <1>6, <1>12, <2>3
    <2>7. QED BY ONLY <2>4, <2>5, <2>6
  <1>22. QED BY ONLY <1>7, <1>8, <1>10, <1>11, <1>13, <1>16, <1>17, <1>19, <1>20, <1>21 DEF p

\* File systems and the mib2 stream: a walk over routes that ends with an error
\* leaves the list.
LEMMA SolarisMoves ==
    ASSUME NEW x
    PROVE  /\ Gives("solaris", x, SolarisFsList)
           /\ Keeps("solaris", x, SolarisDiskUsage) /\ Keeps("solaris", x, SolarisFsUsage)
           /\ Leads("solaris", x, SolarisRouteList, "rest", IF x = "list" THEN "work" ELSE "rest",
                    IF x = "list" THEN "any" ELSE "rest")
           /\ Leads("solaris", x, NetInfo(SolarisRouteList), "rest",
                    IF x = "list" THEN "any" ELSE "rest", "rest")
           /\ Keeps("solaris", x, SolarisTcp) /\ Keeps("solaris", x, SolarisConnections)
           /\ x = "list" => Passes("solaris", x, SolarisConnections)
  <1> DEFINE p == "solaris"
  <1> USE LeadsSeq, LeadsChoices, LeadsOrElse, LeadsWithin, LeadsOfPasses, LocalSteps, OtherSteps,
          PassesForms, OtherPasses, PassingSteps
      DEF Open, Ask, Fail, AddTo, Other, Apart, Nothing, Keeps, Gives
  <1>1. p \in Platforms
    BY DEF Platforms
  <1>2. Local(p, "fp") /\ Local(p, "list") /\ Local(p, "fslist") /\ Local(p, "mapping")
    BY <1>1, NamesAre DEF Resources
  <1>3. /\ Passing(p, "fsdev") /\ Field(p, "fsdev") /\ Field(p, "kc") /\ "kc" \in Lasting(p)
    BY <1>1, NamesAre DEF CommonPassing, CommonFields, Passing
  <1>4. /\ Keeps(p, x, SolarisGetMib2) /\ Keeps(p, x, SolarisCloseMib2)
        /\ x = "list" => Passes(p, x, SolarisGetMib2) /\ Passes(p, x, SolarisCloseMib2)
    BY Mib2Moves
  <1>5. Keeps(p, x, SolarisKstatUpdate) /\ (x = "fsdev" => Passes(p, x, SolarisKstatUpdate))
    BY SolarisProcMoves
  <1> HIDE DEF p
  <1>6. Gives(p, x, SolarisFsList)
    BY <1>2 DEF SolarisFsList
  <1>7. Keeps(p, x, SolarisTcp) /\ Keeps(p, x, SolarisConnections)
          /\ (x = "list" => Passes(p, x, SolarisConnections))
    BY <1>4 DEF SolarisTcp, SolarisConnections
  <1>8. Leads(p, x, SolarisRouteList, "rest", IF x = "list" THEN "work" ELSE "rest",
              IF x = "list" THEN "any" ELSE "rest")
    <2>1. x # "list" => Leads(p, x, SolarisRouteList, "rest", "rest", "rest")
      BY <1>4 DEF SolarisRouteList
    <2>2. x = "list" => Leads(p, x, SolarisRouteList, "rest", "work", "any")
      <3>1. PICK s : s = OrElse(Loop(SolarisGetMib2 \o Loop(Maybe(AddTo("list")))) \o Fail,
                                SolarisCloseMib2 \o Maybe(Fail))
        OBVIOUS
      <3>2. x = "list" => Passes(p, x, s)
        BY <1>4, <3>1
      <3>3. x = "list" => Leads(p, x, s, "work", "work", "any") /\ Leads(p, x, NewList("list"), "rest", "work", "any")
        BY <1>2, <3>2, LeadsLess
      <3>4. QED BY ONLY <3>1, <3>3, LeadsSeq DEF SolarisRouteList
    <2>3. QED BY ONLY <2>1, <2>2
  <1>9. Leads(p, x, NetInfo(SolarisRouteList), "rest", IF x = "list" THEN "any" ELSE "rest", "rest")
    <2>1. Leads(p, x, Try(Open("fp") \o Free("fp")), "rest", "rest", "rest")
      BY <1>2
    <2>2. x # "list" => Leads(p, x, NetInfo(SolarisRouteList), "rest", "rest", "rest")
      BY <1>8, <2>1 DEF NetInfo, DefaultGateway
    <2>3. x = "list" => Leads(p, x, NetInfo(SolarisRouteList), "rest", "any", "rest")
      <3>1. x = "list" => Leads(p, x, Free("list"), "work", "rest", "any")
        BY <1>2
      <3>2. x = "list" => Leads(p, x, DefaultGateway(SolarisRouteList), "rest", "any", "any")
        BY ONLY <1>8, <3>1, LeadsSeq, LeadsLess DEF DefaultGateway
      <3>3. x = "list" => Leads(p, x, Try(DefaultGateway(SolarisRouteList)), "rest", "any", "rest")
        BY ONLY <3>2, LeadsOrElse
      <3>4. QED BY ONLY <2>1, <3>3, LeadsSeq DEF NetInfo
    <2>4. QED BY ONLY <2>2, <2>3
  <1>10. Keeps(p, x, SolarisKstatDisk) /\ (x = "fsdev" => Passes(p, x, SolarisKstatDisk))
    <2>1. x = "kc" => Leads(p, x, Loop(UseKept("kc")), "work", "work", "rest")
      BY <1>3, FieldSteps
    <2>2. x = "kc" => Leads(p, x, Loop(UseKept("kc")), "rest", "rest", "rest")
      BY ONLY <1>3, <2>1, LeadsLess
    <2>3. Keeps(p, x, SolarisKstatDisk)
      BY <1>5, <2>2 DEF SolarisKstatDisk
    <2>4. x = "fsdev" => Passes(p, x, SolarisKstatDisk)
      BY <1>5 DEF SolarisKstatDisk
    <2>5. QED BY ONLY <2>3, <2>4
  <1>11. Keeps(p, x, SolarisDiskUsage)
    <2>1. PICK s : s = Open("fp") \o NewList("fslist") \o Loop(Maybe(AddTo("fslist"))) \o Free("fp")
      OBVIOUS
    <2>2. PICK t : t = Loop(Use("mapping") \o Maybe(UseKept("fsdev")))
      OBVIOUS
    <2>3. PICK w : w = Within({"fslist"}, SolarisFsdevPaths)
      OBVIOUS
    <2>4. PICK c : c = Keep("fsdev") \o s \o w \o t \o Free("mapping") \o Free("fslist")
      OBVIOUS
    <2>5. SolarisFsdevCache = c
      BY ONLY <2>1, <2>2, <2>3, <2>4, FsListsAre DEF SolarisFsdevCache
    <2>6. x \in {"fp", "fslist", "mapping"} => Leads(p, x, Keep("fsdev"), "rest", "rest", "rest")
      OBVIOUS
    <2>7. x = "fp" => Leads(p, x, c, "rest", "rest", "rest")
      <3>1. x = "fp" => Leads(p, x, s, "rest", "rest", "rest") /\ Leads(p, x, w, "rest", "rest", "rest")
        BY <1>2, <2>1, <2>3 DEF SolarisFsdevPaths
      <3>2. x = "fp" => Leads(p, x, t, "rest", "rest", "rest")
                          /\ Leads(p, x, Free("mapping"), "rest", "rest", "rest")
                          /\ Leads(p, x, Free("fslist"), "rest", "rest", "rest")
        BY <2>2
      <3>3. QED BY ONLY <2>4, <2>6, <3>1, <3>2, LeadsSeq
    <2>8. x = "fslist" => Leads(p, x, c, "rest", "rest", "rest")
      <3>1. x = "fslist" => Leads(p, x, s, "rest", "work", "rest") /\ Leads(p, x, w, "work", "work", "rest")
        BY <1>2, <2>1, <2>3 DEF SolarisFsdevPaths
      <3>2. x = "fslist" => Leads(p, x, t, "work", "work", "rest")
                              /\ Leads(p, x, Free("mapping"), "work", "work", "rest")
                              /\ Leads(p, x, Free("fslist"), "work", "rest", "rest")
        BY <1>2, <2>2
      <3>3. QED BY ONLY <2>4, <2>6, <3>1, <3>2, LeadsSeq
    <2>9. x = "mapping" => Leads(p, x, c, "rest", "rest", "rest")
      <3>1. x = "mapping" => Leads(p, x, s, "rest", "rest", "rest") /\ Leads(p, x, w, "rest", "work", "rest")
        BY <1>2, <2>1, <2>3 DEF SolarisFsdevPaths
      <3>2. x = "mapping" => Leads(p, x, t, "work", "work", "rest")
                               /\ Leads(p, x, Free("mapping"), "work", "rest", "rest")
                               /\ Leads(p, x, Free("fslist"), "rest", "rest", "rest")
        BY <1>2, <2>2
      <3>3. QED BY ONLY <2>4, <2>6, <3>1, <3>2, LeadsSeq
    <2>10. x \notin {"fp", "fslist", "mapping", "fsdev"} => Leads(p, x, c, "rest", "rest", "rest")
      <3>1. x \notin {"fp", "fslist", "mapping", "fsdev"} => Passes(p, x, w) /\ Passes(p, x, s)
        BY <2>1, <2>3 DEF SolarisFsdevPaths
      <3>2. QED BY <2>2, <2>4, <3>1
    <2>11. x = "fsdev" => Leads(p, x, c, "null", "work", "work")
      <3>1. x = "fsdev" => Passes(p, x, w) /\ Passes(p, x, s)
        BY <2>1, <2>3 DEF SolarisFsdevPaths
      <3>2. x = "fsdev" => Leads(p, x, t, "work", "work", "work")
                             /\ Leads(p, x, Keep("fsdev"), "null", "work", "work")
        BY <1>3, <2>2, FieldSteps
      <3>3. x = "fsdev" => Leads(p, x, Free("mapping"), "work", "work", "work")
                             /\ Leads(p, x, Free("fslist"), "work", "work", "work")
        OBVIOUS
      <3>4. QED BY ONLY <2>4, <3>1, <3>2, <3>3, LeadsOfPasses, LeadsSeq
    <2>12. PICK u : u = Either(Ask \o UseKept("fsdev") \o Ask \o SolarisKstatDisk,
                               SolarisKstatDisk \o UseKept("fsdev"))
      OBVIOUS
    <2>13. SolarisDiskUsage = IfKept("fsdev", <<>>, Try(c)) \o IfKept("fsdev", u, <<>>)
      BY ONLY <2>5, <2>12 DEF SolarisDiskUsage
    <2>14. x # "fsdev" => Leads(p, x, Try(c), "rest", "rest", "rest")
      BY ONLY <2>7, <2>8, <2>9, <2>10, LeadsOrElse
    <2>15. x # "fsdev" => Leads(p, x, u, "rest", "rest", "rest")
      BY <1>10, <2>12
    <2>16. x # "fsdev" => Keeps(p, x, SolarisDiskUsage)
      BY <2>13, <2>14, <2>15
    <2>17. ASSUME x = "fsdev"
           PROVE  Keeps(p, x, SolarisDiskUsage)
      <3>1. Leads(p, x, c, "null", "rest", "rest")
        BY ONLY <1>3, <2>11, <2>17, LeadsLess
      <3>2. Leads(p, x, Try(c), "null", "rest", "rest")
        BY ONLY <3>1, LeadsOrElse
      <3>3. Leads(p, x, u, "work", "work", "work")
        BY <1>3, <1>10, <2>12, <2>17, FieldSteps
      <3>4. Leads(p, x, u, "work", "rest", "rest")
        BY ONLY <1>3, <2>17, <3>3, LeadsLess
      <3>5. Leads(p, x, <<>>, "work", "rest", "rest") /\ Leads(p, x, <<>>, "null", "rest", "rest")
        BY ONLY <1>3, <2>17, LeadsOrElse, LeadsLess
      <3>6. /\ Leads(p, x, IfKept("fsdev", <<>>, Try(c)), "rest", "rest", "rest")
            /\ Leads(p, x, IfKept("fsdev", u, <<>>), "rest", "rest", "rest")
        BY ONLY <1>3, <2>17, <3>2, <3>4, <3>5, LeadsIfKept
      <3>7. QED BY ONLY <2>13, <3>6, LeadsSeq DEF Keeps
    <2>18. QED BY ONLY <2>16, <2>17
  <1>12. Keeps(p, x, SolarisFsUsage)
    BY <1>11 DEF SolarisFsUsage
  <1>13. QED BY ONLY <1>6, <1>7, <1>8, <1>9, <1>11, <1>12 DEF p

(***************************************************************************)
(* Opening and closing. A new handle makes garbage of all its fields.      *)
(***************************************************************************)
LEMMA NewHandleSteps ==
    /\ \A p, x : Local(p, x) => \A e : Leads(p, x, NewHandle, "rest", "rest", e)
    /\ \A p : Field(p, "jsigar") => \A e : Leads(p, "jsigar", NewHandle, "work", "work", e)
    /\ \A p : Field(p, "handle") => \A e : Leads(p, "handle", NewHandle, "null", "work", e)
    /\ \A p, x : Field(p, x) /\ x \notin {"jsigar", "handle"} =>
         \A e : Leads(p, x, NewHandle, "null", "gone", e)
  <1>1. ASSUME NEW p, NEW x, Alone(p, x), NEW k, NEW l, NEW e,
               \A v \in At(p, x, k) \cap Values : Renewed(x, v) \in Values \cap At(p, x, l)
        PROVE  Leads(p, x, NewHandle, k, l, e)
    <2>1. PICK st : st = [do |-> "new_handle", res |-> Nothing, undo |-> {}, next |-> 1, fail |-> 0]
      OBVIOUS
    <2>2. ASSUME NEW w \in Mode(p, x, k)
          PROVE  Good(p, st, w) /\ Turned(st, w) \in Mode(p, x, l)
      <3>1. w \in [{x} -> Values] /\ w[x] \in At(p, x, k)
        BY <1>1, <2>2 DEF Alone, Mode, States
      <3>2. Good(p, st, w)
        BY <2>1 DEF Good, Ready, Taking, Failing
      <3>3. PICK v : v = [n \in {x} |-> Renewed(n, w[n])]
        OBVIOUS
      <3>4. Turned(st, w) = v
        BY <2>1, <3>1, <3>3 DEF Turned
      <3>5. v \in [{x} -> Values] /\ v[x] \in At(p, x, l)
        BY <1>1, <3>1, <3>3
      <3>6. v \in Mode(p, x, l)
        BY <1>1, <3>5 DEF Alone, Mode, States
      <3>7. QED BY <3>2, <3>4, <3>6
    <2>3. Mode(p, x, k) \subseteq States(p, x)
      BY ModesAre
    <2>4. "new_handle" \notin Branches /\ "new_handle" \notin Failing
      BY DEF Branches, Failing
    <2>5. MovesIn(p, Step("new_handle", Nothing, {}, 1), Mode(p, x, k), Mode(p, x, l),
                  {"error"} \X Mode(p, x, e), States(p, x))
      BY <2>1, <2>2, <2>3, <2>4, MovesStep
    <2>6. QED BY <2>5, StepsAreFor DEF Leads
  <1>2. /\ {"null", "live", "garbage"} \subseteq FieldValues /\ FieldValues \subseteq Values
        /\ "garbage" \in Gone /\ "out" \in Values
    BY DEF FieldValues, Values, Gone, Living
  <1>3. ASSUME NEW p, NEW x, Local(p, x), NEW e PROVE Leads(p, x, NewHandle, "rest", "rest", e)
    <2>1. Alone(p, x) /\ At(p, x, "rest") = {"out"}
      BY <1>3, AtNames DEF Local
    <2>2. Renewed(x, "out") = "out"
      BY DEF Renewed
    <2>3. QED BY <1>1, <1>2, <2>1, <2>2
  <1>4. ASSUME NEW p, Field(p, "jsigar"), NEW e
        PROVE  Leads(p, "jsigar", NewHandle, "work", "work", e)
    <2>1. \A v : Renewed("jsigar", v) = v
      BY DEF Renewed
    <2>2. QED BY <1>1, <1>4, <2>1 DEF Field
  <1>5. ASSUME NEW p, Field(p, "handle"), NEW e
        PROVE  Leads(p, "handle", NewHandle, "null", "work", e)
    <2>1. Renewed("handle", "null") = "live"
      BY DEF Renewed
    <2>2. At(p, "handle", "null") = {"null"} /\ "live" \in At(p, "handle", "work")
      BY <1>2, <1>5 DEF At, Field
    <2>3. QED BY <1>1, <1>2, <1>5, <2>1, <2>2 DEF Field
  <1>6. ASSUME NEW p, NEW x, Field(p, x), x \notin {"jsigar", "handle"}, NEW e
        PROVE  Leads(p, x, NewHandle, "null", "gone", e)
    <2>1. Renewed(x, "null") = "garbage"
      BY <1>6 DEF Renewed
    <2>2. At(p, x, "null") = {"null"} /\ At(p, x, "gone") = Gone
      BY <1>6 DEF At, Field
    <2>3. QED BY <1>1, <1>2, <1>6, <2>1, <2>2 DEF Field
  <1>7. QED BY <1>3, <1>4, <1>5, <1>6

\* What an open that fails may leave; and modes of what is never a field.
LEMMA LeadsLeft ==
    /\ \A p, x, s, k, l : Leads(p, x, s, k, l, "gone") \/ Leads(p, x, s, k, l, "null") =>
         Leads(p, x, s, k, l, "left")
    /\ \A p, x, s, k, l, e : Field(p, x) /\ x \in LeftByOpen[p] /\ Leads(p, x, s, k, l, e) =>
         Leads(p, x, s, k, l, "left")
    /\ \A p, x, s, k, l, e : Local(p, x) =>
         /\ Leads(p, x, s, "rest", l, e) => Leads(p, x, s, "null", l, e)
         /\ Leads(p, x, s, k, "rest", e) => Leads(p, x, s, k, "gone", e)
         /\ Leads(p, x, s, k, l, "rest") =>
              Leads(p, x, s, k, l, "gone") /\ Leads(p, x, s, k, l, "left")
  <1>1. \A p, x, s, k, l, e, k2, l2, e2 :
          Leads(p, x, s, k, l, e) /\ Part(p, x, k2, k) /\ Part(p, x, l, l2) /\ Part(p, x, e, e2) =>
            Leads(p, x, s, k2, l2, e2)
    BY LeadsWeaker
  <1>2. \A p, x, k : Part(p, x, k, k)
    BY PartsAre
  <1>3. \A p, x : Part(p, x, "null", "gone") /\ Part(p, x, "gone", "left") /\ Part(p, x, "null", "left")
    BY PartsAre DEF Part
  <1>4. \A p, x, k : Field(p, x) /\ x \in LeftByOpen[p] => Part(p, x, k, "left")
    BY PartsAre DEF Field
  <1>5. \A p, x : Local(p, x) => /\ Part(p, x, "null", "rest") /\ Part(p, x, "rest", "gone")
                                 /\ Part(p, x, "rest", "left")
    BY PartsAre DEF Local
  <1>6. QED BY ONLY <1>1, <1>2, <1>3, <1>4, <1>5

\* What the part of the platform has to do of an open and of a close.
Opened(p, x, s) ==
  Leads(p, x, s, IF x = "jsigar" THEN "work" ELSE IF x \in Kept[p] THEN "null" ELSE "rest",
        IF x \in {"jsigar", "handle"} THEN "work" ELSE IF x \in CommonPassing THEN "gone" ELSE "rest",
        "left")
Closed(p, x, s) ==
  Leads(p, x, s, IF x \in CommonPassing THEN "gone" ELSE "rest",
        IF x = "jsigar" THEN "rest" ELSE Final(p, "nativeClose", "ok", x),
        Final(p, "nativeClose", "error", x))

\* A whole open is done when it leads to where it may, and so is a close.
LEMMA DoneOf ==
    /\ \A p, x, s : Field(p, x) /\ Leads(p, x, s, "null", "rest", "left") => Done(p, x, "open", s)
    /\ \A p, x, s : Local(p, x) /\ Leads(p, x, s, "rest", "rest", "left") => Done(p, x, "open", s)
    /\ \A p, x, s : Leads(p, x, s, "rest", Final(p, "nativeClose", "ok", x),
                            Final(p, "nativeClose", "error", x)) => Done(p, x, "nativeClose", s)
  <1>1. \A p, x : Final(p, "open", "ok", x) = "rest" /\ Final(p, "open", "error", x) = "left"
    BY DEF Final, Leaks
  <1>2. \A p, x : Field(p, x) => Start(p, x, "open") \subseteq Mode(p, x, "null")
    BY DEF Field, Start, Mode, At, Alone
  <1>3. \A p, x : Local(p, x) => Start(p, x, "open") \subseteq Mode(p, x, "rest")
    BY DEF Local, Start, Mode, At, Alone
  <1>4. \A p, x : Start(p, x, "nativeClose") = Mode(p, x, "rest")
    BY DEF Start
  <1>5. ASSUME NEW p, NEW x, NEW s, NEW op, NEW k, NEW l, NEW e, Leads(p, x, s, k, l, e),
               Start(p, x, op) \subseteq Mode(p, x, k), l = Final(p, op, "ok", x),
               e = Final(p, op, "error", x)
        PROVE  Done(p, x, op, s)
    <2>1. PICK T : T = {"thrown"} \X Mode(p, x, Final(p, op, "thrown", x))
      OBVIOUS
    <2>2. MovesIn(p, s, Mode(p, x, k), Mode(p, x, l), {"error"} \X Mode(p, x, e), States(p, x))
      BY <1>5 DEF Leads
    <2>3. {"error"} \X Mode(p, x, e) \subseteq ({"error"} \X Mode(p, x, e)) \cup T
      OBVIOUS
    <2>4. MovesIn(p, s, Start(p, x, op), Mode(p, x, l), ({"error"} \X Mode(p, x, e)) \cup T,
                  States(p, x))
      BY <1>5, <2>2, <2>3, MovesWeaker
    <2>5. QED BY <1>5, <2>1, <2>4 DEF Done
  <1>6. QED BY <1>1, <1>2, <1>3, <1>4, <1>5

\* The common part of an open, around that of the platform.
LEMMA OpenDone ==
    ASSUME NEW p \in Platforms, NEW x, Local(p, x) \/ Field(p, x), NEW P, Opened(p, x, P.open)
    PROVE  Done(p, x, "open", JavaOpen(P))
  <1>1. PICK c : c = Open_(P)
    OBVIOUS
  <1>2. /\ \A f \in CommonPassing : Passing(p, f) /\ Field(p, f) /\ f # "sd" /\ f # "jsigar"
        /\ CommonPassing = {"pids", "ifconf_buf", "self_path", "fsdev", "proc_cpu", "net_listen",
                            "services_tcp", "services_udp"}
        /\ Field(p, "jsigar") /\ Field(p, "handle") /\ "handle" \notin CommonPassing
        /\ "jsigar" \notin CommonPassing
    BY NamesAre DEF CommonPassing, CommonFields, Passing
  <1>3. ASSUME NEW f \in CommonPassing
        PROVE  /\ f = x => /\ Leads(p, x, Clear(f), "gone", "null", "left")
               /\ f # x => /\ Leads(p, x, Clear(f), "null", "null", "left")
                           /\ Leads(p, x, Clear(f), "gone", "gone", "left")
                           /\ Leads(p, x, Clear(f), "rest", "rest", "left")
                           /\ Leads(p, x, Clear(f), "work", "work", "left")
    BY <1>2, FieldSteps, OtherSteps DEF Other
  <1>4. CASE x \in CommonPassing
    <2>1. Leads(p, x, P.open, "null", "gone", "left")
      BY <1>2, <1>4 DEF Opened, Field
    <2>2. Leads(p, x, c, "null", "null", "left")
      BY ONLY <1>1, <1>2, <1>3, <1>4, <2>1, LeadsSeq DEF Open_
    <2>3. Leads(p, x, c, "null", "rest", "left")
      BY ONLY <1>2, <1>4, <2>2, LeadsLess
    <2>4. Leads(p, x, Keep("jsigar"), "null", "null", "left")
      BY <1>2, <1>4, OtherSteps DEF Other
    <2>5. Leads(p, x, JavaOpen(P), "null", "rest", "left")
      BY ONLY <1>1, <2>3, <2>4, LeadsSeq DEF JavaOpen
    <2>6. QED BY ONLY <1>2, <1>4, <2>5, DoneOf
  <1>5. CASE x = "jsigar"
    <2>1. Leads(p, x, P.open, "work", "work", "left")
      BY <1>5 DEF Opened
    <2>2. Leads(p, x, c, "work", "work", "left")
      BY ONLY <1>1, <1>2, <1>3, <1>5, <2>1, LeadsSeq DEF Open_
    <2>3. Leads(p, x, c, "work", "rest", "left")
      BY ONLY <1>2, <1>5, <2>2, LeadsLess
    <2>4. Leads(p, x, Keep("jsigar"), "null", "work", "left")
      BY <1>2, <1>5, FieldSteps
    <2>5. Leads(p, x, JavaOpen(P), "null", "rest", "left")
      BY ONLY <1>1, <2>3, <2>4, LeadsSeq DEF JavaOpen
    <2>6. QED BY ONLY <1>2, <1>5, <2>5, DoneOf
  <1>6. CASE x = "handle"
    <2>1. Leads(p, x, P.open, "null", "work", "left")
      BY <1>2, <1>6 DEF Opened, Field
    <2>2. Leads(p, x, c, "null", "work", "left")
      BY ONLY <1>1, <1>2, <1>3, <1>6, <2>1, LeadsSeq DEF Open_
    <2>3. Leads(p, x, c, "null", "rest", "left")
      BY ONLY <1>2, <1>6, <2>2, LeadsLess
    <2>4. Leads(p, x, Keep("jsigar"), "null", "null", "left")
      BY <1>6, OtherSteps DEF Other
    <2>5. Leads(p, x, JavaOpen(P), "null", "rest", "left")
      BY ONLY <1>1, <2>3, <2>4, LeadsSeq DEF JavaOpen
    <2>6. QED BY ONLY <1>2, <1>6, <2>5, DoneOf
  <1>7. CASE x \notin CommonPassing \cup {"jsigar", "handle"} /\ Field(p, x)
    <2>1. Leads(p, x, P.open, "null", "rest", "left")
      BY <1>7 DEF Opened, Field
    <2>2. Leads(p, x, c, "null", "rest", "left")
      BY ONLY <1>1, <1>2, <1>3, <1>7, <2>1, LeadsSeq DEF Open_
    <2>3. Leads(p, x, Keep("jsigar"), "null", "null", "left")
      BY <1>7, OtherSteps DEF Other
    <2>4. Leads(p, x, JavaOpen(P), "null", "rest", "left")
      BY ONLY <1>1, <2>2, <2>3, LeadsSeq DEF JavaOpen
    <2>5. QED BY ONLY <1>7, <2>4, DoneOf
  <1>8. CASE x \notin CommonPassing \cup {"jsigar", "handle"} /\ Local(p, x)
    <2>1. Leads(p, x, P.open, "rest", "rest", "left")
      BY <1>8 DEF Opened, Local
    <2>2. Leads(p, x, c, "rest", "rest", "left")
      BY ONLY <1>1, <1>2, <1>3, <1>8, <2>1, LeadsSeq DEF Open_
    <2>3. Leads(p, x, Keep("jsigar"), "rest", "rest", "left")
      BY <1>8, OtherSteps DEF Other
    <2>4. Leads(p, x, JavaOpen(P), "rest", "rest", "left")
      BY ONLY <1>1, <2>2, <2>3, LeadsSeq DEF JavaOpen
    <2>5. QED BY ONLY <1>8, <2>4, DoneOf
  <1>9. QED BY <1>4, <1>5, <1>6, <1>7, <1>8

\* The common part of a close.
LEMMA CloseDone ==
    ASSUME NEW p \in Platforms, NEW x, NEW P, Closed(p, x, P.close)
    PROVE  Done(p, x, "nativeClose", JavaClose(P))
  <1>1. PICK e : e = Final(p, "nativeClose", "error", x)
    OBVIOUS
  <1>2. /\ \A f \in CommonPassing : Passing(p, f) /\ Field(p, f) /\ f # "sd" /\ f # "jsigar"
        /\ CommonPassing = {"pids", "ifconf_buf", "self_path", "fsdev", "proc_cpu", "net_listen",
                            "services_tcp", "services_udp"}
        /\ Field(p, "jsigar") /\ "jsigar" \notin CommonPassing /\ "jsigar" \in Lasting(p)
    BY NamesAre DEF CommonPassing, CommonFields, Passing
  <1>3. ASSUME NEW f \in CommonPassing
        PROVE  /\ f = x => Leads(p, x, FreeKept(f), "rest", "gone", e)
               /\ f # x => /\ Leads(p, x, FreeKept(f), "gone", "gone", e)
                           /\ Leads(p, x, FreeKept(f), "rest", "rest", e)
    BY <1>2, OnceSteps DEF Other
  <1>4. PICK c : c = Close(P)
    OBVIOUS
  <1>5. \A y : Final(p, "nativeClose", "ok", y) \in {"gone", "rest"}
                /\ (y # "libproc" => Final(p, "nativeClose", "ok", y) = "gone")
    BY DEF Final, Leaks
  <1>6. CASE x \in CommonPassing
    <2>1. Leads(p, x, P.close, "gone", "gone", e) /\ Final(p, "nativeClose", "ok", x) = "gone"
      BY <1>1, <1>2, <1>5, <1>6 DEF Closed
    <2>2. Leads(p, x, c, "rest", "gone", e)
      BY ONLY <1>2, <1>3, <1>4, <1>6, <2>1, LeadsSeq DEF Close
    <2>3. Leads(p, x, Dispose("jsigar"), "gone", "gone", e)
      BY <1>2, <1>6, OtherSteps DEF Other
    <2>4. Leads(p, x, JavaClose(P), "rest", "gone", e)
      BY ONLY <1>4, <2>2, <2>3, LeadsSeq DEF JavaClose
    <2>5. QED BY <1>1, <2>1, <2>4, DoneOf
  <1>7. CASE x = "jsigar"
    <2>1. Leads(p, x, P.close, "rest", "rest", e)
      BY <1>1, <1>2, <1>7 DEF Closed
    <2>2. Leads(p, x, c, "rest", "rest", e)
      BY ONLY <1>2, <1>3, <1>4, <1>7, <2>1, LeadsSeq DEF Close
    <2>3. Leads(p, x, Dispose("jsigar"), "work", "gone", e)
      BY <1>2, <1>7, FieldSteps
    <2>4. Leads(p, x, Dispose("jsigar"), "rest", "gone", e)
      BY ONLY <1>2, <1>7, <2>3, LeadsLess
    <2>5. Leads(p, x, JavaClose(P), "rest", "gone", e)
      BY ONLY <1>4, <2>2, <2>4, LeadsSeq DEF JavaClose
    <2>6. QED BY <1>1, <1>5, <1>7, <2>5, DoneOf
  <1>8. CASE x \notin CommonPassing /\ x # "jsigar"
    <2>1. PICK l : l = Final(p, "nativeClose", "ok", x)
      OBVIOUS
    <2>2. Leads(p, x, P.close, "rest", l, e) /\ (l = "gone" \/ l = "rest")
      BY <1>1, <1>5, <1>8, <2>1 DEF Closed
    <2>3. Leads(p, x, c, "rest", l, e)
      BY ONLY <1>2, <1>3, <1>4, <1>8, <2>2, LeadsSeq DEF Close
    <2>4. Leads(p, x, Dispose("jsigar"), l, l, e)
      BY <1>8, OtherSteps DEF Other
    <2>5. Leads(p, x, JavaClose(P), "rest", l, e)
      BY ONLY <1>4, <2>2, <2>3, <2>4, LeadsSeq DEF JavaClose
    <2>6. QED BY <1>1, <2>1, <2>5, DoneOf
  <1>9. QED BY <1>6, <1>7, <1>8

(***************************************************************************)
(* The part of every platform                                              *)
(***************************************************************************)
\* What does nothing to what is followed, in an open that may fail there.
LEMMA OpenSteps ==
    ASSUME NEW p, NEW x
    PROVE  /\ \A s : Passes(p, x, s) =>
                /\ Leads(p, x, s, "gone", "gone", "left") /\ Leads(p, x, s, "null", "null", "left")
                /\ Local(p, x) => Leads(p, x, s, "rest", "rest", "left")
                /\ Field(p, x) /\ x \in LeftByOpen[p] => Leads(p, x, s, "work", "work", "left")
                /\ \A k, e : Leads(p, x, Try(s), k, k, e)
           /\ \A s : Local(p, x) /\ Keeps(p, x, s) => Leads(p, x, s, "rest", "rest", "left")
           /\ \A s : Field(p, x) /\ Leads(p, x, s, "gone", "null", "left")
                       /\ x \notin Lasting(p) => Leads(p, x, s, "gone", "rest", "left")
  BY LeadsOfPasses, LeadsLeft, LeadsOrElse, LeadsLess DEF Keeps, Passing

\* The handle itself is freed last.
LEMMA HandleSteps ==
    ASSUME NEW p \in Platforms, NEW x
    PROVE  /\ \A e : x = "handle" => Leads(p, x, Dispose("handle"), "rest", "gone", e)
           /\ \A k, e : x # "handle" => Leads(p, x, Dispose("handle"), k, k, e)
           /\ \A s, e : Local(p, x) /\ Leads(p, x, s, "rest", "rest", e) =>
                Leads(p, x, s, "rest", "gone", e)
           /\ Final(p, "nativeClose", "ok", x)
                = IF p = "darwin" /\ x = "libproc" THEN "rest" ELSE "gone"
  <1>1. \A k, e : x # "handle" => Leads(p, x, Dispose("handle"), k, k, e)
    BY OtherSteps DEF Other
  <1>2. Field(p, "handle") /\ "handle" \in Lasting(p)
    BY NamesAre
  <1>3. \A e : x = "handle" => Leads(p, x, Dispose("handle"), "work", "gone", e)
    BY <1>2, FieldSteps
  <1>4. \A e : x = "handle" => Leads(p, x, Dispose("handle"), "rest", "gone", e)
    BY ONLY <1>2, <1>3, LeadsLess
  <1>5. \A s, e : Local(p, x) /\ Leads(p, x, s, "rest", "rest", e) =>
          Leads(p, x, s, "rest", "gone", e)
    BY LeadsLeft
  <1>6. Final(p, "nativeClose", "ok", x) = IF p = "darwin" /\ x = "libproc" THEN "rest" ELSE "gone"
    BY DEF Final, Leaks
  <1>7. QED BY <1>1, <1>4, <1>5, <1>6

\* Opening and closing on Linux.
LEMMA LinuxOpens ==
    ASSUME NEW x, Local("linux", x) \/ Field("linux", x)
    PROVE  Opened("linux", x, LinuxOpen) /\ Closed("linux", x, LinuxClose)
  <1> DEFINE p == "linux"
  <1>1. p \in Platforms
    BY DEF Platforms
  <1>2. /\ Local(p, "fp") /\ Field(p, "jsigar") /\ Field(p, "handle")
        /\ \A f \in CommonPassing : Passing(p, f) /\ Field(p, f)
        /\ "jsigar" \in LeftByOpen[p] /\ "handle" \in LeftByOpen[p]
        /\ CommonPassing \cup {"jsigar", "handle"} = Kept[p]
        /\ "jsigar" \notin CommonPassing /\ "handle" \notin CommonPassing
    BY <1>1, NamesAre DEF Resources, Passing, LeftByOpen, CommonPassing, Kept, LinuxFields, CommonFields
  <1>3. PICK b : b = LinuxBootTime
    OBVIOUS
  <1>4. Leads(p, x, b, "rest", "rest", "left") \/ x # "fp"
    <2>1. CASE x = "fp"
      <3>1. Leads(p, x, Open("fp"), "rest", "work", "rest") /\ Leads(p, x, Free("fp"), "work", "rest", "rest")
        BY <1>2, <2>1, LocalSteps DEF Apart, Open
      <3>2. Keeps(p, x, b)
        BY ONLY <1>3, <3>1, LeadsSeq DEF Keeps, LinuxBootTime
      <3>3. QED BY <1>2, <2>1, <3>2, OpenSteps
    <2>2. QED BY <2>1
  <1>5. x # "fp" => Passes(p, x, b)
    BY <1>3, PassingSteps, OtherPasses, PassesForms DEF Apart, Other, Open, LinuxBootTime
  <1>6. Opened(p, x, LinuxOpen)
    <2>1. CASE Local(p, x)
      <3>1. Leads(p, x, b, "rest", "rest", "left")
        BY <1>4, <1>5, <2>1, OpenSteps
      <3>2. Leads(p, x, LinuxOpen, "rest", "rest", "left")
        BY <1>3, <2>1, <3>1, NewHandleSteps, LeadsSeq DEF LinuxOpen
      <3>3. x \notin Kept[p] /\ x # "jsigar" /\ x # "handle" /\ x \notin CommonPassing
        BY <1>2, <2>1 DEF Local
      <3>4. QED BY <3>2, <3>3 DEF Opened
    <2>2. CASE Field(p, x)
      <3>1. x # "fp" /\ x \in CommonPassing \cup {"jsigar", "handle"}
        BY <1>2, <2>2 DEF Local, Field
      <3>2. CASE x \in CommonPassing
        <4>1. Leads(p, x, b, "gone", "gone", "left") /\ Leads(p, x, NewHandle, "null", "gone", "left")
          BY <1>2, <1>5, <3>1, <3>2, OpenSteps, NewHandleSteps
        <4>2. Leads(p, x, LinuxOpen, "null", "gone", "left")
          BY <1>3, <4>1, LeadsSeq DEF LinuxOpen
        <4>3. QED BY <1>2, <3>2, <4>2 DEF Opened
      <3>3. CASE x \in {"jsigar", "handle"}
        <4>1. Leads(p, x, b, "work", "work", "left")
          BY <1>2, <1>5, <3>1, <3>3, OpenSteps
        <4>2. Leads(p, x, NewHandle, IF x = "jsigar" THEN "work" ELSE "null", "work", "left")
          BY <1>2, <3>3, NewHandleSteps
        <4>3. Leads(p, x, LinuxOpen, IF x = "jsigar" THEN "work" ELSE "null", "work", "left")
          BY <1>3, <4>1, <4>2, LeadsSeq DEF LinuxOpen
        <4>4. QED BY <1>2, <3>3, <4>3 DEF Opened
      <3>4. QED BY <3>1, <3>2, <3>3
    <2>3. QED BY <2>1, <2>2
  <1>7. Closed(p, x, LinuxClose)
    BY <1>1, <1>2, HandleSteps DEF Closed, LinuxClose, Field, Local
  <1>8. QED BY <1>6, <1>7

\* Opening and closing on AIX.
LEMMA AixOpens ==
    ASSUME NEW x, Local("aix", x) \/ Field("aix", x)
    PROVE  Opened("aix", x, AixOpen) /\ Closed("aix", x, AixClose)
  <1> DEFINE p == "aix"
  <1>1. p \in Platforms
    BY DEF Platforms
  <1>2. /\ Field(p, "jsigar") /\ Field(p, "handle") /\ Local(p, Nothing)
        /\ \A f \in CommonPassing \cup AixFields : Passing(p, f) /\ Field(p, f) /\ f # "sd"
        /\ AixFields = {"kmem", "pinfo", "cpuinfo", "diskmap"}
        /\ CommonPassing \cup AixFields \cup {"jsigar", "handle"} = Kept[p]
        /\ {"jsigar", "handle"} \cap (CommonPassing \cup AixFields) = {}
        /\ CommonPassing \cap AixFields = {} /\ "libproc" \notin Kept[p]
        /\ \A f \in CommonPassing \cup AixFields : f \notin Lasting(p)
    BY <1>1, NamesAre DEF Passing, CommonPassing, Kept, AixFields, CommonFields, Nothing, Local, Alone,
                          Tracked, Lasting
  <1> HIDE DEF p
  <1>3. PICK c : c = OrElse(Ask, Dispose("kmem") \o Clear("kmem"))
    OBVIOUS
  <1>4. PICK t : t = Try(Ask \o Keep("kmem") \o c)
    OBVIOUS
  <1>5. Passes(p, x, Ask)
    BY <1>2, PassingSteps DEF Apart, Ask, Local
  <1>7. ASSUME x = "kmem" PROVE Leads(p, x, t, "null", "rest", "left")
    <2>1. Passing(p, x) /\ Field(p, x)
      BY <1>2, <1>7
    <2>2. Leads(p, x, Ask, "null", "null", "null") /\ Leads(p, x, Ask, "work", "work", "work")
      BY <1>5, LeadsOfPasses
    <2>3. Leads(p, x, Ask, "null", "null", "rest") /\ Leads(p, x, Ask, "work", "rest", "work")
      BY ONLY <2>1, <2>2, LeadsLess
    <2>4. \A e : /\ Leads(p, x, Keep("kmem"), "null", "work", e)
                 /\ Leads(p, x, Dispose("kmem"), "work", "gone", e)
                 /\ Leads(p, x, Clear("kmem"), "gone", "null", e)
      BY <1>7, <2>1, FieldSteps
    <2>5. Leads(p, x, Clear("kmem"), "gone", "rest", "rest")
      BY ONLY <2>1, <2>4, LeadsLess
    <2>6. Leads(p, x, Dispose("kmem") \o Clear("kmem"), "work", "rest", "rest")
      BY ONLY <2>4, <2>5, LeadsSeq
    <2>7. Leads(p, x, c, "work", "rest", "rest")
      BY ONLY <1>3, <2>3, <2>6, LeadsOrElse
    <2>8. Leads(p, x, Ask \o Keep("kmem") \o c, "null", "rest", "rest")
      BY ONLY <2>3, <2>4, <2>7, LeadsSeq
    <2>9. QED BY ONLY <1>4, <2>8, LeadsOrElse
  <1>8. ASSUME NEW f \in AixFields
        PROVE  /\ \A k : f # x => Leads(p, x, Clear(f), k, k, "left")
               /\ f = x => Leads(p, x, Clear(f), "gone", "null", "left")
    BY <1>2, FieldSteps, OtherSteps DEF Other
  <1>9. \A k, e : x # "kmem" => Leads(p, x, t, k, k, e)
    <2>1. Passes(p, x, Ask \o Keep("kmem") \o c) \/ x = "kmem"
      <3>1. Passes(p, x, c) \/ x = "kmem"
        BY <1>3, <1>5, OtherPasses, PassesForms DEF Other
      <3>2. QED BY <1>5, <3>1, OtherPasses, PassesForms DEF Other
    <2>2. QED BY <1>4, <2>1, OpenSteps
  <1>10. Opened(p, x, AixOpen)
    <2>1. CASE Local(p, x)
      <3>1. x \notin Kept[p] /\ x \notin AixFields /\ x # "jsigar" /\ x # "handle" /\ x \notin CommonPassing
        BY <1>2, <2>1 DEF Local
      <3>2. Leads(p, x, NewHandle, "rest", "rest", "left")
        BY <2>1, NewHandleSteps
      <3>3. Leads(p, x, AixOpen, "rest", "rest", "left")
        BY ONLY <1>2, <1>4, <1>3, <1>8, <1>9, <3>1, <3>2, LeadsSeq DEF AixOpen
      <3>4. QED BY <3>1, <3>3 DEF Opened
    <2>2. CASE x \in CommonPassing
      <3>1. Leads(p, x, NewHandle, "null", "gone", "left")
        BY <1>2, <2>2, NewHandleSteps
      <3>2. Leads(p, x, AixOpen, "null", "gone", "left")
        BY ONLY <1>2, <1>4, <1>3, <1>8, <1>9, <2>2, <3>1, LeadsSeq DEF AixOpen
      <3>3. QED BY <1>2, <2>2, <3>2 DEF Opened
    <2>3. CASE x = "jsigar"
      <3>1. Leads(p, x, NewHandle, "work", "work", "left")
        BY <1>2, <2>3, NewHandleSteps
      <3>2. Leads(p, x, AixOpen, "work", "work", "left")
        BY ONLY <1>2, <1>4, <1>3, <1>8, <1>9, <2>3, <3>1, LeadsSeq DEF AixOpen
      <3>3. QED BY <1>2, <2>3, <3>2 DEF Opened
    <2>4. CASE x = "handle"
      <3>1. Leads(p, x, NewHandle, "null", "work", "left")
        BY <1>2, <2>4, NewHandleSteps
      <3>2. Leads(p, x, AixOpen, "null", "work", "left")
        BY ONLY <1>2, <1>4, <1>3, <1>8, <1>9, <2>4, <3>1, LeadsSeq DEF AixOpen
      <3>3. QED BY <1>2, <2>4, <3>2 DEF Opened
    <2>5. CASE x \in AixFields
      <3>1. Leads(p, x, NewHandle, "null", "gone", "left")
        BY <1>2, <2>5, NewHandleSteps
      <3>2. Leads(p, x, AixOpen, "null", "rest", "left")
        <4>1. CASE x = "kmem"
          BY ONLY <1>2, <1>4, <1>3, <1>7, <1>8, <4>1, <3>1, LeadsSeq DEF AixOpen
        <4>2. CASE x # "kmem"
          <5>1. Leads(p, x, AixOpen, "null", "null", "left")
            BY ONLY <1>2, <1>4, <1>3, <1>8, <1>9, <2>5, <4>2, <3>1, LeadsSeq DEF AixOpen
          <5>2. QED BY ONLY <1>2, <2>5, <5>1, LeadsLess
        <4>3. QED BY <4>1, <4>2
      <3>3. QED BY <1>2, <2>5, <3>2 DEF Opened
    <2>6. QED BY <1>2, <2>1, <2>2, <2>3, <2>4, <2>5 DEF Field, p
  <1>11. Closed(p, x, AixClose)
    <2>1. SUFFICES ASSUME NEW e
                   PROVE  Leads(p, x, AixClose, IF x \in CommonPassing THEN "gone" ELSE "rest",
                                IF x = "jsigar" THEN "rest" ELSE "gone", e)
      BY <1>1, HandleSteps DEF Closed, p
    <2>2. ASSUME NEW f \in AixFields
          PROVE  /\ \A k : f # x => Leads(p, x, FreeKept(f), k, k, e)
                 /\ f = x => Leads(p, x, FreeKept(f), "rest", "gone", e)
      BY <1>2, OnceSteps DEF Other
    <2>3. /\ x = "handle" => Leads(p, x, Dispose("handle"), "rest", "gone", e)
          /\ \A k : x # "handle" => Leads(p, x, Dispose("handle"), k, k, e)
      BY <1>1, HandleSteps
    <2>4. CASE x \in CommonPassing
      BY ONLY <1>2, <2>2, <2>3, <2>4, LeadsSeq DEF AixClose
    <2>5. CASE x = "jsigar"
      BY ONLY <1>2, <2>2, <2>3, <2>5, LeadsSeq DEF AixClose
    <2>6. CASE x = "handle"
      BY ONLY <1>2, <2>2, <2>3, <2>6, LeadsSeq DEF AixClose
    <2>7. CASE x \in AixFields
      BY ONLY <1>2, <2>2, <2>3, <2>7, LeadsSeq DEF AixClose
    <2>8. CASE Local(p, x)
      <3>1. x \notin Kept[p] /\ x \notin AixFields /\ x # "jsigar" /\ x # "handle" /\ x \notin CommonPassing
        BY <1>2, <2>8 DEF Local
      <3>2. Leads(p, x, AixClose, "rest", "rest", e)
        BY ONLY <1>2, <2>2, <2>3, <3>1, LeadsSeq DEF AixClose
      <3>3. QED BY <1>1, <2>8, <3>1, <3>2, HandleSteps
    <2>9. QED BY <1>2, <2>4, <2>5, <2>6, <2>7, <2>8 DEF Field, p
  <1>12. QED BY <1>10, <1>11 DEF p

\* Opening and closing on HP-UX.
LEMMA HpuxOpens ==
    ASSUME NEW x, Local("hpux", x) \/ Field("hpux", x)
    PROVE  Opened("hpux", x, HpuxOpen) /\ Closed("hpux", x, HpuxClose)
  <1> DEFINE p == "hpux"
  <1>1. p \in Platforms
    BY DEF Platforms
  <1>2. /\ Field(p, "jsigar") /\ Field(p, "handle")
        /\ \A f \in CommonPassing \cup HpuxFields : Passing(p, f) /\ Field(p, f) /\ f # "sd"
        /\ HpuxFields = {"pinfo", "mib"}
        /\ CommonPassing \cup HpuxFields \cup {"jsigar", "handle"} = Kept[p]
        /\ {"jsigar", "handle"} \cap (CommonPassing \cup HpuxFields) = {}
        /\ CommonPassing \cap HpuxFields = {} /\ "libproc" \notin Kept[p]
    BY <1>1, NamesAre DEF Passing, CommonPassing, Kept, HpuxFields, CommonFields
  <1> HIDE DEF p
  <1>3. ASSUME NEW f \in HpuxFields
        PROVE  /\ \A k : f # x => Leads(p, x, Clear(f), k, k, "left")
               /\ f = x => Leads(p, x, Clear(f), "gone", "null", "left")
    BY <1>2, FieldSteps, OtherSteps DEF Other
  <1>4. Opened(p, x, HpuxOpen)
    <2>1. CASE Local(p, x)
      <3>1. x \notin Kept[p] /\ x \notin HpuxFields /\ x # "jsigar" /\ x # "handle" /\ x \notin CommonPassing
        BY <1>2, <2>1 DEF Local
      <3>2. Leads(p, x, NewHandle, "rest", "rest", "left")
        BY <2>1, NewHandleSteps
      <3>3. Leads(p, x, HpuxOpen, "rest", "rest", "left")
        BY ONLY <1>2, <1>3, <3>1, <3>2, LeadsSeq DEF HpuxOpen
      <3>4. QED BY <3>1, <3>3 DEF Opened
    <2>2. CASE x \in CommonPassing
      <3>1. Leads(p, x, NewHandle, "null", "gone", "left")
        BY <1>2, <2>2, NewHandleSteps
      <3>2. Leads(p, x, HpuxOpen, "null", "gone", "left")
        BY ONLY <1>2, <1>3, <2>2, <3>1, LeadsSeq DEF HpuxOpen
      <3>3. QED BY <1>2, <2>2, <3>2 DEF Opened
    <2>3. CASE x = "jsigar"
      <3>1. Leads(p, x, NewHandle, "work", "work", "left")
        BY <1>2, <2>3, NewHandleSteps
      <3>2. Leads(p, x, HpuxOpen, "work", "work", "left")
        BY ONLY <1>2, <1>3, <2>3, <3>1, LeadsSeq DEF HpuxOpen
      <3>3. QED BY <1>2, <2>3, <3>2 DEF Opened
    <2>4. CASE x = "handle"
      <3>1. Leads(p, x, NewHandle, "null", "work", "left")
        BY <1>2, <2>4, NewHandleSteps
      <3>2. Leads(p, x, HpuxOpen, "null", "work", "left")
        BY ONLY <1>2, <1>3, <2>4, <3>1, LeadsSeq DEF HpuxOpen
      <3>3. QED BY <1>2, <2>4, <3>2 DEF Opened
    <2>5. CASE x \in HpuxFields
      <3>1. Leads(p, x, NewHandle, "null", "gone", "left")
        BY <1>2, <2>5, NewHandleSteps
      <3>2. Leads(p, x, HpuxOpen, "null", "null", "left")
        BY ONLY <1>2, <1>3, <2>5, <3>1, LeadsSeq DEF HpuxOpen
      <3>3. Leads(p, x, HpuxOpen, "null", "rest", "left")
        BY ONLY <1>2, <2>5, <3>2, LeadsLess
      <3>4. QED BY <1>2, <2>5, <3>3 DEF Opened
    <2>6. QED BY <1>2, <2>1, <2>2, <2>3, <2>4, <2>5 DEF Field, p
  <1>5. Closed(p, x, HpuxClose)
    <2>1. SUFFICES ASSUME NEW e
                   PROVE  Leads(p, x, HpuxClose, IF x \in CommonPassing THEN "gone" ELSE "rest",
                                IF x = "jsigar" THEN "rest" ELSE "gone", e)
      BY <1>1, HandleSteps DEF Closed, p
    <2>2. ASSUME NEW f \in HpuxFields
          PROVE  /\ \A k : f # x => Leads(p, x, FreeKept(f), k, k, e)
                 /\ f = x => Leads(p, x, FreeKept(f), "rest", "gone", e)
      BY <1>2, OnceSteps DEF Other
    <2>3. /\ x = "handle" => Leads(p, x, Dispose("handle"), "rest", "gone", e)
          /\ \A k : x # "handle" => Leads(p, x, Dispose("handle"), k, k, e)
      BY <1>1, HandleSteps
    <2>4. CASE x \in CommonPassing
      BY ONLY <1>2, <2>2, <2>3, <2>4, LeadsSeq DEF HpuxClose
    <2>5. CASE x = "jsigar"
      BY ONLY <1>2, <2>2, <2>3, <2>5, LeadsSeq DEF HpuxClose
    <2>6. CASE x = "handle"
      BY ONLY <1>2, <2>2, <2>3, <2>6, LeadsSeq DEF HpuxClose
    <2>7. CASE x \in HpuxFields
      BY ONLY <1>2, <2>2, <2>3, <2>7, LeadsSeq DEF HpuxClose
    <2>8. CASE Local(p, x)
      <3>1. x \notin Kept[p] /\ x \notin HpuxFields /\ x # "jsigar" /\ x # "handle" /\ x \notin CommonPassing
        BY <1>2, <2>8 DEF Local
      <3>2. Leads(p, x, HpuxClose, "rest", "rest", e)
        BY ONLY <1>2, <2>2, <2>3, <3>1, LeadsSeq DEF HpuxClose
      <3>3. QED BY <1>1, <2>8, <3>1, <3>2, HandleSteps
    <2>9. QED BY <1>2, <2>4, <2>5, <2>6, <2>7, <2>8 DEF Field, p
  <1>6. QED BY <1>4, <1>5 DEF p

\* Opening and closing on Mac OS X: the library it loads stays loaded.
LEMMA DarwinOpens ==
    ASSUME NEW x, Local("darwin", x) \/ Field("darwin", x)
    PROVE  Opened("darwin", x, DarwinOpen) /\ Closed("darwin", x, DarwinClose)
  <1> DEFINE p == "darwin"
  <1>1. p \in Platforms
    BY DEF Platforms
  <1>2. /\ Field(p, "jsigar") /\ Field(p, "handle")
        /\ \A f \in CommonPassing \cup DarwinFields : Passing(p, f) /\ Field(p, f) /\ f # "sd"
        /\ DarwinFields = {"libproc", "pinfo"}
        /\ CommonPassing \cup DarwinFields \cup {"jsigar", "handle"} = Kept[p]
        /\ {"jsigar", "handle"} \cap (CommonPassing \cup DarwinFields) = {}
        /\ CommonPassing \cap DarwinFields = {}
        /\ LeftByOpen[p] = {"jsigar"} /\ Local(p, Nothing)
    BY <1>1, NamesAre DEF Passing, CommonPassing, Kept, DarwinFields, CommonFields,
                          LeftByOpen, Nothing, Local, Alone, Tracked
  <1> HIDE DEF p
  <1>3. ASSUME NEW f \in DarwinFields
        PROVE  /\ \A k : f # x => Leads(p, x, Clear(f), k, k, "left")
               /\ f = x => Leads(p, x, Clear(f), "gone", "null", "left")
    BY <1>2, FieldSteps, OtherSteps DEF Other
  <1>4. PICK t : t = Try(Ask \o Keep("libproc"))
    OBVIOUS
  <1>5. Passes(p, x, Ask)
    BY <1>2, PassingSteps DEF Apart, Ask, Local
  <1>6. /\ Leads(p, x, Ask, "null", "null", "left") /\ (Local(p, x) => Leads(p, x, Ask, "rest", "rest", "left"))
        /\ x = "jsigar" => Leads(p, x, Ask, "work", "work", "left")
    BY <1>2, <1>5, OpenSteps
  <1>7. x # "libproc" => \A k, e : Leads(p, x, t, k, k, e)
    <2>1. x # "libproc" => Passes(p, x, Ask \o Keep("libproc"))
      BY <1>5, OtherPasses, PassesForms DEF Other
    <2>2. QED BY <1>4, <2>1, OpenSteps
  <1>8. x = "libproc" => \A e : Leads(p, x, t, "null", "rest", e)
    <2>1. ASSUME x = "libproc" PROVE Leads(p, x, Ask \o Keep("libproc"), "null", "rest", "rest")
      <3>1. Passing(p, x) /\ Field(p, x)
        BY <1>2, <2>1
      <3>2. Leads(p, x, Ask, "null", "null", "null")
        BY <1>5, LeadsOfPasses
      <3>3. Leads(p, x, Keep("libproc"), "null", "work", "rest")
        BY <2>1, <3>1, FieldSteps
      <3>4. Leads(p, x, Ask, "null", "null", "rest") /\ Leads(p, x, Keep("libproc"), "null", "rest", "rest")
        BY ONLY <3>1, <3>2, <3>3, LeadsLess
      <3>5. QED BY ONLY <3>4, LeadsSeq
    <2>2. QED BY ONLY <1>4, <2>1, LeadsOrElse
  <1>9. Opened(p, x, DarwinOpen)
    <2>1. CASE Local(p, x)
      <3>1. x \notin Kept[p] /\ x \notin DarwinFields /\ x # "jsigar" /\ x # "handle" /\ x \notin CommonPassing
        BY <1>2, <2>1 DEF Local
      <3>2. Leads(p, x, NewHandle, "rest", "rest", "left")
        BY <2>1, NewHandleSteps
      <3>3. Leads(p, x, DarwinOpen, "rest", "rest", "left")
        BY ONLY <1>2, <1>3, <1>4, <1>6, <1>7, <2>1, <3>1, <3>2, LeadsSeq DEF DarwinOpen
      <3>4. QED BY <3>1, <3>3 DEF Opened
    <2>2. CASE x \in CommonPassing
      <3>1. Leads(p, x, NewHandle, "null", "gone", "left")
        BY <1>2, <2>2, NewHandleSteps
      <3>2. Leads(p, x, DarwinOpen, "null", "gone", "left")
        BY ONLY <1>2, <1>3, <1>4, <1>6, <1>7, <1>8, <2>2, <3>1, LeadsSeq DEF DarwinOpen
      <3>3. QED BY <1>2, <2>2, <3>2 DEF Opened
    <2>3. CASE x = "jsigar"
      <3>1. Leads(p, x, NewHandle, "work", "work", "left")
        BY <1>2, <2>3, NewHandleSteps
      <3>2. Leads(p, x, DarwinOpen, "work", "work", "left")
        BY ONLY <1>2, <1>3, <1>4, <1>6, <1>7, <1>8, <2>3, <3>1, LeadsSeq DEF DarwinOpen
      <3>3. QED BY <1>2, <2>3, <3>2 DEF Opened
    <2>4. CASE x = "handle"
      <3>1. Leads(p, x, NewHandle, "null", "work", "left")
        BY <1>2, <2>4, NewHandleSteps
      <3>2. Leads(p, x, DarwinOpen, "null", "work", "left")
        BY ONLY <1>2, <1>3, <1>4, <1>6, <1>7, <1>8, <2>4, <3>1, LeadsSeq DEF DarwinOpen
      <3>3. QED BY <1>2, <2>4, <3>2 DEF Opened
    <2>5. CASE x \in DarwinFields
      <3>1. Leads(p, x, NewHandle, "null", "gone", "left")
        BY <1>2, <2>5, NewHandleSteps
      <3>2. Leads(p, x, DarwinOpen, "null", "null", "left") \/ x = "libproc"
        BY ONLY <1>2, <1>3, <1>4, <1>6, <1>7, <2>5, <3>1, LeadsSeq DEF DarwinOpen
      <3>3. Leads(p, x, DarwinOpen, "null", "rest", "left")
        <4>1. CASE x = "libproc"
          BY ONLY <1>2, <1>3, <1>4, <1>6, <1>8, <3>1, <4>1, LeadsSeq DEF DarwinOpen
        <4>2. CASE x # "libproc"
          BY ONLY <1>2, <2>5, <3>2, <4>2, LeadsLess
        <4>3. QED BY <4>1, <4>2
      <3>4. QED BY <1>2, <2>5, <3>3 DEF Opened
    <2>6. QED BY <1>2, <2>1, <2>2, <2>3, <2>4, <2>5 DEF Field, p
  <1>10. Closed(p, x, DarwinClose)
    <2>1. SUFFICES ASSUME NEW e
                   PROVE  Leads(p, x, DarwinClose, IF x \in CommonPassing THEN "gone" ELSE "rest",
                                IF x \in {"jsigar", "libproc"} THEN "rest" ELSE "gone", e)
      BY <1>1, HandleSteps DEF Closed, p
    <2>2. ASSUME NEW f \in DarwinFields
          PROVE  /\ \A k : f # x => Leads(p, x, FreeKept(f), k, k, e)
                 /\ f = x => Leads(p, x, FreeKept(f), "rest", "gone", e)
      BY <1>2, OnceSteps DEF Other
    <2>3. /\ x = "handle" => Leads(p, x, Dispose("handle"), "rest", "gone", e)
          /\ \A k : x # "handle" => Leads(p, x, Dispose("handle"), k, k, e)
      BY <1>1, HandleSteps
    <2>4. CASE x \in CommonPassing
      BY ONLY <1>2, <2>2, <2>3, <2>4, LeadsSeq DEF DarwinClose
    <2>5. CASE x = "jsigar"
      BY ONLY <1>2, <2>2, <2>3, <2>5, LeadsSeq DEF DarwinClose
    <2>6. CASE x = "handle"
      BY ONLY <1>2, <2>2, <2>3, <2>6, LeadsSeq DEF DarwinClose
    <2>7. CASE x \in DarwinFields
      BY ONLY <1>2, <2>2, <2>3, <2>7, LeadsSeq DEF DarwinClose
    <2>8. CASE Local(p, x)
      <3>1. x \notin Kept[p] /\ x \notin DarwinFields /\ x # "jsigar" /\ x # "handle" /\ x \notin CommonPassing
        BY <1>2, <2>8 DEF Local
      <3>2. Leads(p, x, DarwinClose, "rest", "rest", e)
        BY ONLY <1>2, <2>2, <2>3, <3>1, LeadsSeq DEF DarwinClose
      <3>3. QED BY <1>1, <2>8, <3>1, <3>2, HandleSteps
    <2>9. QED BY <1>2, <2>4, <2>5, <2>6, <2>7, <2>8 DEF Field, p
  <1>11. QED BY <1>9, <1>10 DEF p

\* Opening and closing on Windows.
LEMMA Win32Opens ==
    ASSUME NEW x, Local("win32", x) \/ Field("win32", x)
    PROVE  Opened("win32", x, Win32Open) /\ Closed("win32", x, Win32Close)
  <1> DEFINE p == "win32"
  <1>1. p \in Platforms
    BY DEF Platforms
  <1>2. /\ Field(p, "jsigar") /\ Field(p, "handle")
        /\ \A f \in CommonPassing \cup Win32Fields : Passing(p, f) /\ Field(p, f) /\ f # "sd"
        /\ Win32Fields = {"perfbuf", "winsock", "iphlpapi", "advapi", "ntdll", "psapi", "wtsapi",
                          "winsta", "kernel", "mpr", "netif_mib_rows",
                          "netif_addr_rows", "netif_adapters", "netif_names"}
        /\ CommonPassing \cup Win32Fields \cup {"jsigar", "handle"} = Kept[p]
        /\ {"jsigar", "handle"} \cap (CommonPassing \cup Win32Fields) = {}
        /\ CommonPassing \cap Win32Fields = {}
        /\ LeftByOpen[p] = {"jsigar", "handle", "advapi"} /\ Local(p, Nothing)
        /\ Win32Dlls = {"iphlpapi", "advapi", "ntdll", "psapi", "wtsapi", "winsta", "kernel", "mpr"}
        /\ "advapi" \in Win32Fields
    BY <1>1, NamesAre DEF Passing, CommonPassing, Kept, Win32Fields, CommonFields,
                          LeftByOpen, Nothing, Local, Alone, Tracked, Win32Dlls, Win32Netif
  <1> HIDE DEF p
  <1>3. ASSUME NEW f \in Win32Fields
        PROVE  /\ \A k : f # x => Leads(p, x, Clear(f), k, k, "left")
               /\ f = x => Leads(p, x, Clear(f), "gone", "null", "left")
    BY <1>2, FieldSteps, OtherSteps DEF Other
  <1>4. PICK t : t = Dll("advapi")
    OBVIOUS
  <1>5. Passes(p, x, Ask)
    BY <1>2, PassingSteps DEF Apart, Ask, Local
  <1>6. /\ Leads(p, x, Ask, "null", "null", "left") /\ Leads(p, x, Ask, "gone", "gone", "left")
        /\ Local(p, x) => Leads(p, x, Ask, "rest", "rest", "left")
        /\ x \in {"jsigar", "handle"} => Leads(p, x, Ask, "work", "work", "left")
        /\ x = "advapi" => Leads(p, x, Ask, "rest", "rest", "left")
    <2>1. Leads(p, x, Ask, "rest", "rest", "rest")
      BY <1>5, LeadsOfPasses
    <2>2. x = "advapi" => Leads(p, x, Ask, "rest", "rest", "left")
      BY <1>2, <2>1, LeadsLeft
    <2>3. QED BY <1>2, <1>5, <2>2, OpenSteps
  <1>7. x # "advapi" => \A k \in {"rest", "work", "null", "gone"} : \A e : Leads(p, x, t, k, k, e)
    BY <1>2, <1>4, DllMoves DEF p
  <1>8. x = "advapi" => \A e : Leads(p, x, t, "null", "rest", e)
    <2>1. x = "advapi" => \A e : Leads(p, x, t, "rest", "rest", e)
      BY <1>2, <1>4, DllMoves DEF p
    <2>2. QED BY ONLY <1>2, <2>1, LeadsLess
  <1>9. Opened(p, x, Win32Open)
    <2>1. CASE Local(p, x)
      <3>1. x \notin Kept[p] /\ x \notin Win32Fields /\ x # "jsigar" /\ x # "handle" /\ x \notin CommonPassing
        BY <1>2, <2>1 DEF Local
      <3>2. Leads(p, x, NewHandle, "rest", "rest", "left")
        BY <2>1, NewHandleSteps
      <3>3. Leads(p, x, Win32Open, "rest", "rest", "left")
        BY ONLY <1>2, <1>3, <1>4, <1>6, <1>7, <2>1, <3>1, <3>2, LeadsSeq DEF Win32Open
      <3>4. QED BY <3>1, <3>3 DEF Opened
    <2>2. CASE x \in CommonPassing
      <3>1. Leads(p, x, NewHandle, "null", "gone", "left")
        BY <1>2, <2>2, NewHandleSteps
      <3>2. Leads(p, x, Win32Open, "null", "gone", "left")
        BY ONLY <1>2, <1>3, <1>4, <1>6, <1>7, <2>2, <3>1, LeadsSeq DEF Win32Open
      <3>3. QED BY <1>2, <2>2, <3>2 DEF Opened
    <2>3. CASE x = "jsigar"
      <3>1. Leads(p, x, NewHandle, "work", "work", "left")
        BY <1>2, <2>3, NewHandleSteps
      <3>2. Leads(p, x, Win32Open, "work", "work", "left")
        BY ONLY <1>2, <1>3, <1>4, <1>6, <1>7, <2>3, <3>1, LeadsSeq DEF Win32Open
      <3>3. QED BY <1>2, <2>3, <3>2 DEF Opened
    <2>4. CASE x = "handle"
      <3>1. Leads(p, x, NewHandle, "null", "work", "left")
        BY <1>2, <2>4, NewHandleSteps
      <3>2. Leads(p, x, Win32Open, "null", "work", "left")
        BY ONLY <1>2, <1>3, <1>4, <1>6, <1>7, <2>4, <3>1, LeadsSeq DEF Win32Open
      <3>3. QED BY <1>2, <2>4, <3>2 DEF Opened
    <2>5. CASE x \in Win32Fields
      <3>1. Leads(p, x, NewHandle, "null", "gone", "left")
        BY <1>2, <2>5, NewHandleSteps
      <3>2. Leads(p, x, Win32Open, "null", "null", "left") \/ x = "advapi"
        BY ONLY <1>2, <1>3, <1>4, <1>6, <1>7, <2>5, <3>1, LeadsSeq DEF Win32Open
      <3>3. Leads(p, x, Win32Open, "null", "rest", "left")
        <4>1. CASE x = "advapi"
          BY ONLY <1>2, <1>3, <1>4, <1>6, <1>8, <3>1, <4>1, LeadsSeq DEF Win32Open
        <4>2. CASE x # "advapi"
          BY ONLY <1>2, <2>5, <3>2, <4>2, LeadsLess
        <4>3. QED BY <4>1, <4>2
      <3>4. QED BY <1>2, <2>5, <3>3 DEF Opened
    <2>6. QED BY <1>2, <2>1, <2>2, <2>3, <2>4, <2>5 DEF Field, p
  <1>10. Closed(p, x, Win32Close)
    <2>1. SUFFICES ASSUME NEW e
                   PROVE  Leads(p, x, Win32Close, IF x \in CommonPassing THEN "gone" ELSE "rest",
                                IF x = "jsigar" THEN "rest" ELSE "gone", e)
      BY <1>1, HandleSteps DEF Closed, p
    <2>2. ASSUME NEW f \in Win32Fields
          PROVE  /\ \A k : f # x => Leads(p, x, FreeKept(f), k, k, e)
                 /\ f = x => Leads(p, x, FreeKept(f), "rest", "gone", e)
      BY <1>2, OnceSteps DEF Other
    <2>3. ASSUME NEW m \in Win32Dlls
           PROVE  /\ \A k : m # x => Leads(p, x, DllFree(m), k, k, e)
                  /\ m = x => Leads(p, x, DllFree(m), "rest", "gone", e)
      <3>1. m \in Win32Fields
        BY <1>2
      <3>2. m # x => \A k : Leads(p, x, DllFree(m), k, k, e)
        <4>1. m # x => Steady(p, x, Dispose(m)) /\ Steady(p, x, Clear(m))
          BY <1>2, <3>1, SteadySteps DEF Other
        <4>2. m # x => \A k : Leads(p, x, Dispose(m), k, k, e) /\ Leads(p, x, Clear(m), k, k, e)
          BY <4>1, LeadsOfPasses
        <4>3. m # x => \A k : Leads(p, x, <<>>, k, k, e)
          BY LeadsOrElse
        <4>4. ASSUME m # x, NEW k PROVE Leads(p, x, Dispose(m) \o Clear(m), k, k, e)
          BY <4>2, <4>4, MovesSeq DEF Leads
        <4>5. QED BY <1>2, <3>1, <4>3, <4>4, LeadsChoices DEF DllFree
      <3>3. ASSUME m = x PROVE Leads(p, x, DllFree(m), "rest", "gone", e)
        <4>1. Passing(p, x) /\ Field(p, x)
          BY <1>2, <3>1, <3>3
        <4>2. Leads(p, x, Dispose(m), "work", "gone", e) /\ Leads(p, x, Clear(m), "gone", "null", e)
              /\ Leads(p, x, <<>>, "null", "null", e)
          BY <3>3, <4>1, FieldSteps, LeadsOrElse
        <4>3. Leads(p, x, Dispose(m) \o Clear(m), "work", "null", e)
          BY ONLY <4>2, LeadsSeq
        <4>4. Leads(p, x, IfKept(x, Dispose(m) \o Clear(m), <<>>), "rest", "null", e)
          BY ONLY <4>1, <4>2, <4>3, LeadsIfKept
        <4>5. Leads(p, x, IfKept(x, Dispose(m) \o Clear(m), <<>>), "rest", "gone", e)
          BY ONLY <4>4, LeadsLess
        <4>6. QED BY <3>3, <4>5 DEF DllFree
      <3>4. QED BY <3>2, <3>3
    <2>4. /\ x = "handle" => Leads(p, x, Dispose("handle"), "rest", "gone", e)
          /\ \A k : x # "handle" => Leads(p, x, Dispose("handle"), k, k, e)
      BY <1>1, HandleSteps
    <2>5. CASE x \in CommonPassing
      BY ONLY <1>2, <2>2, <2>4, <2>5, <2>3, LeadsSeq DEF Win32Close
    <2>6. CASE x = "jsigar"
      BY ONLY <1>2, <2>2, <2>4, <2>6, <2>3, LeadsSeq DEF Win32Close
    <2>7. CASE x = "handle"
      BY ONLY <1>2, <2>2, <2>4, <2>7, <2>3, LeadsSeq DEF Win32Close
    <2>8. CASE x \in Win32Fields
      BY ONLY <1>2, <2>2, <2>4, <2>8, <2>3, LeadsSeq DEF Win32Close
    <2>9. CASE Local(p, x)
      <3>1. x \notin Kept[p] /\ x \notin Win32Fields /\ x # "jsigar" /\ x # "handle" /\ x \notin CommonPassing
        BY <1>2, <2>9 DEF Local
      <3>2. Leads(p, x, Win32Close, "rest", "rest", e)
        BY ONLY <1>2, <2>2, <2>4, <3>1, <2>3, LeadsSeq DEF Win32Close
      <3>3. QED BY <1>1, <2>9, <3>1, <3>2, HandleSteps
    <2>10. QED BY <1>2, <2>5, <2>6, <2>7, <2>8, <2>9 DEF Field, p
  <1>11. QED BY <1>9, <1>10 DEF p

\* What leaves everything that is followed alone, put together.
LEMMA SteadyForms ==
    ASSUME NEW p, NEW x
    PROVE  /\ Steady(p, x, <<>>)
           /\ \A s, t : Steady(p, x, s) /\ Steady(p, x, t) =>
                /\ Steady(p, x, s \o t)
                /\ \A f : f \notin Tracked(p, x) => Steady(p, x, IfKept(f, s, t))
           /\ \A s : Steady(p, x, s) => Steady(p, x, Loop(s))
  <1>1. Steady(p, x, <<>>)
    BY MovesEmpty DEF Steady
  <1>2. ASSUME NEW s, NEW t, Steady(p, x, s), Steady(p, x, t)
        PROVE  /\ Steady(p, x, s \o t)
               /\ \A f : f \notin Tracked(p, x) => Steady(p, x, IfKept(f, s, t))
    <2>1. ASSUME NEW V \in SUBSET States(p, x)
          PROVE  /\ MovesIn(p, s \o t, V, V, {}, V)
                 /\ \A f : f \notin Tracked(p, x) => MovesIn(p, IfKept(f, s, t), V, V, {}, V)
      <3>1. MovesIn(p, s, V, V, {}, V) /\ MovesIn(p, t, V, V, {}, V)
        BY <1>2, <2>1 DEF Steady
      <3>2. V \subseteq V /\ AreValues(V) /\ \A w \in V : DOMAIN w = Tracked(p, x)
        BY <2>1, ModesAre
      <3>3. \A f : (\A w \in V : f \notin DOMAIN w) => MovesIn(p, IfKept(f, s, t), V, V, {}, V)
        BY <3>1, <3>2, EitherForms
      <3>4. QED BY <3>1, <3>2, <3>3, MovesSeq
    <2>2. QED BY <2>1 DEF Steady
  <1>3. ASSUME NEW s, Steady(p, x, s) PROVE Steady(p, x, Loop(s))
    <2>1. ASSUME NEW V \in SUBSET States(p, x) PROVE MovesIn(p, Loop(s), V, V, {}, V)
      <3>1. MovesIn(p, s, V, V, {}, V) /\ V \subseteq V /\ AreValues(V)
        BY <1>3, <2>1, ModesAre DEF Steady
      <3>2. QED BY <3>1, LoopForms
    <2>2. QED BY <2>1 DEF Steady
  <1>4. QED BY <1>1, <1>2, <1>3

\* The tables of cpus are made for the calls to use.
LEMMA GetKstatsMoves ==
    ASSUME NEW x
    PROVE  /\ x # "ks_cpu" => Steady("solaris", x, SolarisGetKstats)
           /\ x = "ks_cpu" => \A e : Leads("solaris", x, SolarisGetKstats, "null", "rest", e)
  <1> DEFINE p == "solaris"
  <1>1. Passing(p, "ks_cpu") /\ Field(p, "ks_cpu")
    BY NamesAre DEF SolarisFields, Passing
  <1> HIDE DEF p
  <1>2. ASSUME x # "ks_cpu" PROVE Steady(p, x, SolarisGetKstats)
    <2>1. "ks_cpu" \notin Tracked(p, x) /\ Other(x, "ks_cpu")
      BY <1>2 DEF Tracked, Beside, Other
    <2>2. Steady(p, x, Keep("ks_cpu")) /\ Steady(p, x, UseKept("ks_cpu"))
      BY <2>1, SteadySteps
    <2>3. QED BY <2>1, <2>2, SteadyForms DEF SolarisGetKstats
  <1>3. ASSUME x = "ks_cpu", NEW e PROVE Leads(p, x, SolarisGetKstats, "null", "rest", e)
    <2>1. Passing(p, x) /\ Field(p, x)
      BY <1>1, <1>3
    <2>2. /\ Leads(p, x, Keep(x), "null", "work", e) /\ Leads(p, x, UseKept(x), "work", "work", e)
          /\ Leads(p, x, <<>>, "work", "work", e)
      BY <2>1, FieldSteps, LeadsOrElse
    <2>3. Leads(p, x, IfKept(x, <<>>, Keep(x)), "rest", "work", e)
      BY ONLY <2>1, <2>2, LeadsIfKept
    <2>4. Leads(p, x, Loop(UseKept(x)), "work", "work", e)
      BY ONLY <2>2, LeadsChoices
    <2>5. Leads(p, x, IfKept(x, <<>>, Keep(x)) \o Loop(UseKept(x)), "rest", "work", e)
      BY ONLY <2>3, <2>4, LeadsSeq
    <2>6. Leads(p, x, IfKept(x, <<>>, Keep(x)) \o Loop(UseKept(x)), "rest", "rest", e)
      BY ONLY <2>1, <2>5, LeadsLess
    <2>7. Leads(p, x, IfKept(x, <<>>, Keep(x)) \o Loop(UseKept(x)), "null", "rest", e)
      BY ONLY <2>1, <2>6, LeadsLess
    <2>8. QED BY <1>3, <2>7 DEF SolarisGetKstats
  <1>4. QED BY <1>2, <1>3 DEF p

\* What does not belong to the stream is not touched where it is closed.
LEMMA CloseMib2Steady ==
    ASSUME NEW x, x \notin {"sd", "smb", "db"}
    PROVE  /\ Steady("solaris", x, SolarisCloseMib2) /\ Steady("solaris", x, Clear("sd"))
           /\ Steady("solaris", x, Clear("smb")) /\ Steady("solaris", x, Clear("db"))
  <1> DEFINE p == "solaris"
  <1>1. "sd" \notin Tracked(p, x) /\ "smb" \notin Tracked(p, x) /\ "db" \notin Tracked(p, x)
    BY DEF Tracked, Beside
  <1> HIDE DEF p
  <1>2. \A f \in {"sd", "smb", "db"} :
          \A do \in {"dispose", "clear"} : Steady(p, x, Step(do, f, {}, 1))
    BY <1>1, SteadyStep DEF Branches, Ends, Failing
  <1>3. \A f \in {"sd", "smb", "db"} : Steady(p, x, Dispose(f)) /\ Steady(p, x, Clear(f))
    BY <1>2 DEF Dispose, Clear
  <1>4. \A f \in {"sd", "smb", "db"} : Steady(p, x, Dispose(f) \o Clear(f))
    BY <1>3, SteadyForms
  <1>5. \A f \in {"smb", "db"} : Steady(p, x, IfKept(f, Dispose(f) \o Clear(f), <<>>))
    BY <1>1, <1>4, SteadyForms
  <1>6. Steady(p, x, SolarisCloseMib2)
    BY <1>1, <1>4, <1>5, SteadyForms DEF SolarisCloseMib2
  <1>7. QED BY <1>3, <1>6 DEF p

\* Opening and closing on Solaris, but for the stream and its buffers.
LEMMA SolarisOpens ==
    ASSUME NEW x, Local("solaris", x) \/ Field("solaris", x)
    PROVE  Opened("solaris", x, SolarisOpen) /\ Closed("solaris", x, SolarisClose)
  <1> DEFINE p == "solaris"
             Own == {"ks_cpu", "sd", "pinfo", "cpulist", "plib", "pargs"}
  <1>1. p \in Platforms
    BY DEF Platforms
  <1>2. /\ Field(p, "jsigar") /\ Field(p, "handle") /\ Field(p, "kc") /\ "kc" \in Lasting(p)
        /\ \A f \in CommonPassing \cup Own : Passing(p, f) /\ Field(p, f)
        /\ CommonPassing \cup Own \cup {"jsigar", "handle", "kc", "smb", "db"} = Kept[p]
        /\ {"jsigar", "handle", "kc"} \cap (CommonPassing \cup Own) = {}
        /\ CommonPassing \cap Own = {} /\ "sd" \notin CommonPassing
        /\ LeftByOpen[p] = {"jsigar", "handle"} /\ Local(p, Nothing)
        /\ ~Alone(p, "smb") /\ ~Alone(p, "db")
    BY <1>1, NamesAre DEF Passing, CommonPassing, Kept, SolarisFields, CommonFields, LeftByOpen,
                          Nothing, Local, Alone, Tracked, Beside
  <1>3. x \notin {"smb", "db"}
    BY <1>2 DEF Field, Local
  <1> HIDE DEF p, Own
  <1>4. \A e : /\ \A k : x # "ks_cpu" => Leads(p, x, SolarisGetKstats, k, k, e)
               /\ x = "ks_cpu" => Leads(p, x, SolarisGetKstats, "null", "rest", e)
    BY GetKstatsMoves, LeadsOfPasses DEF p
  <1>5. \A f \in Own \ {"sd"} : \A e :
          /\ \A k : f # x => Leads(p, x, Clear(f), k, k, e) /\ Leads(p, x, FreeKept(f), k, k, e)
          /\ f = x => Leads(p, x, Clear(f), "gone", "null", e) /\ Leads(p, x, FreeKept(f), "rest", "gone", e)
    BY <1>2, FieldSteps, OtherSteps, OnceSteps DEF Other
  <1>6. /\ \A k, e : x # "sd" => Leads(p, x, Clear("sd"), k, k, e)
        /\ \A e : x = "sd" => Leads(p, x, Clear("sd"), "gone", "null", e)
        /\ \A k, e : Leads(p, x, Clear("smb"), k, k, e) /\ Leads(p, x, Clear("db"), k, k, e)
    <2>1. \A k, e : x # "sd" => Leads(p, x, Clear("sd"), k, k, e)
      BY <1>3, CloseMib2Steady, LeadsOfPasses DEF p
    <2>2. \A e : x = "sd" => Leads(p, x, Clear("sd"), "gone", "null", e)
      BY <1>2, FieldSteps DEF Own
    <2>3. \A k, e : Leads(p, x, Clear("smb"), k, k, e) /\ Leads(p, x, Clear("db"), k, k, e)
      BY <1>3, OtherSteps DEF Other
    <2>4. QED BY <2>1, <2>2, <2>3
  <1>7. /\ \A e : x = "kc" => /\ Leads(p, x, Keep("kc"), "gone", "work", e)
                              /\ Leads(p, x, Dispose("kc"), "rest", "gone", e)
        /\ \A k, e : x # "kc" => Leads(p, x, Keep("kc"), k, k, e) /\ Leads(p, x, Dispose("kc"), k, k, e)
    <2>1. \A e : x = "kc" => /\ Leads(p, x, Keep("kc"), "gone", "work", e)
                             /\ Leads(p, x, Dispose("kc"), "work", "gone", e)
      BY <1>2, FieldSteps
    <2>2. \A e : x = "kc" => Leads(p, x, Dispose("kc"), "rest", "gone", e)
      BY ONLY <1>2, <2>1, LeadsLess
    <2>3. QED BY <2>1, <2>2, OtherSteps DEF Other
  <1>8. /\ Leads(p, x, Ask, "gone", "gone", "left")
        /\ Local(p, x) => Leads(p, x, Ask, "rest", "rest", "left")
        /\ x \in {"jsigar", "handle"} => Leads(p, x, Ask, "work", "work", "left")
    <2>1. Passes(p, x, Ask)
      BY PassingSteps DEF Apart, Ask
    <2>2. QED BY <1>2, <2>1, OpenSteps
  <1>9. Opened(p, x, SolarisOpen)
    <2>1. CASE Local(p, x)
      <3>1. x \notin Kept[p] /\ x \notin Own /\ x # "jsigar" /\ x # "handle" /\ x \notin CommonPassing
            /\ x # "kc" /\ x # "sd" /\ x # "ks_cpu"
        BY <1>2, <2>1 DEF Local, Own
      <3>2. Leads(p, x, NewHandle, "rest", "rest", "left")
        BY <2>1, NewHandleSteps
      <3>3. Leads(p, x, SolarisOpen, "rest", "rest", "left")
        BY ONLY <1>4, <1>5, <1>6, <1>7, <1>8, <2>1, <3>1, <3>2, LeadsSeq DEF SolarisOpen, Own
      <3>4. QED BY <3>1, <3>3 DEF Opened
    <2>2. CASE x \in CommonPassing
      <3>1. Leads(p, x, NewHandle, "null", "gone", "left")
        BY <1>2, <2>2, NewHandleSteps
      <3>2. x # "kc" /\ x # "sd" /\ x # "ks_cpu" /\ x \notin Own
        BY <1>2, <2>2 DEF Own
      <3>3. Leads(p, x, SolarisOpen, "null", "gone", "left")
        BY ONLY <1>4, <1>5, <1>6, <1>7, <1>8, <3>2, <3>1, LeadsSeq DEF SolarisOpen, Own
      <3>4. QED BY <1>2, <2>2, <3>3 DEF Opened
    <2>3. CASE x = "jsigar"
      <3>1. Leads(p, x, NewHandle, "work", "work", "left")
        BY <1>2, <2>3, NewHandleSteps
      <3>2. Leads(p, x, SolarisOpen, "work", "work", "left")
        BY ONLY <1>4, <1>5, <1>6, <1>7, <1>8, <2>3, <3>1, LeadsSeq DEF SolarisOpen, Own
      <3>3. QED BY <1>2, <2>3, <3>2 DEF Opened
    <2>4. CASE x = "handle"
      <3>1. Leads(p, x, NewHandle, "null", "work", "left")
        BY <1>2, <2>4, NewHandleSteps
      <3>2. Leads(p, x, SolarisOpen, "null", "work", "left")
        BY ONLY <1>4, <1>5, <1>6, <1>7, <1>8, <2>4, <3>1, LeadsSeq DEF SolarisOpen, Own
      <3>3. QED BY <1>2, <2>4, <3>2 DEF Opened
    <2>5. CASE x = "kc"
      <3>1. Leads(p, x, NewHandle, "null", "gone", "left")
        BY <1>2, <2>5, NewHandleSteps
      <3>2. Leads(p, x, SolarisOpen, "null", "work", "left")
        BY ONLY <1>4, <1>5, <1>6, <1>7, <1>8, <2>5, <3>1, LeadsSeq DEF SolarisOpen, Own
      <3>3. Leads(p, x, SolarisOpen, "null", "rest", "left")
        BY ONLY <1>2, <2>5, <3>2, LeadsLess
      <3>4. QED BY <1>2, <2>5, <3>3 DEF Opened
    <2>6. CASE x \in Own
      <3>1. Leads(p, x, NewHandle, "null", "gone", "left") /\ x # "kc"
        BY <1>2, <2>6, NewHandleSteps
      <3>2. CASE x = "ks_cpu"
        <4>1. Leads(p, x, SolarisOpen, "null", "rest", "left")
          BY ONLY <1>4, <1>5, <1>6, <1>7, <1>8, <3>1, <3>2, LeadsSeq DEF SolarisOpen, Own
        <4>2. QED BY <1>2, <2>6, <4>1 DEF Opened
      <3>3. CASE x # "ks_cpu"
        <4>1. Leads(p, x, SolarisOpen, "null", "null", "left")
          <5>1. CASE x = "sd"
            BY ONLY <1>4, <1>5, <1>6, <1>7, <1>8, <3>1, <5>1, LeadsSeq DEF SolarisOpen, Own
          <5>2. CASE x = "cpulist"
            BY ONLY <1>4, <1>5, <1>6, <1>7, <1>8, <3>1, <5>2, LeadsSeq DEF SolarisOpen, Own
          <5>3. CASE x \in {"pinfo", "plib", "pargs"}
            BY ONLY <1>4, <1>5, <1>6, <1>7, <1>8, <3>1, <5>3, LeadsSeq DEF SolarisOpen, Own
          <5>4. QED BY <2>6, <3>3, <5>1, <5>2, <5>3 DEF Own
        <4>2. Leads(p, x, SolarisOpen, "null", "rest", "left")
          BY ONLY <1>2, <2>6, <4>1, LeadsLess
        <4>3. QED BY <1>2, <2>6, <4>2 DEF Opened
      <3>4. QED BY <3>2, <3>3
    <2>7. QED BY <1>2, <1>3, <2>1, <2>2, <2>3, <2>4, <2>5, <2>6 DEF Field, p
  <1>10. Closed(p, x, SolarisClose)
    <2>1. SUFFICES Leads(p, x, SolarisClose, IF x \in CommonPassing THEN "gone" ELSE "rest",
                         IF x = "jsigar" THEN "rest" ELSE "gone", "gone")
      <3>1. Final(p, "nativeClose", "error", x) = "gone" /\ Final(p, "nativeClose", "ok", x) = "gone"
        BY DEF Final, Leaks, p
      <3>2. QED BY <3>1 DEF Closed
    <2>2. \A k : x # "sd" => Leads(p, x, SolarisCloseMib2, k, k, "gone")
      BY <1>3, CloseMib2Steady, LeadsOfPasses DEF p
    <2>3. x = "sd" => Leads(p, x, SolarisCloseMib2, "rest", "gone", "gone")
      <3>1. x = "sd" => Leads(p, x, SolarisCloseMib2, "rest", "gone", "left")
        BY Mib2Moves DEF p
      <3>2. x = "sd" => Part(p, x, "left", "gone") /\ Part(p, x, "rest", "rest") /\ Part(p, x, "gone", "gone")
        BY <1>2 DEF Part, Mode, At
      <3>3. QED BY <3>1, <3>2, LeadsWeaker
    <2>4. /\ x = "handle" => Leads(p, x, Dispose("handle"), "rest", "gone", "gone")
          /\ \A k : x # "handle" => Leads(p, x, Dispose("handle"), k, k, "gone")
      BY <1>1, HandleSteps
    <2>5. CASE x \in CommonPassing
      <3>1. x # "kc" /\ x # "sd" /\ x # "handle" /\ x # "jsigar" /\ x \notin Own
        BY <1>2, <2>5 DEF Own
      <3>2. QED BY ONLY <1>5, <1>7, <2>2, <2>3, <2>4, <2>5, <3>1, LeadsSeq DEF SolarisClose, Own
    <2>6. CASE x = "jsigar"
      BY ONLY <1>2, <1>5, <1>7, <2>2, <2>3, <2>4, <2>6, LeadsSeq DEF SolarisClose, Own
    <2>7. CASE x = "handle"
      BY ONLY <1>2, <1>5, <1>7, <2>2, <2>3, <2>4, <2>7, LeadsSeq DEF SolarisClose, Own
    <2>8. CASE x = "kc"
      BY ONLY <1>2, <1>5, <1>7, <2>2, <2>3, <2>4, <2>8, LeadsSeq DEF SolarisClose, Own
    <2>9. CASE x \in Own
      <3>1. x # "kc" /\ x # "handle" /\ x # "jsigar" /\ x \notin CommonPassing
        BY <1>2, <2>9 DEF Own
      <3>2. QED BY ONLY <1>5, <1>7, <2>2, <2>3, <2>4, <2>9, <3>1, LeadsSeq DEF SolarisClose, Own
    <2>10. CASE Local(p, x)
      <3>1. x \notin Own /\ x # "jsigar" /\ x # "handle" /\ x \notin CommonPassing /\ x # "kc" /\ x # "sd"
        BY <1>2, <2>10 DEF Local, Own
      <3>2. Leads(p, x, SolarisClose, "rest", "rest", "gone")
        BY ONLY <1>5, <1>7, <2>2, <2>3, <2>4, <3>1, LeadsSeq DEF SolarisClose, Own
      <3>3. QED BY <1>1, <2>10, <3>1, <3>2, HandleSteps
    <2>11. QED BY <1>2, <1>3, <2>5, <2>6, <2>7, <2>8, <2>9, <2>10 DEF Field, p
  <1>11. QED BY <1>9, <1>10 DEF p

\* The buffers of the stream, which come and go with its descriptor.
LEMMA PairsOpen ==
    ASSUME NEW x \in {"smb", "db"}
    PROVE  /\ Done("solaris", x, "open", JavaOpen(Solaris))
           /\ Closed("solaris", x, SolarisClose)
  <1> DEFINE p == "solaris"
             all == States(p, x)
             exits == {"error"} \X Mode(p, x, "left")
             V0 == Pairs(x, {"null"}, {"null"})
             V1 == Pairs(x, {"garbage"}, {"garbage"})
             V2 == Pairs(x, {"null"}, {"garbage"})
             Leads_(s, a, b) == MovesIn(p, s, a, b, exits, all)
  <1>1. /\ p \in Platforms /\ Tracked(p, x) = {"sd", x} /\ x \in Kept[p] /\ x \notin LeftByOpen[p]
        /\ "sd" \in Kept[p] /\ x # "sd" /\ x \notin Lasting(p) /\ x \notin CommonPassing
        /\ x \notin {"jsigar", "handle"}
    BY PairsAre DEF Platforms, LeftByOpen, Kept, SolarisFields, Lasting, CommonPassing, CommonFields
  <1>2. /\ {"null", "garbage"} \subseteq Values /\ {"null", "garbage"} \subseteq Gone
        /\ {"null", "garbage"} \cap Living = {} /\ Gone \subseteq Values
    BY DEF Values, FieldValues, Gone, Living
  <1>3. /\ V0 \subseteq all /\ V1 \subseteq all /\ V2 \subseteq all
        /\ \A w \in V0 \cup V1 \cup V2 : w \in [{"sd", x} -> Values]
        /\ \A w \in V0 : w["sd"] = "null" /\ w[x] = "null"
        /\ \A w \in V1 : w["sd"] = "garbage" /\ w[x] = "garbage"
    BY PairsAre DEF Pairs
  <1>4. V1 \subseteq Mode(p, x, "left")
    <2>1. \A w \in V1 : w \in States(p, x) /\ w[x] \in At(p, x, "left")
      BY <1>1, <1>2, <1>3 DEF At
    <2>2. QED BY <2>1 DEF Mode
  <1>5. V0 \subseteq Mode(p, x, "rest")
    <2>1. \A w \in V0 : w \in States(p, x) /\ w[x] \in At(p, x, "rest") /\ w["sd"] = "null" /\ w[x] = "null"
      BY <1>1, <1>2, <1>3 DEF At, FieldValues
    <2>2. QED BY <1>2, <2>1 DEF Mode
  <1>6. Start(p, x, "open") = V0
    <2>1. Start(p, x, "open") = {w \in States(p, x) : \A n \in {"sd", x} : w[n] = "null"}
      BY <1>1 DEF Start
    <2>2. QED BY <2>1 DEF Pairs
  <1>7. \A s : Steady(p, x, s) => Leads_(s, V0, V0) /\ Leads_(s, V1, V1) /\ Leads_(s, V2, V2)
    <2>1. ASSUME NEW s, Steady(p, x, s), NEW V \in {V0, V1, V2} PROVE Leads_(s, V, V)
      <3>1. V \subseteq all /\ {} \subseteq exits
        BY <1>3, <2>1
      <3>2. MovesIn(p, s, V, V, {}, V)
        BY <2>1, <3>1 DEF Steady
      <3>3. QED BY <3>1, <3>2, MovesWeaker
    <2>2. QED BY <2>1
  <1>8. Leads_(NewHandle, V0, V1)
    <2>1. PICK st : st = [do |-> "new_handle", res |-> Nothing, undo |-> {}, next |-> 1, fail |-> 0]
      OBVIOUS
    <2>2. ASSUME NEW w \in V0
          PROVE  Good(p, st, w) /\ Turned(st, w) \in V1
      <3>1. w \in [{"sd", x} -> Values] /\ w["sd"] = "null" /\ w[x] = "null"
        BY <1>3, <2>2
      <3>2. Good(p, st, w)
        BY <2>1, <3>1 DEF Good, Ready, Taking, Failing
      <3>3. PICK v : v = [n \in {"sd", x} |-> Renewed(n, w[n])]
        OBVIOUS
      <3>4. Turned(st, w) = v
        BY <2>1, <3>1, <3>3 DEF Turned
      <3>5. Renewed("sd", "null") = "garbage" /\ Renewed(x, "null") = "garbage"
        BY DEF Renewed
      <3>6. v \in [{"sd", x} -> Values] /\ v["sd"] = "garbage" /\ v[x] = "garbage"
        BY <1>2, <3>1, <3>3, <3>5
      <3>7. v \in V1
        BY <1>1, <3>6 DEF Pairs, States
      <3>8. QED BY <3>2, <3>4, <3>7
    <2>3. "new_handle" \notin Branches /\ "new_handle" \notin Failing
      BY DEF Branches, Failing
    <2>4. MovesIn(p, Step("new_handle", Nothing, {}, 1), V0, V1, exits, all)
      BY <1>3, <2>1, <2>2, <2>3, MovesStep
    <2>5. QED BY <2>4, StepsAreFor
  <1>9. Leads_(Ask, V1, V1)
    <2>1. Passes(p, x, Ask)
      BY PassingSteps DEF Apart, Ask
    <2>2. MovesIn(p, Ask, V1, V1, {"error"} \X V1, V1)
      BY <1>3, <2>1 DEF Passes
    <2>3. {"error"} \X V1 \subseteq exits
      BY <1>4
    <2>4. QED BY <1>3, <2>2, <2>3, MovesWeaker
  <1>10. /\ Leads_(Clear("sd"), V1, V2)
         /\ x = "smb" => Leads_(Clear("smb"), V2, V0) /\ Leads_(Clear("db"), V0, V0)
         /\ x = "db" => Leads_(Clear("smb"), V2, V2) /\ Leads_(Clear("db"), V2, V0)
    <2>1. "clear" \notin Branches \cup Ends \cup Failing \cup {"throws", "new_handle", "return"}
      BY DEF Branches, Ends, Failing
    <2>2. \A n : \A v \in {"null", "garbage"} : Ready(p, "clear", n, v) /\ Then("clear", v) = "null"
      BY <1>2 DEF Ready, Then, Taking
    <2>3. \A n : Clear(n) = Step("clear", n, {}, 1)
      BY DEF Clear
    <2>4. Leads_(Clear("sd"), V1, V2)
      BY <1>2, <2>1, <2>2, <2>3, PairStep
    <2>5. x = "smb" => Leads_(Clear("smb"), V2, V0) /\ Leads_(Clear("db"), V0, V0)
      BY <1>2, <2>1, <2>2, <2>3, PairStep
    <2>6. x = "db" => Leads_(Clear("smb"), V2, V2) /\ Leads_(Clear("db"), V2, V0)
      BY <1>2, <2>1, <2>2, <2>3, PairStep
    <2>7. QED BY <2>4, <2>5, <2>6
  <1>11. /\ Steady(p, x, SolarisGetKstats)
         /\ \A f \in {"jsigar", "kc", "cpulist", "ks_cpu", "pinfo", "plib", "pargs"} \cup CommonPassing :
              Steady(p, x, Keep(f)) /\ Steady(p, x, Clear(f))
    <2>1. \A f \in {"jsigar", "kc", "cpulist", "ks_cpu", "pinfo", "plib", "pargs"} \cup CommonPassing :
            Other(x, f)
      BY DEF Other, CommonPassing, CommonFields
    <2>2. QED BY <2>1, SteadySteps, GetKstatsMoves
  <1>12. \A s, t, a, b, c : Leads_(s, a, b) /\ Leads_(t, b, c) => Leads_(s \o t, a, c)
    BY MovesSeq
  <1>13. PICK o : o = SolarisOpen
    OBVIOUS
  <1> HIDE DEF V0, V1, V2, Leads_
  <1>14. Leads_(o, V0, V0)
    <2>1. /\ Leads_(Keep("kc"), V1, V1) /\ Leads_(Clear("cpulist"), V1, V1)
          /\ Leads_(Clear("ks_cpu"), V1, V1) /\ Leads_(SolarisGetKstats, V1, V1)
          /\ Leads_(Clear("pinfo"), V1, V1) /\ Leads_(Clear("plib"), V1, V1)
          /\ Leads_(Clear("pargs"), V1, V1)
      BY ONLY <1>7, <1>11
    <2>2. PICK q : q = NewHandle \o Ask \o Keep("kc") \o Clear("cpulist") \o Clear("ks_cpu")
                       \o SolarisGetKstats \o Clear("pinfo") \o Clear("plib") \o Clear("pargs")
      OBVIOUS
    <2>3. Leads_(q, V0, V1)
      BY ONLY <1>8, <1>9, <1>12, <2>1, <2>2
    <2>4. o = q \o Clear("sd") \o Clear("smb") \o Clear("db")
      BY <1>13, <2>2 DEF SolarisOpen
    <2>5. CASE x = "smb"
      BY ONLY <1>10, <1>12, <2>3, <2>4, <2>5
    <2>6. CASE x = "db"
      BY ONLY <1>10, <1>12, <2>3, <2>4, <2>6
    <2>7. QED BY <2>5, <2>6
  <1>15. PICK c : c = Open_(Solaris)
    OBVIOUS
  <1>16. Leads_(c, V0, V0)
    <2>1. Solaris.open = o
      BY <1>13 DEF Solaris
    <2>2. /\ c = o \o Clear("ifconf_buf") \o Clear("self_path") \o Clear("fsdev")
                   \o Clear("pids") \o Clear("proc_cpu") \o Clear("net_listen")
                   \o Clear("services_tcp") \o Clear("services_udp")
          /\ \A f \in CommonPassing : Leads_(Clear(f), V0, V0)
      BY <1>7, <1>11, <1>15, <2>1 DEF Open_
    <2>3. CommonPassing = {"pids", "ifconf_buf", "self_path", "fsdev", "proc_cpu", "net_listen",
                           "services_tcp", "services_udp"}
      BY DEF CommonPassing, CommonFields
    <2>4. QED BY ONLY <1>12, <1>14, <2>2, <2>3
  <1>17. Leads_(JavaOpen(Solaris), V0, V0)
    BY <1>7, <1>11, <1>12, <1>15, <1>16 DEF JavaOpen
  <1>18. Done(p, x, "open", JavaOpen(Solaris))
    <2>1. Final(p, "open", "ok", x) = "rest" /\ Final(p, "open", "error", x) = "left"
      BY DEF Final, Leaks
    <2>2. PICK T : T = {"thrown"} \X Mode(p, x, Final(p, "open", "thrown", x))
      OBVIOUS
    <2>3. exits \subseteq exits \cup T
      OBVIOUS
    <2>4. MovesIn(p, JavaOpen(Solaris), V0, V0, exits, all)
      BY <1>17 DEF Leads_
    <2>5. MovesIn(p, JavaOpen(Solaris), Start(p, x, "open"), Mode(p, x, "rest"), exits \cup T, all)
      BY <1>5, <1>6, <2>3, <2>4, MovesWeaker
    <2>6. QED BY <2>1, <2>2, <2>5 DEF Done
  <1>19. Closed(p, x, SolarisClose)
    <2>1. Final(p, "nativeClose", "error", x) = "gone" /\ Final(p, "nativeClose", "ok", x) = "gone"
      BY DEF Final, Leaks
    <2>2. SUFFICES Leads(p, x, SolarisClose, "rest", "gone", "gone")
      BY <1>1, <2>1 DEF Closed
    <2>3. Leads(p, x, SolarisCloseMib2, "rest", "gone", "gone")
      <3>1. Leads(p, x, SolarisCloseMib2, "rest", "gone", "left")
        BY Mib2Moves
      <3>2. Part(p, x, "left", "gone") /\ Part(p, x, "rest", "rest") /\ Part(p, x, "gone", "gone")
        BY <1>1 DEF Part, Mode, At
      <3>3. QED BY <3>1, <3>2, LeadsWeaker
    <2>4. \A f \in {"ks_cpu", "pinfo", "cpulist", "plib", "pargs"} : \A k, e : Leads(p, x, FreeKept(f), k, k, e)
      BY OnceSteps DEF Other
    <2>5. \A f \in {"kc", "handle"} : \A k, e : Leads(p, x, Dispose(f), k, k, e)
      BY OtherSteps DEF Other
    <2>6. QED BY ONLY <2>3, <2>4, <2>5, LeadsSeq DEF SolarisClose
  <1>20. QED BY <1>18, <1>19

(***************************************************************************)
(* Every platform                                                          *)
(***************************************************************************)
\* Only the two buffers of the mib2 stream are not followed by themselves.
LEMMA NamesFollowed ==
    ASSUME NEW p, NEW x
    PROVE  Local(p, x) \/ Field(p, x) \/ (p = "solaris" /\ x \in {"smb", "db"})
  BY DEF Local, Field, Alone, Tracked, Beside

\* The leaks of the calls whose parts are shown to leak no more.
LEMMA LeaksAre ==
    /\ \A p \in Platforms \ {"aix"} : <<p, "getProcList", "error", "list">> \in Leaks
    /\ \A p \in Platforms \ {"darwin", "win32"} :
         \A op \in {"getNetInterfaceList", "getNetInterfaceConfig"} : <<p, op, "error", "sock">> \in Leaks
    /\ \A status \in {"ok", "thrown"} : <<"hpux", "getFileSystemListNative", status, "fp">> \in Leaks
    /\ <<"hpux", "getFileSystemUsage", "ok", "fslist">> \in Leaks
    /\ <<"hpux", "getFileSystemUsage", "ok", "fp">> \in Leaks
    /\ <<"solaris", "getNetRouteList", "error", "list">> \in Leaks
    /\ <<"solaris", "getNetInfo", "ok", "list">> \in Leaks
    /\ <<"win32", "getCpuInfoList", "error", "list">> \in Leaks
    /\ <<"win32", "getProcPort", "ok", "table">> \in Leaks
    /\ <<"win32", "getProcPort", "error", "table">> \in Leaks
  BY DEF Leaks, Platforms

\* What every platform has: refusals, questions, and the calls of the common code.
LEMMA PlatformParts ==
    ASSUME NEW p \in Platforms, NEW x
    PROVE  /\ Passes(p, x, Ask) /\ Passes(p, x, Fail) /\ Passes(p, x, <<>>) /\ Passes(p, x, Maybe(Fail))
           /\ Passes(p, x, Maybe(Fail) \o Ask) /\ Passes(p, x, Ask \o Ask)
           /\ \A s : Passes(p, x, s) => Keeps(p, x, s)
           /\ Keeps(p, x, File2Str) /\ Keeps(p, x, ProcFdCount) /\ Keeps(p, x, ProcfsList)
           /\ Keeps(p, x, ProcfsArgs) /\ Keeps(p, x, RpcPing)
           /\ x \in {"list", "pids"} => Passes(p, x, ProcfsList) /\ Passes(p, x, ProcfsArgs)
           /\ Gives(p, x, WhoListGet(WhoUtmp))
           /\ \A s : Keeps(p, x, s) /\ (x = "list" => Passes(p, x, s)) => Gives(p, x, WhoListGet(s))
           /\ Gives(p, x, Fail)
           /\ \A s : Gives(p, x, s) => Keeps(p, x, NetInfo(s))
           /\ \A s, op : Gives(p, x, s) /\ op \notin {"open", "nativeClose"} => Answers(p, x, op, s)
           /\ \A s, op : Keeps(p, x, s) /\ op \notin {"open", "nativeClose"} => Runs(p, x, op, s)
  <1>1. /\ Passes(p, x, Ask) /\ Passes(p, x, Fail) /\ Passes(p, x, <<>>) /\ Passes(p, x, Maybe(Fail))
    BY PassingSteps, PassesForms DEF Ask, Fail, Apart
  <1>2. Passes(p, x, Maybe(Fail) \o Ask) /\ Passes(p, x, Ask \o Ask)
    BY <1>1, PassesForms
  <1>3. \A s : Passes(p, x, s) => Keeps(p, x, s)
    BY LeadsOfPasses DEF Keeps
  <1>4. /\ Keeps(p, x, File2Str) /\ Keeps(p, x, ProcFdCount) /\ Keeps(p, x, ProcfsList)
        /\ Keeps(p, x, ProcfsArgs) /\ Keeps(p, x, RpcPing) /\ Keeps(p, x, WhoUtmp)
        /\ x \in {"list", "pids"} => /\ Passes(p, x, ProcfsList) /\ Passes(p, x, ProcfsArgs)
                                     /\ Passes(p, x, WhoUtmp)
        /\ \A s : Gives(p, x, s) => Keeps(p, x, NetInfo(s))
    BY CommonMoves
  <1>5. \A s : Keeps(p, x, s) /\ (x = "list" => Passes(p, x, s)) => Gives(p, x, WhoListGet(s))
    BY CommonMoves DEF WhoListGet
  <1>6. Gives(p, x, Fail)
    <2>1. \A l : Leads(p, x, Fail, "rest", l, "rest")
      BY PassingSteps DEF Apart, Fail
    <2>2. QED BY <2>1 DEF Gives
  <1>7. \A s, op : Keeps(p, x, s) /\ op \notin {"open", "nativeClose"} => Runs(p, x, op, s)
    BY EndsAre
  <1>8. \A s, op : Gives(p, x, s) /\ op \notin {"open", "nativeClose"} => Answers(p, x, op, s)
    BY EndsAre
  <1>9. QED BY <1>1, <1>2, <1>3, <1>4, <1>5, <1>6, <1>7, <1>8

\* The list of processes is as it was when walking them fails.
LEMMA ProcListMoves ==
    ASSUME NEW p \in Platforms \ {"aix"}, NEW x, NEW P, Keeps(p, x, P.procList),
           x = "list" => Passes(p, x, P.procList)
    PROVE  Answers(p, x, "getProcList", ProcListGet(P))
  <1>1. PICK s : s = P.procList
    OBVIOUS
  <1>2. ASSUME x # "list" PROVE Gives(p, x, ProcListGet(P))
    <2>1. Leads(p, x, NewList("list"), "rest", "rest", "rest")
      BY <1>2, OtherSteps DEF Other
    <2>2. Leads(p, x, NewList("list") \o s, "rest", "rest", "rest")
      BY <1>1, <2>1, LeadsSeq DEF Keeps
    <2>3. QED BY <1>1, <1>2, <2>2 DEF Gives, ProcListGet
  <1>3. ASSUME x = "list" PROVE Leads(p, x, ProcListGet(P), "rest", "work", "any")
    <2>1. Local(p, x)
      BY <1>3, NamesAre DEF Resources
    <2>2. Leads(p, x, NewList("list"), "rest", "work", "any")
      BY <1>3, <2>1, LocalSteps
    <2>3. Leads(p, x, s, "work", "work", "work")
      BY <1>1, <1>3, LeadsOfPasses
    <2>4. Leads(p, x, s, "work", "work", "any")
      BY ONLY <2>3, LeadsLess
    <2>5. Leads(p, x, NewList("list") \o s, "rest", "work", "any")
      BY ONLY <2>2, <2>4, LeadsSeq
    <2>6. QED BY <1>1, <2>5 DEF ProcListGet
  <1>4. <<p, "getProcList", "error", "list">> \in Leaks
    BY LeaksAre
  <1>5. QED BY <1>2, <1>3, <1>4, EndsAre

\* A list of interfaces forgets its socket when it is refused.
LEMMA IfListMoves ==
    ASSUME NEW p \in Platforms \ {"darwin", "win32"}, NEW x, NEW b \in BOOLEAN
    PROVE  Answers(p, x, "getNetInterfaceList", InterfaceList(b))
  <1>1. PICK s : s = InterfaceList(b)
    OBVIOUS
  <1>2. Leads(p, x, s, "rest", IF x = "list" THEN "work" ELSE "rest",
              IF x = "sock" THEN "any" ELSE "rest")
    BY <1>1, InterfaceMoves
  <1>3. x # "sock" => Gives(p, x, s)
    BY <1>2 DEF Gives
  <1>4. <<p, "getNetInterfaceList", "error", "sock">> \in Leaks
    BY LeaksAre
  <1>5. QED BY <1>1, <1>2, <1>3, <1>4, EndsAre

\* Linux does what the native methods need of it.
LEMMA LinuxPlatform == \A x : PlatformMoves("linux", x, Linux)
  <1> DEFINE p == "linux"
  <1>1. TAKE x
  <1>2. p \in Platforms
    BY DEF Platforms
  <1>3. Done(p, x, "open", JavaOpen(Linux)) /\ Done(p, x, "nativeClose", JavaClose(Linux))
    <2>1. PICK P : P = Linux
      OBVIOUS
    <2>2. P.open = LinuxOpen /\ P.close = LinuxClose
      BY <2>1 DEF Linux
    <2>3. Local(p, x) \/ Field(p, x)
      BY NamesFollowed
    <2>4. Opened(p, x, P.open) /\ Closed(p, x, P.close)
      BY <2>2, <2>3, LinuxOpens
    <2>5. Done(p, x, "open", JavaOpen(P))
      BY ONLY <1>2, <2>3, <2>4, OpenDone
    <2>6. Done(p, x, "nativeClose", JavaClose(P))
      BY ONLY <1>2, <2>4, CloseDone
    <2>7. QED BY <2>1, <2>5, <2>6
  <1>4. /\ Gives(p, x, LinuxFsList) /\ Gives(p, x, LinuxCpuInfoList)
        /\ Gives(p, x, LinuxCpuList) /\ Gives(p, x, LinuxRouteList)
        /\ Keeps(p, x, LinuxDiskUsage) /\ Keeps(p, x, LinuxFsUsage)
        /\ Keeps(p, x, LinuxCpu) /\ Keeps(p, x, LinuxMem)
        /\ Keeps(p, x, LinuxSwap) /\ Keeps(p, x, LinuxUptime)
        /\ Keeps(p, x, LinuxProcEnv) /\ Keeps(p, x, LinuxProcExe)
        /\ Keeps(p, x, LinuxProcModules) /\ Keeps(p, x, LinuxIfStat)
        /\ Keeps(p, x, LinuxTcp) /\ Keeps(p, x, LinuxNfs)
        /\ Keeps(p, x, LinuxProcList) /\ Keeps(p, x, LinuxConnections)
        /\ Keeps(p, x, LinuxProcPort)
        /\ x \in {"list", "pids"} => /\ Passes(p, x, LinuxProcList)
                                     /\ Passes(p, x, LinuxConnections)
    BY LinuxMoves
  <1>5. Answers(p, x, "getProcList", ProcListGet(Linux))
    <2>1. Linux.procList = LinuxProcList
      BY DEF Linux
    <2>2. QED BY <1>2, <1>4, <2>1, ProcListMoves
  <1>6. Answers(p, x, "getNetInterfaceList", InterfaceList(TRUE))
    BY <1>2, IfListMoves
  <1>7. Keeps(p, x, InterfaceConfig(FALSE)) /\ (x = "list" => Passes(p, x, InterfaceConfig(FALSE)))
    BY <1>2, InterfaceMoves
  <1> HIDE DEF p
  <1>8. \A op \in DOMAIN Linux.more : Runs(p, x, op, Linux.more[op])
    <2>1. DOMAIN Linux.more = {"getProcPort"} /\ Linux.more["getProcPort"] = LinuxProcPort
      BY DEF Linux
    <2>2. QED BY <1>2, <1>4, <2>1, PlatformParts
  <1>9. PlatformMoves(p, x, Linux)
    BY <1>2, <1>3, <1>4, <1>5, <1>6, <1>7, <1>8, PlatformParts DEF PlatformMoves, Linux
  <1>10. QED BY <1>9 DEF p

\* So does AIX.
LEMMA AixPlatform == \A x : PlatformMoves("aix", x, Aix)
  <1> DEFINE p == "aix"
  <1>1. TAKE x
  <1>2. p \in Platforms
    BY DEF Platforms
  <1>3. Done(p, x, "open", JavaOpen(Aix)) /\ Done(p, x, "nativeClose", JavaClose(Aix))
    <2>1. PICK P : P = Aix
      OBVIOUS
    <2>2. P.open = AixOpen /\ P.close = AixClose
      BY <2>1 DEF Aix
    <2>3. Local(p, x) \/ Field(p, x)
      BY NamesFollowed
    <2>4. Opened(p, x, P.open) /\ Closed(p, x, P.close)
      BY <2>2, <2>3, AixOpens
    <2>5. Done(p, x, "open", JavaOpen(P))
      BY ONLY <1>2, <2>3, <2>4, OpenDone
    <2>6. Done(p, x, "nativeClose", JavaClose(P))
      BY ONLY <1>2, <2>4, CloseDone
    <2>7. QED BY <2>1, <2>5, <2>6
  <1>4. /\ Gives(p, x, AixFsList) /\ Gives(p, x, AixCpuInfoList)
        /\ Gives(p, x, AixCpuList) /\ Keeps(p, x, AixFsUsage)
        /\ Keeps(p, x, AixSwap) /\ Keeps(p, x, AixUptime)
        /\ Keeps(p, x, AixGetprocs) /\ Keeps(p, x, AixProcModules)
        /\ Keeps(p, x, AixThreadCpu) /\ Passes(p, x, AixProcList)
        /\ Gives(p, x, NewList("list") \o AixProcList)
        /\ Passes(p, x, AixProcArgs) /\ Passes(p, x, AixConnections)
        /\ Keeps(p, x, AixWhoUtmp) /\ (x = "list" => Passes(p, x, AixWhoUtmp))
    BY AixMoves
  <1>5. Answers(p, x, "getProcList", ProcListGet(Aix))
    <2>1. Aix.procList = AixProcList
      BY DEF Aix
    <2>2. QED BY <1>2, <1>4, <2>1, PlatformParts DEF ProcListGet
  <1>6. Answers(p, x, "getNetInterfaceList", InterfaceList(FALSE))
    BY <1>2, IfListMoves
  <1>7. Keeps(p, x, InterfaceConfig(TRUE)) /\ (x = "list" => Passes(p, x, InterfaceConfig(TRUE)))
    BY <1>2, InterfaceMoves
  <1> HIDE DEF p
  <1>8. \A op \in DOMAIN Aix.more : Runs(p, x, op, Aix.more[op])
    <2>1. DOMAIN Aix.more = {"getProcPort"} /\ Aix.more["getProcPort"] = Maybe(Fail)
      BY DEF Aix
    <2>2. QED BY <1>2, <2>1, PlatformParts
  <1>9. PlatformMoves(p, x, Aix)
    BY <1>2, <1>3, <1>4, <1>5, <1>6, <1>7, <1>8, PlatformParts DEF PlatformMoves, Aix
  <1>10. QED BY <1>9 DEF p

\* So does HP-UX.
LEMMA HpuxPlatform == \A x : PlatformMoves("hpux", x, Hpux)
  <1> DEFINE p == "hpux"
  <1>1. TAKE x
  <1>2. p \in Platforms
    BY DEF Platforms
  <1>3. Done(p, x, "open", JavaOpen(Hpux)) /\ Done(p, x, "nativeClose", JavaClose(Hpux))
    <2>1. PICK P : P = Hpux
      OBVIOUS
    <2>2. P.open = HpuxOpen /\ P.close = HpuxClose
      BY <2>1 DEF Hpux
    <2>3. Local(p, x) \/ Field(p, x)
      BY NamesFollowed
    <2>4. Opened(p, x, P.open) /\ Closed(p, x, P.close)
      BY <2>2, <2>3, HpuxOpens
    <2>5. Done(p, x, "open", JavaOpen(P))
      BY ONLY <1>2, <2>3, <2>4, OpenDone
    <2>6. Done(p, x, "nativeClose", JavaClose(P))
      BY ONLY <1>2, <2>4, CloseDone
    <2>7. QED BY <2>1, <2>5, <2>6
  <1>4. /\ Leads(p, x, HpuxFsList, "rest",
                 IF x = "list" THEN "work" ELSE IF x = "fp" THEN "any" ELSE "rest", "rest")
        /\ Leads(p, x, HpuxFsUsage, "rest",
                 IF x \in {"fslist", "fp"} THEN "any" ELSE "rest", "rest")
        /\ Gives(p, x, HpuxCpuInfoList) /\ Gives(p, x, HpuxCpuList)
        /\ Gives(p, x, HpuxRouteList)
        /\ Keeps(p, x, HpuxProcFd) /\ Keeps(p, x, HpuxProcExe)
        /\ Keeps(p, x, HpuxGetproc) /\ Keeps(p, x, HpuxIfStat)
        /\ Keeps(p, x, HpuxTcp)
        /\ Passes(p, x, HpuxProcList) /\ Passes(p, x, HpuxProcArgs)
        /\ Keeps(p, x, HpuxConnections)
        /\ x = "list" => Passes(p, x, HpuxConnections)
    BY HpuxMoves
  <1>5. Answers(p, x, "getProcList", ProcListGet(Hpux))
    <2>1. Hpux.procList = HpuxProcList
      BY DEF Hpux
    <2>2. QED BY <1>2, <1>4, <2>1, ProcListMoves, PlatformParts
  <1>6. Answers(p, x, "getNetInterfaceList", InterfaceList(FALSE))
    BY <1>2, IfListMoves
  <1>7. Keeps(p, x, InterfaceConfig(FALSE)) /\ (x = "list" => Passes(p, x, InterfaceConfig(FALSE)))
    BY <1>2, InterfaceMoves
  <1>8. /\ Answers(p, x, "getFileSystemListNative", HpuxFsList)
        /\ Runs(p, x, "getFileSystemUsage", HpuxFsUsage)
    <2>1. x # "fp" => Gives(p, x, HpuxFsList)
      BY <1>4 DEF Gives
    <2>2. x = "fp" => Leads(p, x, HpuxFsList, "rest", "any", "rest")
      BY <1>4
    <2>3. x \notin {"fp", "fslist"} => Keeps(p, x, HpuxFsUsage)
      BY <1>4 DEF Keeps
    <2>4. x \in {"fp", "fslist"} => Leads(p, x, HpuxFsUsage, "rest", "any", "rest")
      BY <1>4
    <2>5. /\ <<p, "getFileSystemListNative", "ok", "fp">> \in Leaks
          /\ <<p, "getFileSystemUsage", "ok", "fp">> \in Leaks
          /\ <<p, "getFileSystemUsage", "ok", "fslist">> \in Leaks
      BY LeaksAre
    <2>6. QED BY <2>1, <2>2, <2>3, <2>4, <2>5, EndsAre
  <1> HIDE DEF p
  <1>9. \A op \in DOMAIN Hpux.more : Runs(p, x, op, Hpux.more[op])
    <2>1. DOMAIN Hpux.more = {"getProcPort"} /\ Hpux.more["getProcPort"] = Fail
      BY DEF Hpux
    <2>2. QED BY <1>2, <2>1, PlatformParts
  <1>10. PlatformMoves(p, x, Hpux)
    BY <1>2, <1>3, <1>4, <1>5, <1>6, <1>7, <1>8, <1>9, PlatformParts DEF PlatformMoves, Hpux
  <1>11. QED BY <1>10 DEF p

\* So does Mac OS X.
LEMMA DarwinPlatform == \A x : PlatformMoves("darwin", x, Darwin)
  <1> DEFINE p == "darwin"
  <1>1. TAKE x
  <1>2. p \in Platforms
    BY DEF Platforms
  <1>3. Done(p, x, "open", JavaOpen(Darwin)) /\ Done(p, x, "nativeClose", JavaClose(Darwin))
    <2>1. PICK P : P = Darwin
      OBVIOUS
    <2>2. P.open = DarwinOpen /\ P.close = DarwinClose
      BY <2>1 DEF Darwin
    <2>3. Local(p, x) \/ Field(p, x)
      BY NamesFollowed
    <2>4. Opened(p, x, P.open) /\ Closed(p, x, P.close)
      BY <2>2, <2>3, DarwinOpens
    <2>5. Done(p, x, "open", JavaOpen(P))
      BY ONLY <1>2, <2>3, <2>4, OpenDone
    <2>6. Done(p, x, "nativeClose", JavaClose(P))
      BY ONLY <1>2, <2>4, CloseDone
    <2>7. QED BY <2>1, <2>5, <2>6
  <1>4. /\ Gives(p, x, DarwinFsList) /\ Gives(p, x, DarwinCpuInfoList)
        /\ Gives(p, x, DarwinCpuList) /\ Gives(p, x, DarwinRouteList)
        /\ Gives(p, x, DarwinIfList)
        /\ Keeps(p, x, DarwinDiskUsage) /\ Keeps(p, x, DarwinFsUsage)
        /\ Keeps(p, x, DarwinSwap) /\ Keeps(p, x, DarwinProcEnv)
        /\ Keeps(p, x, DarwinProcExe) /\ Keeps(p, x, DarwinGetPinfo)
        /\ Keeps(p, x, DarwinProcModules)
        /\ Keeps(p, x, DarwinIfConfig) /\ (x = "list" => Passes(p, x, DarwinIfConfig))
        /\ Keeps(p, x, DarwinIfStat) /\ Keeps(p, x, DarwinProcPort)
        /\ Keeps(p, x, DarwinProcList) /\ Keeps(p, x, DarwinProcArgs)
        /\ Keeps(p, x, DarwinConnections)
        /\ x \in {"list", "pids"} => /\ Passes(p, x, DarwinProcList)
                                     /\ Passes(p, x, DarwinProcArgs)
                                     /\ Passes(p, x, DarwinConnections)
        /\ Keeps(p, x, OrElse(WhoUtmp, WhoUtmpx))
        /\ x = "list" => Passes(p, x, OrElse(WhoUtmp, WhoUtmpx))
    BY DarwinMoves
  <1>5. Answers(p, x, "getProcList", ProcListGet(Darwin))
    <2>1. Darwin.procList = DarwinProcList
      BY DEF Darwin
    <2>2. QED BY <1>2, <1>4, <2>1, ProcListMoves
  <1> HIDE DEF p
  <1>6. \A op \in DOMAIN Darwin.more : Runs(p, x, op, Darwin.more[op])
    <2>1. DOMAIN Darwin.more = {"getProcPort"} /\ Darwin.more["getProcPort"] = DarwinProcPort
      BY DEF Darwin
    <2>2. QED BY <1>2, <1>4, <2>1, PlatformParts
  <1>7. PlatformMoves(p, x, Darwin)
    BY <1>2, <1>3, <1>4, <1>5, <1>6, PlatformParts DEF PlatformMoves, Darwin
  <1>8. QED BY <1>7 DEF p

\* So does Solaris.
LEMMA SolarisPlatform == \A x : PlatformMoves("solaris", x, Solaris)
  <1> DEFINE p == "solaris"
  <1>1. TAKE x
  <1>2. p \in Platforms
    BY DEF Platforms
  <1>3. Done(p, x, "open", JavaOpen(Solaris)) /\ Done(p, x, "nativeClose", JavaClose(Solaris))
    <2>1. PICK P : P = Solaris
      OBVIOUS
    <2>2. P.open = SolarisOpen /\ P.close = SolarisClose
      BY <2>1 DEF Solaris
    <2>3. CASE x \notin {"smb", "db"}
      <3>1. Local(p, x) \/ Field(p, x)
        BY <2>3, NamesFollowed
      <3>2. Opened(p, x, P.open) /\ Closed(p, x, P.close)
        BY <2>2, <3>1, SolarisOpens
      <3>3. Done(p, x, "open", JavaOpen(P))
        BY ONLY <1>2, <3>1, <3>2, OpenDone
      <3>4. Done(p, x, "nativeClose", JavaClose(P))
        BY ONLY <1>2, <3>2, CloseDone
      <3>5. QED BY <2>1, <3>3, <3>4
    <2>4. CASE x \in {"smb", "db"}
      <3>1. Done(p, x, "open", JavaOpen(P)) /\ Closed(p, x, P.close)
        BY <2>1, <2>2, <2>4, PairsOpen
      <3>2. Done(p, x, "nativeClose", JavaClose(P))
        BY ONLY <1>2, <3>1, CloseDone
      <3>3. QED BY <2>1, <3>1, <3>2
    <2>5. QED BY <2>3, <2>4
  <1>4. /\ Keeps(p, x, SolarisKstatUpdate)
        /\ x \notin {"kc", "ks_cpu"} => Passes(p, x, SolarisKstatUpdate)
        /\ Gives(p, x, SolarisCpuList) /\ Gives(p, x, SolarisCpuInfoList)
        /\ Keeps(p, x, SolarisSwap) /\ Keeps(p, x, SolarisCpu)
        /\ Keeps(p, x, SolarisIfStat) /\ Keeps(p, x, SolarisNfs)
        /\ Keeps(p, x, SolarisProcArgs) /\ (x = "list" => Passes(p, x, SolarisProcArgs))
        /\ Keeps(p, x, SolarisProcEnv) /\ Keeps(p, x, SolarisPsinfo)
        /\ Keeps(p, x, SolarisProcExe) /\ Keeps(p, x, SolarisProcModules)
        /\ Keeps(p, x, SolarisProcPort)
        /\ Gives(p, x, SolarisFsList)
        /\ Keeps(p, x, SolarisDiskUsage) /\ Keeps(p, x, SolarisFsUsage)
        /\ Leads(p, x, SolarisRouteList, "rest", IF x = "list" THEN "work" ELSE "rest",
                 IF x = "list" THEN "any" ELSE "rest")
        /\ Leads(p, x, NetInfo(SolarisRouteList), "rest",
                 IF x = "list" THEN "any" ELSE "rest", "rest")
        /\ Keeps(p, x, SolarisTcp) /\ Keeps(p, x, SolarisConnections)
        /\ x = "list" => Passes(p, x, SolarisConnections)
    BY SolarisProcMoves, SolarisMoves
  <1>5. Answers(p, x, "getProcList", ProcListGet(Solaris))
    <2>1. Solaris.procList = ProcfsList
      BY DEF Solaris
    <2>2. QED BY <1>2, <2>1, ProcListMoves, PlatformParts
  <1>6. Answers(p, x, "getNetInterfaceList", InterfaceList(FALSE))
    BY <1>2, IfListMoves
  <1>7. Keeps(p, x, InterfaceConfig(FALSE)) /\ (x = "list" => Passes(p, x, InterfaceConfig(FALSE)))
    BY <1>2, InterfaceMoves
  <1>8. /\ Answers(p, x, "getNetRouteList", SolarisRouteList)
        /\ Runs(p, x, "getNetInfo", NetInfo(SolarisRouteList))
    <2>1. x # "list" => Gives(p, x, SolarisRouteList) /\ Keeps(p, x, NetInfo(SolarisRouteList))
      BY <1>4 DEF Gives, Keeps
    <2>2. x = "list" => /\ Leads(p, x, SolarisRouteList, "rest", "work", "any")
                        /\ Leads(p, x, NetInfo(SolarisRouteList), "rest", "any", "rest")
      BY <1>4
    <2>3. /\ <<p, "getNetRouteList", "error", "list">> \in Leaks
          /\ <<p, "getNetInfo", "ok", "list">> \in Leaks
      BY LeaksAre
    <2>4. QED BY <2>1, <2>2, <2>3, EndsAre
  <1> HIDE DEF p
  <1>9. \A op \in DOMAIN Solaris.more : Runs(p, x, op, Solaris.more[op])
    <2>1. DOMAIN Solaris.more = {"getProcPort"} /\ Solaris.more["getProcPort"] = SolarisProcPort
      BY DEF Solaris
    <2>2. QED BY <1>2, <1>4, <2>1, PlatformParts
  <1>10. PlatformMoves(p, x, Solaris)
    BY <1>2, <1>3, <1>4, <1>5, <1>6, <1>7, <1>8, <1>9, PlatformParts DEF PlatformMoves, Solaris
  <1>11. QED BY <1>10 DEF p

(***************************************************************************)
(* The native methods                                                      *)
(***************************************************************************)
Exits(p, x, op) ==
  ({"error"} \X Mode(p, x, Final(p, op, "error", x)))
    \cup ({"thrown"} \X Mode(p, x, Final(p, op, "thrown", x)))

\* What ends with an error ends as the method may.
LEMMA ExitsOfLeads ==
    ASSUME NEW p, NEW x, NEW op, NEW s, NEW k, NEW l, Leads(p, x, s, k, l, Final(p, op, "error", x))
    PROVE  MovesIn(p, s, Mode(p, x, k), Mode(p, x, l), Exits(p, x, op), States(p, x))
  <1>1. PICK E : E = {"error"} \X Mode(p, x, Final(p, op, "error", x))
    OBVIOUS
  <1>2. E \subseteq Exits(p, x, op)
    BY <1>1 DEF Exits
  <1>3. MovesIn(p, s, Mode(p, x, k), Mode(p, x, l), E, States(p, x))
    BY <1>1 DEF Leads
  <1>4. QED BY <1>2, <1>3, MovesWeaker

\* Java may throw where what is followed may be left so.
LEMMA ThrowsMoves ==
    ASSUME NEW p, NEW x, NEW op, NEW k, Part(p, x, k, Final(p, op, "thrown", x))
    PROVE  /\ MovesIn(p, Throws, Mode(p, x, k), Mode(p, x, k), Exits(p, x, op), States(p, x))
           /\ MovesIn(p, Loop(Throws), Mode(p, x, k), Mode(p, x, k), Exits(p, x, op), States(p, x))
  <1>1. PICK V : V = Mode(p, x, k)
    OBVIOUS
  <1>2. V \subseteq States(p, x) /\ AreValues(V)
    BY <1>1, ModesAre
  <1>3. PICK st : st = [do |-> "throws", res |-> Nothing, undo |-> {}, next |-> 1, fail |-> 0]
    OBVIOUS
  <1>4. ASSUME NEW w \in V
        PROVE  Good(p, st, w) /\ Turned(st, w) = w /\ <<"thrown", w>> \in Exits(p, x, op)
    <2>1. Good(p, st, w)
      BY <1>3 DEF Good, Ready, Taking, Failing
    <2>2. Turned(st, w) = w
      BY <1>2, <1>3, <1>4 DEF Turned, Then, Taking, AreValues
    <2>3. <<"thrown", w>> \in Exits(p, x, op)
      BY <1>1, <1>4 DEF Part, Exits
    <2>4. QED BY <2>1, <2>2, <2>3
  <1>5. "throws" \notin Branches /\ "throws" \notin Failing
    BY DEF Branches, Failing
  <1>6. MovesIn(p, Step("throws", Nothing, {}, 1), V, V, Exits(p, x, op), States(p, x))
    BY <1>2, <1>3, <1>4, <1>5, MovesStep
  <1>7. PICK T : T = Throws
    OBVIOUS
  <1>8. MovesIn(p, T, V, V, Exits(p, x, op), States(p, x))
    BY <1>6, <1>7, StepsAreFor
  <1>9. MovesIn(p, Loop(T), V, V, Exits(p, x, op), States(p, x))
    <2>1. MovesIn(p, Step("loop", Nothing, {}, Len(T) + 2) \o T \o Jump(-(Len(T) + 1)), V, V,
                  Exits(p, x, op), States(p, x))
      BY <1>2, <1>8, MovesLoop
    <2>2. QED BY <2>1, LoopIs
  <1>10. QED BY <1>1, <1>7, <1>8, <1>9

\* A method that cannot throw is done when its program ends as it may.
LEMMA RunsDone ==
    ASSUME NEW p, NEW x, NEW op, op \notin {"open", "nativeClose"}, NEW s, Runs(p, x, op, s)
    PROVE  Done(p, x, op, s)
  <1>1. MovesIn(p, s, Mode(p, x, "rest"), Mode(p, x, Final(p, op, "ok", x)), Exits(p, x, op),
                States(p, x))
    BY ExitsOfLeads DEF Runs
  <1>2. Start(p, x, op) = Mode(p, x, "rest")
    BY DEF Start
  <1>3. QED BY <1>1, <1>2 DEF Done, Exits

\* An answer that is taken into Java objects.
LEMMA AnswersDone ==
    ASSUME NEW p \in Platforms, NEW x, NEW op, NEW s, Answers(p, x, op, s),
           op \notin {"open", "nativeClose", "getFileSystemUsage", "getNetInfo", "getProcPort"}
    PROVE  /\ Done(p, x, op, s \o IntoJava)
           /\ op = "getProcList" => Done(p, x, op, s \o PidsIntoJava)
  <1>1. PICK k : k = IF x = "list" THEN "work" ELSE Final(p, op, "ok", x)
    OBVIOUS
  <1>2. PICK l : l = Final(p, op, "ok", x)
    OBVIOUS
  <1>3. PICK e : e = Final(p, op, "error", x)
    OBVIOUS
  <1>4. PICK E : E = Exits(p, x, op)
    OBVIOUS
  <1>5. \A status : Final(p, op, status, x) \in {"rest", "any"}
    BY DEF Final
  <1>6. Local(p, "list") /\ Local(p, "jlongs")
    BY NamesAre DEF Resources
  <1>7. MovesIn(p, s, Mode(p, x, "rest"), Mode(p, x, k), E, States(p, x))
    BY <1>1, <1>4, ExitsOfLeads DEF Answers
  <1>8. Part(p, x, k, Final(p, op, "thrown", x))
    <2>1. CASE x = "list"
      <3>1. Final(p, op, "thrown", x) = "any"
        BY <2>1 DEF Final
      <3>2. QED BY <3>1, PartsAre
    <2>2. CASE x # "list" /\ Final(p, op, "ok", x) = "any"
      <3>1. <<p, op, "ok", x>> \in Leaks
        BY <2>2 DEF Final
      <3>2. <<p, op, "thrown", x>> \in Leaks
        BY <3>1 DEF Leaks
      <3>3. Final(p, op, "thrown", x) = "any"
        BY <3>2 DEF Final
      <3>4. QED BY <3>3, PartsAre
    <2>3. CASE x # "list" /\ Final(p, op, "ok", x) = "rest"
      <3>1. k = "rest" /\ Final(p, op, "thrown", x) \in {"rest", "any"}
        BY <1>1, <1>5, <2>3
      <3>2. QED BY <3>1, PartsAre
    <2>4. QED BY <1>5, <2>1, <2>2, <2>3
  <1>9. PICK T, L : T = Throws /\ L = Loop(Throws)
    OBVIOUS
  <1>10. /\ MovesIn(p, T, Mode(p, x, k), Mode(p, x, k), E, States(p, x))
         /\ MovesIn(p, L, Mode(p, x, k), Mode(p, x, k), E, States(p, x))
    BY <1>4, <1>8, <1>9, ThrowsMoves
  <1>11. PICK F : F = Free("list")
    OBVIOUS
  <1>12. Leads(p, x, F, k, l, e)
    <2>1. CASE x = "list"
      <3>1. Leads(p, x, F, "work", "rest", e)
        BY <1>6, <1>11, <2>1, LocalSteps
      <3>2. QED BY <1>1, <1>2, <1>5, <2>1, <3>1, LeadsLess
    <2>2. CASE x # "list"
      BY <1>1, <1>2, <1>11, <2>2, OtherSteps DEF Other
    <2>3. QED BY <2>1, <2>2
  <1>13. MovesIn(p, F, Mode(p, x, k), Mode(p, x, l), E, States(p, x))
    BY <1>3, <1>4, <1>12, ExitsOfLeads
  <1>14. Start(p, x, op) = Mode(p, x, "rest")
    BY DEF Start
  <1>15. ASSUME NEW t, MovesIn(p, t, Mode(p, x, "rest"), Mode(p, x, l), E, States(p, x))
         PROVE  Done(p, x, op, t)
    BY <1>2, <1>4, <1>14, <1>15 DEF Done, Exits
  <1>16. Done(p, x, op, s \o IntoJava)
    <2>1. MovesIn(p, (T \o L) \o F, Mode(p, x, k), Mode(p, x, l), E, States(p, x))
      BY <1>10, <1>13, MovesSeq
    <2>2. IntoJava = (T \o L) \o F
      BY <1>9, <1>11 DEF IntoJava
    <2>3. MovesIn(p, s \o IntoJava, Mode(p, x, "rest"), Mode(p, x, l), E, States(p, x))
      BY <1>7, <2>1, <2>2, MovesSeq
    <2>4. QED BY <1>15, <2>3
  <1>17. ASSUME op = "getProcList" PROVE Done(p, x, op, s \o PidsIntoJava)
    <2>1. PICK J : J = Take("jlongs") \o Free("jlongs")
      OBVIOUS
    <2>2. Leads(p, x, J, k, k, e)
      <3>1. CASE x = "jlongs"
        <4>1. k = "rest"
          BY <1>1, <1>17, <3>1 DEF Final, Leaks
        <4>2. /\ Leads(p, x, Take("jlongs"), "rest", "work", e)
              /\ Leads(p, x, Free("jlongs"), "work", "rest", e)
          BY <1>6, <3>1, LocalSteps
        <4>3. QED BY ONLY <2>1, <4>1, <4>2, LeadsSeq
      <3>2. CASE x # "jlongs"
        <4>1. Leads(p, x, Take("jlongs"), k, k, e) /\ Leads(p, x, Free("jlongs"), k, k, e)
          BY <3>2, OtherSteps DEF Other
        <4>2. k \in {"rest", "work", "any"}
          BY <1>1, <1>5
        <4>3. QED BY ONLY <2>1, <4>1, <4>2, LeadsSeq
      <3>3. QED BY <3>1, <3>2
    <2>3. PICK M : M = Maybe(J)
      OBVIOUS
    <2>4. Leads(p, x, M, k, k, e)
      BY <2>2, <2>3, LeadsChoices
    <2>5. MovesIn(p, M, Mode(p, x, k), Mode(p, x, k), E, States(p, x))
      BY <1>3, <1>4, <2>4, ExitsOfLeads
    <2>6. MovesIn(p, (T \o M) \o F, Mode(p, x, k), Mode(p, x, l), E, States(p, x))
      BY <1>10, <1>13, <2>5, MovesSeq
    <2>7. PidsIntoJava = (T \o M) \o F
      BY <1>9, <1>11, <2>1, <2>3 DEF PidsIntoJava
    <2>8. MovesIn(p, s \o PidsIntoJava, Mode(p, x, "rest"), Mode(p, x, l), E, States(p, x))
      BY <1>7, <2>6, <2>7, MovesSeq
    <2>9. QED BY <1>15, <2>8
  <1>18. QED BY <1>16, <1>17

\* The list of CPUs of Windows: one that was not made may be handed on as well.
LEMMA UnmadeDone ==
    ASSUME NEW x
    PROVE  Done("win32", x, "getCpuListNative", Either(Win32CpuList \o IntoJava, Win32CpuListUnmade))
  <1>1. PICK p, op : p = "win32" /\ op = "getCpuListNative"
    OBVIOUS
  <1>2. p \in Platforms
    BY <1>1 DEF Platforms
  <1>3. /\ Final(p, op, "ok", x) = "rest" /\ Final(p, op, "error", x) = "rest"
        /\ Final(p, op, "thrown", x) \in {"rest", "any"}
    BY <1>1 DEF Final, Leaks
  <1>4. PICK s, t : s = Win32CpuList \o IntoJava /\ t = Win32CpuListUnmade
    OBVIOUS
  <1>5. PICK a, E : a = Mode(p, x, "rest") /\ E = Exits(p, x, op)
    OBVIOUS
  <1>6. Start(p, x, op) = a
    BY <1>1, <1>5 DEF Start
  <1>7. \A q : Done(p, x, op, q) <=> MovesIn(p, q, a, a, E, States(p, x))
    BY <1>3, <1>5, <1>6 DEF Done, Exits
  <1>8. MovesIn(p, s, a, a, E, States(p, x))
    <2>1. Answers(p, x, op, Win32CpuList)
      BY <1>1, <1>3, Win32Moves DEF Gives, Answers
    <2>2. op \notin {"open", "nativeClose", "getFileSystemUsage", "getNetInfo", "getProcPort"}
      BY <1>1
    <2>3. QED BY <1>2, <1>4, <1>7, <2>1, <2>2, AnswersDone
  <1>9. MovesIn(p, t, a, a, E, States(p, x))
    <2>1. PICK q, T, L, F : /\ q = Dll("ntdll") \o PerfObject \o Use("unmade")
                            /\ T = Throws /\ L = Loop(Throws) /\ F = Free("unmade")
      OBVIOUS
    <2>2. t = ((q \o T) \o L) \o F
      BY <1>4, <2>1 DEF Win32CpuListUnmade
    <2>3. Leads(p, x, q, "rest", "rest", "rest")
      BY <1>1, <2>1, Win32Moves DEF Keeps
    <2>4. Leads(p, x, F, "rest", "rest", "rest")
      <3>1. CASE x = "unmade"
        BY <1>1, <2>1, <3>1, Win32Names, StaleSteps DEF Resources
      <3>2. CASE x # "unmade"
        BY <2>1, <3>2, OtherSteps DEF Other
      <3>3. QED BY <3>1, <3>2
    <2>5. MovesIn(p, q, a, a, E, States(p, x)) /\ MovesIn(p, F, a, a, E, States(p, x))
      BY <1>3, <1>5, <2>3, <2>4, ExitsOfLeads
    <2>6. Part(p, x, "rest", Final(p, op, "thrown", x))
      BY <1>3, PartsAre
    <2>7. MovesIn(p, T, a, a, E, States(p, x)) /\ MovesIn(p, L, a, a, E, States(p, x))
      BY <1>5, <2>1, <2>6, ThrowsMoves
    <2>8. QED BY <2>2, <2>5, <2>7, MovesSeq
  <1>10. a \subseteq States(p, x) /\ AreValues(a)
    BY <1>5, ModesAre
  <1>11. MovesIn(p, Either(s, t), a, a, E, States(p, x))
    BY <1>8, <1>9, <1>10, EitherForms
  <1>12. QED BY <1>1, <1>4, <1>7, <1>11

\* So does Windows.
LEMMA Win32Platform == \A x : PlatformMoves("win32", x, Win32)
  <1> DEFINE p == "win32"
  <1>1. TAKE x
  <1>2. p \in Platforms
    BY DEF Platforms
  <1>3. Done(p, x, "open", JavaOpen(Win32)) /\ Done(p, x, "nativeClose", JavaClose(Win32))
    <2>1. PICK P : P = Win32
      OBVIOUS
    <2>2. P.open = Win32Open /\ P.close = Win32Close
      BY <2>1 DEF Win32
    <2>3. Local(p, x) \/ Field(p, x)
      BY NamesFollowed
    <2>4. Opened(p, x, P.open) /\ Closed(p, x, P.close)
      BY <2>2, <2>3, Win32Opens
    <2>5. Done(p, x, "open", JavaOpen(P))
      BY ONLY <1>2, <2>3, <2>4, OpenDone
    <2>6. Done(p, x, "nativeClose", JavaClose(P))
      BY ONLY <1>2, <2>4, CloseDone
    <2>7. QED BY <2>1, <2>5, <2>6
  <1>4. /\ Keeps(p, x, PerfObject) /\ Keeps(p, x, Win32Mem)
        /\ Keeps(p, x, Win32Cpu) /\ Gives(p, x, Win32CpuList)
        /\ Keeps(p, x, Win32ProcList)
        /\ x \in {"list", "pids"} => Passes(p, x, Win32ProcList)
        /\ Keeps(p, x, Win32CredName) /\ Keeps(p, x, Win32ProcInfo)
        /\ Keeps(p, x, Win32ProcArgs) /\ (x = "list" => Passes(p, x, Win32ProcArgs))
        /\ Keeps(p, x, Win32ProcEnv) /\ Keeps(p, x, Win32ProcExe)
        /\ Keeps(p, x, Win32ProcModules) /\ Gives(p, x, Win32FsList)
        /\ Keeps(p, x, Win32DiskUsage) /\ Keeps(p, x, Win32FsUsage)
        /\ Leads(p, x, Win32CpuInfoList, "rest", IF x = "list" THEN "work" ELSE "rest",
                 IF x = "list" THEN "any" ELSE "rest")
        /\ Keeps(p, x, Win32ServicePid) /\ Keeps(p, x, Win32FileVersion)
        /\ Gives(p, x, Win32WhoList) /\ Keeps(p, x, Winsock \o Ask)
        /\ Keeps(p, x, Win32NetInfo) /\ Gives(p, x, Win32IfList)
        /\ Keeps(p, x, Win32IfConfig) /\ Keeps(p, x, Win32MibIfrow)
        /\ x = "list" => Passes(p, x, Win32IfConfig)
        /\ Gives(p, x, Win32RouteList)
        /\ Keeps(p, x, Win32Connections) /\ (x = "list" => Passes(p, x, Win32Connections))
        /\ Keeps(p, x, Dll("iphlpapi") \o Ask)
        /\ Leads(p, x, Win32ProcPort, "rest", IF x = "table" THEN "any" ELSE "rest",
                 IF x = "table" THEN "any" ELSE "rest")
    BY Win32Moves, Win32NetMoves
  <1>5. Answers(p, x, "getProcList", ProcListGet(Win32))
    <2>1. Win32.procList = Win32ProcList
      BY DEF Win32
    <2>2. QED BY <1>2, <1>4, <2>1, ProcListMoves
  <1>6. /\ Answers(p, x, "getCpuInfoList", Win32CpuInfoList)
        /\ Runs(p, x, "getProcPort", Win32ProcPort)
    <2>1. x # "list" => Gives(p, x, Win32CpuInfoList)
      BY <1>4 DEF Gives
    <2>2. x = "list" => Leads(p, x, Win32CpuInfoList, "rest", "work", "any")
      BY <1>4
    <2>3. x # "table" => Keeps(p, x, Win32ProcPort)
      BY <1>4 DEF Keeps
    <2>4. x = "table" => Leads(p, x, Win32ProcPort, "rest", "any", "any")
      BY <1>4
    <2>5. /\ <<p, "getCpuInfoList", "error", "list">> \in Leaks
          /\ <<p, "getProcPort", "ok", "table">> \in Leaks
          /\ <<p, "getProcPort", "error", "table">> \in Leaks
      BY LeaksAre
    <2>6. QED BY <2>1, <2>2, <2>3, <2>4, <2>5, EndsAre
  <1> HIDE DEF p
  <1>7. \A op \in DOMAIN Win32.more : Runs(p, x, op, Win32.more[op]) \/ Done(p, x, op, Win32.more[op])
    <2>1. PICK R : R = Win32.more
      OBVIOUS
    <2>2. /\ DOMAIN R = {"getCpuListNative", "getFQDN", "getProcPort", "getServicePid",
                         "getProcCredName", "getFileVersion"}
          /\ R["getCpuListNative"] = Either(Win32CpuList \o IntoJava, Win32CpuListUnmade)
          /\ R["getFQDN"] = Winsock \o Ask
          /\ R["getProcPort"] = Win32ProcPort
          /\ R["getServicePid"] = Win32ServicePid
          /\ R["getProcCredName"] = Win32CredName
          /\ R["getFileVersion"] = Win32FileVersion
      BY <2>1 DEF Win32
    <2>3. Done(p, x, "getCpuListNative", R["getCpuListNative"])
      BY <2>2, UnmadeDone DEF p
    <2>4. \A op \in {"getFQDN", "getServicePid", "getProcCredName", "getFileVersion"} :
            Runs(p, x, op, R[op])
      BY <1>4, <2>2, EndsAre
    <2>5. Runs(p, x, "getProcPort", R["getProcPort"])
      BY <1>6, <2>2
    <2>6. QED BY ONLY <2>1, <2>2, <2>3, <2>4, <2>5
  <1>8. Keeps(p, x, Win32Swap) /\ Keeps(p, x, Win32Uptime)
    <2>1. Win32Swap = Win32Mem /\ Win32Uptime = PerfObject
      BY DEF Win32Swap, Win32Mem, Win32Uptime
    <2>2. QED BY <1>4, <2>1
  <1>9. PlatformMoves(p, x, Win32)
    BY <1>2, <1>3, <1>4, <1>5, <1>6, <1>7, <1>8, PlatformParts DEF PlatformMoves, Win32
  <1>10. QED BY <1>9 DEF p

\* The primary interface: the list of all, then the settings of each.
LEMMA PrimaryMoves ==
    ASSUME NEW p \in Platforms, NEW x, NEW P, PlatformMoves(p, x, P)
    PROVE  Done(p, x, "getNetInterfaceConfig", Either(P.ifConfig, InterfacePrimary(P)))
  <1>1. PICK e : e = Final(p, "getNetInterfaceConfig", "error", x)
    OBVIOUS
  <1>2. /\ e \in {"rest", "any"} /\ Final(p, "getNetInterfaceList", "error", x) = e
        /\ Final(p, "getNetInterfaceList", "ok", x) = "rest"
        /\ Final(p, "getNetInterfaceConfig", "ok", x) = "rest"
    BY <1>1 DEF Final, Leaks
  <1>3. /\ Leads(p, x, P.ifList, "rest", IF x = "list" THEN "work" ELSE "rest", e)
        /\ Leads(p, x, P.ifConfig, "rest", "rest", "rest")
        /\ x = "list" => Passes(p, x, P.ifConfig)
    BY <1>2 DEF PlatformMoves, Answers, Keeps
  <1>4. PICK k : k = IF x = "list" THEN "work" ELSE "rest"
    OBVIOUS
  <1>5. Leads(p, x, P.ifConfig, k, k, k)
    BY <1>3, <1>4, LeadsOfPasses
  <1>6. PICK A : A = Loop(Try(P.ifConfig))
    OBVIOUS
  <1>7. Leads(p, x, A, k, k, e)
    BY <1>4, <1>5, <1>6, LeadsOrElse, LeadsChoices
  <1>8. PICK B : B = Free("list")
    OBVIOUS
  <1>9. Leads(p, x, B, k, "rest", e)
    <2>1. CASE x = "list"
      <3>1. Local(p, x)
        BY <2>1, NamesAre DEF Resources
      <3>2. QED BY <1>4, <1>8, <2>1, <3>1, LocalSteps
    <2>2. CASE x # "list"
      BY <1>4, <1>8, <2>2, OtherSteps DEF Other
    <2>3. QED BY <2>1, <2>2
  <1>10. PICK C : C = Maybe(Fail)
    OBVIOUS
  <1>11. Leads(p, x, C, "rest", "rest", e)
    <2>1. Leads(p, x, C, "rest", "rest", "rest")
      BY <1>10, PlatformParts, LeadsOfPasses
    <2>2. QED BY <1>2, <2>1, LeadsLess
  <1>12. PICK D : D = ((P.ifList \o A) \o B) \o C
    OBVIOUS
  <1>13. Leads(p, x, D, "rest", "rest", e)
    <2>1. Leads(p, x, P.ifList, "rest", k, e) /\ (k = "work" \/ k = "rest")
      BY <1>3, <1>4
    <2>2. Leads(p, x, P.ifList \o A, "rest", k, e)
      BY ONLY <1>7, <2>1, LeadsSeq
    <2>3. Leads(p, x, (P.ifList \o A) \o B, "rest", "rest", e)
      BY ONLY <1>9, <2>1, <2>2, LeadsSeq
    <2>4. QED BY ONLY <1>11, <1>12, <2>3, LeadsSeq
  <1>14. Leads(p, x, P.ifConfig, "rest", "rest", e)
    BY <1>2, <1>3, LeadsLess
  <1>15. Leads(p, x, Either(P.ifConfig, D), "rest", "rest", e)
    BY <1>13, <1>14, LeadsChoices
  <1>16. InterfacePrimary(P) = D
    BY <1>6, <1>8, <1>10, <1>12 DEF InterfacePrimary
  <1>17. Runs(p, x, "getNetInterfaceConfig", Either(P.ifConfig, InterfacePrimary(P)))
    BY <1>1, <1>2, <1>15, <1>16 DEF Runs
  <1>18. QED BY <1>17, RunsDone

\* The native methods whose answer is a list.
LEMMA ListMethodsDone ==
    ASSUME NEW p \in Platforms, NEW x, NEW P, PlatformMoves(p, x, P)
    PROVE  /\ Done(p, x, "getFileSystemListNative", P.fsList \o IntoJava)
           /\ Done(p, x, "getCpuInfoList", P.cpuInfoList \o IntoJava)
           /\ Done(p, x, "getCpuListNative", P.cpuList \o IntoJava)
           /\ Done(p, x, "getProcList", ProcListGet(P) \o PidsIntoJava)
           /\ Done(p, x, "getProcArgs", ProcArgsGet(P) \o IntoJava)
           /\ Done(p, x, "getNetRouteList", P.routeList \o IntoJava)
           /\ Done(p, x, "getNetInterfaceList", P.ifList \o IntoJava)
           /\ Done(p, x, "getNetConnectionList", ConnectionListGet(P.connections) \o IntoJava)
           /\ Done(p, x, "getWhoList", P.who \o IntoJava)
  <1>1. /\ Answers(p, x, "getFileSystemListNative", P.fsList)
        /\ Answers(p, x, "getCpuInfoList", P.cpuInfoList)
        /\ Answers(p, x, "getCpuListNative", P.cpuList)
        /\ Answers(p, x, "getProcList", ProcListGet(P))
        /\ Answers(p, x, "getNetRouteList", P.routeList)
        /\ Answers(p, x, "getNetInterfaceList", P.ifList)
    BY DEF PlatformMoves
  <1>2. \A s : Keeps(p, x, s) /\ (x = "list" => Passes(p, x, s)) =>
                 Gives(p, x, NewList("list") \o Within({"list"}, s))
    BY CommonMoves
  <1>3. /\ Keeps(p, x, P.procArgs) /\ (x = "list" => Passes(p, x, P.procArgs))
        /\ Keeps(p, x, P.connections) /\ (x = "list" => Passes(p, x, P.connections))
        /\ Gives(p, x, P.who)
    BY DEF PlatformMoves
  <1>4. Gives(p, x, ProcArgsGet(P)) /\ Gives(p, x, ConnectionListGet(P.connections))
    BY <1>2, <1>3 DEF ProcArgsGet, ConnectionListGet
  <1>5. /\ Answers(p, x, "getProcArgs", ProcArgsGet(P)) /\ Answers(p, x, "getWhoList", P.who)
        /\ Answers(p, x, "getNetConnectionList", ConnectionListGet(P.connections))
    BY <1>3, <1>4, EndsAre
  <1>6. \A op, s : op \notin {"open", "nativeClose", "getFileSystemUsage", "getNetInfo", "getProcPort"}
                   /\ Answers(p, x, op, s) =>
                     /\ Done(p, x, op, s \o IntoJava)
                     /\ op = "getProcList" => Done(p, x, op, s \o PidsIntoJava)
    BY AnswersDone
  <1>7. QED BY <1>1, <1>5, <1>6

\* The native methods of a platform whose parts do what they should.
LEMMA JavaCallsMove ==
    ASSUME NEW p \in Platforms, NEW x, NEW P, PlatformMoves(p, x, P), SafePlatform(P),
           \A op \in DOMAIN P.more : op \notin {"open", "nativeClose"}
    PROVE  \A op \in DOMAIN JavaCalls(P) : Done(p, x, op, JavaCalls(P)[op])
  <1>1. Done(p, x, "open", JavaOpen(P)) /\ Done(p, x, "nativeClose", JavaClose(P))
    BY DEF PlatformMoves
  <1>2. Runs(p, x, "getFileSystemUsage", P.fsUsage) /\ Runs(p, x, "getNetInfo", P.netInfo)
        /\ \A op \in DOMAIN P.more : Runs(p, x, op, P.more[op]) \/ Done(p, x, op, P.more[op])
    BY DEF PlatformMoves
  <1>3. /\ Keeps(p, x, P.diskUsage) /\ Keeps(p, x, P.cpu) /\ Keeps(p, x, P.mem)
        /\ Keeps(p, x, P.swap) /\ Keeps(p, x, P.uptime) /\ Keeps(p, x, P.procEnv)
        /\ Keeps(p, x, P.procFd) /\ Keeps(p, x, P.procExe) /\ Keeps(p, x, P.procInfo)
        /\ Keeps(p, x, P.procModules) /\ Keeps(p, x, P.threadCpu) /\ Keeps(p, x, P.ifStat)
        /\ Keeps(p, x, P.tcp) /\ Keeps(p, x, P.nfs) /\ Keeps(p, x, P.rpcPing)
    BY DEF PlatformMoves
  <1>4. \A op, s : Keeps(p, x, s) /\ op \notin {"open", "nativeClose"} => Done(p, x, op, s)
    BY EndsAre, RunsDone
  <1>5. \A op, s : Runs(p, x, op, s) /\ op \notin {"open", "nativeClose"} => Done(p, x, op, s)
    BY RunsDone
  <1>6. Keeps(p, x, ProcListReused(P))
    <2>1. /\ Safe(P.procList) /\ Keeps(p, x, P.procList)
          /\ x \in {"list", "pids"} => Passes(p, x, P.procList)
      BY DEF PlatformMoves, SafePlatform
    <2>2. QED BY <2>1, CommonMoves DEF ProcListReused
  <1>7. /\ Keeps(p, x, KeepOnce("proc_cpu") \o UseKept("proc_cpu") \o Ask)
        /\ Keeps(p, x, KeepOnce("net_listen") \o Loop(UseKept("net_listen")))
    BY CommonMoves
  <1>8. Keeps(p, x, Either(KeepOnce("services_tcp") \o UseKept("services_tcp"),
                           KeepOnce("services_udp") \o UseKept("services_udp")))
    <2>1. {"services_tcp", "services_udp"} \subseteq CommonPassing
      BY DEF CommonPassing, CommonFields
    <2>2. PICK s, t : /\ s = KeepOnce("services_tcp") \o UseKept("services_tcp")
                      /\ t = KeepOnce("services_udp") \o UseKept("services_udp")
      OBVIOUS
    <2>3. Keeps(p, x, s) /\ Keeps(p, x, t)
      BY <2>1, <2>2, CommonMoves
    <2>4. Keeps(p, x, Either(s, t))
      BY <2>3, LeadsChoices DEF Keeps
    <2>5. QED BY <2>2, <2>4
  <1>9. Done(p, x, "getNetInterfaceConfig", Either(P.ifConfig, InterfacePrimary(P)))
    BY PrimaryMoves
  <1>10. \A op \in DOMAIN NativeMethods(P) : Done(p, x, op, NativeMethods(P)[op])
    <2>1. PICK R : R = NativeMethods(P)
      OBVIOUS
    <2>2. DOMAIN R = {
            "open", "nativeClose", "getFileSystemListNative", "getDiskUsage",
            "getFileSystemUsage", "getCpuInfoList", "getCpuListNative", "getCpu", "getMem",
            "getSwap", "getUptime", "getProcList", "getProcArgs", "getProcEnv", "getProcFd",
            "getProcExe", "getProcModulesNative", "getThreadCpu", "getNetRouteList",
            "getNetInterfaceList", "getNetInterfaceConfig", "getNetInterfaceStat",
            "getNetInfo", "getNetConnectionList", "getTcp", "getNfsClientV2", "getWhoList",
            "getProcMem", "RPC_ping", "findProcess", "getProcCpu", "getNetStat",
            "getNetServicesName"}
      BY <2>1 DEF NativeMethods
    <2>3. /\ R["open"] = JavaOpen(P)
          /\ R["nativeClose"] = JavaClose(P)
          /\ R["getFileSystemListNative"] = P.fsList \o IntoJava
          /\ R["getDiskUsage"] = P.diskUsage
          /\ R["getFileSystemUsage"] = P.fsUsage
          /\ R["getCpuInfoList"] = P.cpuInfoList \o IntoJava
          /\ R["getCpuListNative"] = P.cpuList \o IntoJava
          /\ R["getCpu"] = P.cpu
          /\ R["getMem"] = P.mem
          /\ R["getSwap"] = P.swap
          /\ R["getUptime"] = P.uptime
          /\ R["getProcList"] = ProcListGet(P) \o PidsIntoJava
          /\ R["getProcArgs"] = ProcArgsGet(P) \o IntoJava
          /\ R["getProcEnv"] = P.procEnv
          /\ R["getProcFd"] = P.procFd
          /\ R["getProcExe"] = P.procExe
          /\ R["getProcModulesNative"] = P.procModules
          /\ R["getThreadCpu"] = P.threadCpu
          /\ R["getNetRouteList"] = P.routeList \o IntoJava
          /\ R["getNetInterfaceList"] = P.ifList \o IntoJava
          /\ R["getNetInterfaceConfig"] = Either(P.ifConfig, InterfacePrimary(P))
          /\ R["getNetInterfaceStat"] = P.ifStat
          /\ R["getNetInfo"] = P.netInfo
          /\ R["getNetConnectionList"] = ConnectionListGet(P.connections) \o IntoJava
          /\ R["getTcp"] = P.tcp
          /\ R["getNfsClientV2"] = P.nfs
          /\ R["getWhoList"] = P.who \o IntoJava
          /\ R["getProcMem"] = P.procInfo
          /\ R["RPC_ping"] = P.rpcPing
          /\ R["findProcess"] = ProcListReused(P)
          /\ R["getProcCpu"] = KeepOnce("proc_cpu") \o UseKept("proc_cpu") \o Ask
          /\ R["getNetStat"] = KeepOnce("net_listen") \o Loop(UseKept("net_listen"))
          /\ R["getNetServicesName"] = Either(KeepOnce("services_tcp") \o UseKept("services_tcp"),
            KeepOnce("services_udp") \o UseKept("services_udp"))
      BY <2>1 DEF NativeMethods
    <2>4. \A op \in {"getDiskUsage", "getCpu", "getMem", "getSwap", "getUptime", "getProcEnv",
                     "getProcFd", "getProcExe"} : Done(p, x, op, R[op])
      BY ONLY <1>3, <1>4, <2>3
    <2>5. \A op \in {"getProcMem", "getProcModulesNative", "getThreadCpu", "getNetInterfaceStat",
                     "getTcp", "getNfsClientV2", "RPC_ping"} : Done(p, x, op, R[op])
      BY ONLY <1>3, <1>4, <2>3
    <2>6. \A op \in {"findProcess", "getProcCpu", "getNetStat", "getNetServicesName"} :
            Done(p, x, op, R[op])
      BY ONLY <1>4, <1>6, <1>7, <1>8, <2>3
    <2>7. \A op \in {"open", "nativeClose", "getFileSystemUsage", "getNetInfo",
                     "getNetInterfaceConfig"} : Done(p, x, op, R[op])
      BY ONLY <1>1, <1>2, <1>5, <1>9, <2>3
    <2>8. \A op \in {"getFileSystemListNative", "getCpuInfoList", "getCpuListNative", "getProcList",
                     "getProcArgs", "getNetRouteList", "getNetInterfaceList",
                     "getNetConnectionList", "getWhoList"} : Done(p, x, op, R[op])
      <3>1. /\ Done(p, x, "getFileSystemListNative", P.fsList \o IntoJava)
            /\ Done(p, x, "getCpuInfoList", P.cpuInfoList \o IntoJava)
            /\ Done(p, x, "getCpuListNative", P.cpuList \o IntoJava)
            /\ Done(p, x, "getProcList", ProcListGet(P) \o PidsIntoJava)
            /\ Done(p, x, "getProcArgs", ProcArgsGet(P) \o IntoJava)
            /\ Done(p, x, "getNetRouteList", P.routeList \o IntoJava)
            /\ Done(p, x, "getNetInterfaceList", P.ifList \o IntoJava)
            /\ Done(p, x, "getNetConnectionList", ConnectionListGet(P.connections) \o IntoJava)
            /\ Done(p, x, "getWhoList", P.who \o IntoJava)
        BY ListMethodsDone
      <3>2. QED BY ONLY <2>3, <3>1
    <2>9. \A op \in DOMAIN R : Done(p, x, op, R[op])
      BY ONLY <2>2, <2>4, <2>5, <2>6, <2>7, <2>8
    <2>10. QED BY <2>1, <2>9
  <1>11. \A op \in DOMAIN P.more : Done(p, x, op, P.more[op])
    BY <1>2, <1>5
  <1>12. QED BY <1>10, <1>11 DEF JavaCalls

\* Every method of every platform does with x what it may.
LEMMA ProgramsMove ==
    ASSUME platform \in Platforms
    PROVE  \A x : \A op \in DOMAIN Programs[platform] :
             Done(platform, x, op, Programs[platform][op])
  <1>1. TAKE x
  <1>2. /\ \A op \in DOMAIN Linux.more : op \notin {"open", "nativeClose"}
        /\ \A op \in DOMAIN Aix.more : op \notin {"open", "nativeClose"}
        /\ \A op \in DOMAIN Hpux.more : op \notin {"open", "nativeClose"}
    BY DEF Linux, Aix, Hpux
  <1>3. /\ \A op \in DOMAIN Solaris.more : op \notin {"open", "nativeClose"}
        /\ \A op \in DOMAIN Darwin.more : op \notin {"open", "nativeClose"}
        /\ \A op \in DOMAIN Win32.more : op \notin {"open", "nativeClose"}
    BY DEF Solaris, Darwin, Win32
  <1>4. \E P : /\ SafePlatform(P) /\ PlatformMoves(platform, x, P)
               /\ Programs[platform] = JavaCalls(P)
               /\ \A op \in DOMAIN P.more : op \notin {"open", "nativeClose"}
    <2>1. CASE platform = "linux"
      <3>1. Programs["linux"] = JavaCalls(Linux)
        BY DEF Programs
      <3>2. QED BY <1>2, <2>1, <3>1, LinuxSafe, LinuxPlatform
    <2>2. CASE platform = "aix"
      <3>1. Programs["aix"] = JavaCalls(Aix)
        BY DEF Programs
      <3>2. QED BY <1>2, <2>2, <3>1, AixSafe, AixPlatform
    <2>3. CASE platform = "hpux"
      <3>1. Programs["hpux"] = JavaCalls(Hpux)
        BY DEF Programs
      <3>2. QED BY <1>2, <2>3, <3>1, HpuxSafe, HpuxPlatform
    <2>4. CASE platform = "solaris"
      <3>1. Programs["solaris"] = JavaCalls(Solaris)
        BY DEF Programs
      <3>2. QED BY <1>3, <2>4, <3>1, SolarisSafe, SolarisPlatform
    <2>5. CASE platform = "darwin"
      <3>1. Programs["darwin"] = JavaCalls(Darwin)
        BY DEF Programs
      <3>2. QED BY <1>3, <2>5, <3>1, DarwinSafe, DarwinPlatform
    <2>6. CASE platform = "win32"
      <3>1. Programs["win32"] = JavaCalls(Win32)
        BY DEF Programs
      <3>2. QED BY <1>3, <2>6, <3>1, Win32Safe, Win32Platform
    <2>7. QED BY <2>1, <2>2, <2>3, <2>4, <2>5, <2>6 DEF Platforms
  <1>5. QED BY <1>4, JavaCallsMove

(***************************************************************************)
(* The machine: what the fields f and the resources h that a call has make *)
(* of the names that are followed.                                         *)
(***************************************************************************)
NowOf(f, h, n) == IF n \in DOMAIN f THEN f[n] ELSE IF n \in DOMAIN h THEN "held" ELSE "out"
SeenOf(N, f, h) == [n \in N |-> NowOf(f, h, n)]
Seen(x, c, f) == SeenOf(Tracked(platform, x), f, c.held)

\* The call has come to where its program says that x may be as it is, or has
\* ended as its program says it may.
Placed(x, c, f) ==
  LET s == Programs[platform][c.op]
  IN  \E known :
        /\ SoundFrom(platform, s, 0, Len(s), known, Exits(platform, x, c.op))
        /\ known[Len(s) + 1] \subseteq Mode(platform, x, Final(platform, c.op, "ok", x))
        /\ c.pc # 0 => c.status = "ok" /\ c.pc \in 1..Len(s)+1 /\ Seen(x, c, f) \in known[c.pc]
        /\ c.pc = 0 => <<c.status, Seen(x, c, f)>> \in Exits(platform, x, c.op)

\* Nothing was lost or used that was not there, but for the stale buffers, and
\* no resource of the call has the name of a field.
Clean(c, f) ==
  /\ DOMAIN f = Kept[platform] /\ \A n \in Kept[platform] : f[n] \in FieldValues
  /\ DOMAIN c.held \cap Kept[platform] = {}
  /\ c.lost = {} /\ c.bad \subseteq StaleBuffers[platform]

\* Between two calls everything is as the next one finds it.
Resting(o, f) ==
  \A x, op : o = (op # "open") => SeenOf(Tracked(platform, x), f, <<>>) \in Start(platform, x, op)

CallsIInv ==
  /\ RowsIInv /\ Clean(call, fields)
  /\ call.op = Nothing => Resting(opened, fields)
  /\ call.op # Nothing => opened = (call.op # "open") /\ \A x : Placed(x, call, fields)

(***************************************************************************)
(* What a step does to the names, one by one.                              *)
(***************************************************************************)
Now(n) == NowOf(fields, call.held, n)
TurnedNow(n) ==
  IF step.do = "new_handle" THEN Renewed(n, Now(n))
    ELSE IF n = step.res THEN Then(step.do, Now(n)) ELSE Now(n)
UndoneNow(n) == IF n \in step.undo THEN "out" ELSE Now(n)

\* The call c with the fields f is the one in progress after its step.
Follows(c, f) ==
  /\ c.op = call.op
  /\ \/ /\ c.pc = call.pc + 1 /\ c.status = call.status /\ step.do \notin Ends
        /\ step.do = "if_kept" => Now(step.res) # "null"
        /\ \A n : NowOf(f, c.held, n) = TurnedNow(n)
     \/ /\ c.pc = call.pc + step.next /\ c.status = call.status /\ step.do \in Branches
        /\ step.do = "if_kept" => Now(step.res) = "null"
        /\ \A n : NowOf(f, c.held, n) = Now(n)
     \/ /\ c.pc = call.pc + step.fail /\ c.status = call.status /\ step.fail # 0
        /\ step.do \in Failing /\ \A n : NowOf(f, c.held, n) = UndoneNow(n)
     \/ /\ c.pc = 0 /\ c.status = "error" /\ step.fail = 0
        /\ step.do \in Failing /\ \A n : NowOf(f, c.held, n) = UndoneNow(n)
     \/ /\ c.pc = 0 /\ c.status = "thrown" /\ step.do = "throws"
        /\ \A n : NowOf(f, c.held, n) = Now(n)

\* Where a call is in its program.
LEMMA CallIsAt ==
    ASSUME RowsIInv, call.op # Nothing, NEW s, s = Programs[platform][call.op]
    PROVE  /\ call.op \in DOMAIN Programs[platform] /\ IsSteps(s) /\ Len(s) \in Nat
           /\ call.pc \in 0..Len(s)+1
           /\ call.pc \in 1..Len(s) => step = s[call.pc]
           /\ call.pc \notin 1..Len(s) => step = Over[1]
           /\ Over[1].do = "return"
  <1>1. call.op \in DOMAIN Programs[platform] /\ IsSteps(s) /\ Len(s) \in Nat
    BY ProgramsSafe, FitsAre DEF RowsIInv, Fine, RightPlace, Safe
  <1>2. IsSteps(Over) /\ Len(Over) = 1 /\ Over[1].do = "return"
    <2>1. PICK n \in Int : n = 1
      OBVIOUS
    <2>2. Over = Step("return", Nothing, {}, n)
      BY <2>1, MachineIs
    <2>3. IsSteps(Over) /\ Len(Over) = 1
      BY <2>2, StepIs
    <2>4. Over[1] = [do |-> "return", res |-> Nothing, undo |-> {}, next |-> n, fail |-> 0]
      BY <2>2, StepIs
    <2>5. QED BY <2>3, <2>4
  <1>3. call.pc \in 0..Len(s)+1
    <2>1. call.pc # 0 => call.pc \in 1..Len(s)+1
      BY DEF RowsIInv, Fine, RightPlace
    <2>2. QED BY <1>1, <2>1
  <1>4. step = IF call.pc = 0 THEN Over[1] ELSE (s \o Over)[call.pc]
    BY MachineIs DEF RowsIInv
  <1>5. ASSUME call.pc \in 1..Len(s) PROVE step = s[call.pc]
    <2>1. \A i \in 1..Len(s) : (s \o Over)[i] = s[i]
      BY ONLY <1>1, <1>2, IsStepsJoin
    <2>2. (s \o Over)[call.pc] = s[call.pc] /\ call.pc # 0
      BY <1>1, <1>5, <2>1
    <2>3. QED BY <1>4, <2>2
  <1>6. ASSUME call.pc = Len(s) + 1 PROVE step = Over[1]
    <2>1. PICK o : o = Over
      OBVIOUS
    <2>2. IsSteps(s) /\ IsSteps(o) /\ 1 \in 1..Len(o)
      BY <1>1, <1>2, <2>1
    <2>3. \A i \in 1..Len(o) : (s \o o)[Len(s) + i] = o[i]
      BY ONLY <2>2, IsStepsJoin
    <2>4. (s \o o)[Len(s) + 1] = o[1] /\ call.pc # 0
      BY <1>1, <1>6, <2>2, <2>3
    <2>5. QED BY <1>4, <1>6, <2>1, <2>4
  <1>7. call.pc \notin 1..Len(s) => call.pc = 0 \/ call.pc = Len(s) + 1
    BY <1>1, <1>3
  <1>8. call.pc = 0 => step = Over[1]
    BY <1>4
  <1>9. QED BY ONLY <1>1, <1>2, <1>3, <1>5, <1>6, <1>7, <1>8

\* A step of the program, and what it is known to need.
LEMMA StepNeeds ==
    ASSUME CallsIInv, NEW what, Doing(what), what # "return"
    PROVE  /\ step.do = what /\ call.op # Nothing /\ IsCall(call) /\ call.status = "ok"
           /\ call.pc # 0 /\ call.pc \in Int /\ opened = (call.op # "open")
           /\ Ready(platform, what, step.res, Now(step.res))
           /\ what \in Failing => \A n \in step.undo : Now(n) = "held"
           /\ \A c, f : Follows(c, f) => \A x : Placed(x, c, f)
  <1>1. RowsIInv /\ call.op # Nothing /\ step.do = what /\ IsCall(call)
    BY MachineIs DEF CallsIInv, RowsIInv, Fine
  <1>2. PICK s : s = Programs[platform][call.op]
    OBVIOUS
  <1>3. Len(s) \in Nat /\ call.pc \in 1..Len(s) /\ step = s[call.pc]
    BY <1>1, <1>2, CallIsAt
  <1>4. call.pc # 0 /\ call.pc \in Int
    BY <1>3
  <1>5. \A x : Placed(x, call, fields)
    BY <1>1 DEF CallsIInv
  <1>6. ASSUME NEW x
        PROVE  \E known :
                 /\ SoundFrom(platform, s, 0, Len(s), known, Exits(platform, x, call.op))
                 /\ known[Len(s) + 1] \subseteq Mode(platform, x, Final(platform, call.op, "ok", x))
                 /\ call.status = "ok" /\ Seen(x, call, fields) \in known[call.pc]
                 /\ Sound(platform, step, call.pc, Len(s), known, Exits(platform, x, call.op))
    <2>1. PICK known :
                 /\ SoundFrom(platform, s, 0, Len(s), known, Exits(platform, x, call.op))
                 /\ known[Len(s) + 1] \subseteq Mode(platform, x, Final(platform, call.op, "ok", x))
                 /\ call.status = "ok" /\ Seen(x, call, fields) \in known[call.pc]
      BY <1>2, <1>4, <1>5 DEF Placed
    <2>2. Sound(platform, s[call.pc], 0 + call.pc, Len(s), known, Exits(platform, x, call.op))
      BY <1>3, <2>1 DEF SoundFrom
    <2>3. 0 + call.pc = call.pc
      BY <1>3
    <2>4. QED BY <1>3, <2>1, <2>2, <2>3
  <1>7. \A x : Good(platform, step, Seen(x, call, fields)) /\ call.status = "ok"
    BY <1>6 DEF Sound
  <1>8. \A x : x \in Tracked(platform, x)
    BY DEF Tracked, Beside
  <1>9. Ready(platform, what, step.res, Now(step.res))
    <2>1. PICK w : w = Seen(step.res, call, fields)
      OBVIOUS
    <2>2. step.res \in DOMAIN w /\ w[step.res] = Now(step.res)
      BY <1>8, <2>1 DEF Seen, SeenOf, Now
    <2>3. Good(platform, step, w)
      BY <1>7, <2>1
    <2>4. QED BY <1>1, <2>2, <2>3 DEF Good
  <1>10. what \in Failing => \A n \in step.undo : Now(n) = "held"
    <2>1. SUFFICES ASSUME what \in Failing, NEW n \in step.undo PROVE Now(n) = "held"
      OBVIOUS
    <2>2. PICK w : w = Seen(n, call, fields)
      OBVIOUS
    <2>3. n \in DOMAIN w /\ w[n] = Now(n)
      BY <1>8, <2>2 DEF Seen, SeenOf, Now
    <2>4. CanUndo(step.undo, w)
      BY <1>1, <1>7, <2>1, <2>2 DEF Good
    <2>5. QED BY <2>1, <2>3, <2>4 DEF CanUndo
  <1>11. ASSUME NEW c, NEW f, Follows(c, f), NEW x PROVE Placed(x, c, f)
    <2>1. PICK known :
                 /\ SoundFrom(platform, s, 0, Len(s), known, Exits(platform, x, call.op))
                 /\ known[Len(s) + 1] \subseteq Mode(platform, x, Final(platform, call.op, "ok", x))
                 /\ call.status = "ok" /\ Seen(x, call, fields) \in known[call.pc]
                 /\ Sound(platform, step, call.pc, Len(s), known, Exits(platform, x, call.op))
      BY <1>6
    <2>2. PICK w, v : w = Seen(x, call, fields) /\ v = Seen(x, c, f)
      OBVIOUS
    <2>3. PICK N : N = Tracked(platform, x)
      OBVIOUS
    <2>4. w = [n \in N |-> Now(n)] /\ v = [n \in N |-> NowOf(f, c.held, n)]
      BY <2>2, <2>3 DEF Seen, SeenOf, Now
    <2>5. /\ (\A n : NowOf(f, c.held, n) = TurnedNow(n)) => v = Turned(step, w)
          /\ (\A n : NowOf(f, c.held, n) = UndoneNow(n)) => v = Undone(step.undo, w)
          /\ (\A n : NowOf(f, c.held, n) = Now(n)) => v = w
      BY <2>4 DEF TurnedNow, UndoneNow, Turned, Undone
    <2>6. /\ step.do = "if_kept" /\ Now(step.res) # "null" => ~FoundNull(step, w)
          /\ step.do = "if_kept" /\ Now(step.res) = "null" => ~FoundSet(step, w)
          /\ step.do # "if_kept" => ~FoundNull(step, w) /\ ~FoundSet(step, w)
      BY <2>4 DEF FoundNull, FoundSet
    <2>7. \/ \E d : GoesOnTo(step, w, d, v) /\ c.pc = call.pc + d /\ c.status = call.status
          \/ EndsWith(step, w, c.status, v) /\ c.pc = 0
      BY <1>11, <2>5, <2>6 DEF Follows, GoesOnTo, EndsWith
    <2>8. CASE \E d : GoesOnTo(step, w, d, v) /\ c.pc = call.pc + d /\ c.status = call.status
      <3>1. PICK d : GoesOnTo(step, w, d, v) /\ c.pc = call.pc + d /\ c.status = call.status
        BY <2>8
      <3>2. call.pc + d \in 1..Len(s)+1 /\ v \in known[call.pc + d]
        BY <2>1, <2>2, <3>1 DEF Sound
      <3>3. c.pc \in 1..Len(s)+1 /\ v \in known[c.pc] /\ c.pc # 0
        BY <1>3, <3>1, <3>2
      <3>4. c.op = call.op /\ c.status = "ok"
        BY <1>11, <2>1, <3>1 DEF Follows
      <3>5. QED BY <1>2, <2>1, <2>2, <3>3, <3>4 DEF Placed
    <2>9. CASE EndsWith(step, w, c.status, v) /\ c.pc = 0
      <3>1. <<c.status, v>> \in Exits(platform, x, call.op)
        BY <2>1, <2>2, <2>9 DEF Sound
      <3>2. c.op = call.op
        BY <1>11 DEF Follows
      <3>3. QED BY <1>2, <2>1, <2>2, <2>9, <3>1, <3>2 DEF Placed
    <2>10. QED BY <2>7, <2>8, <2>9
  <1>12. opened = (call.op # "open")
    BY <1>1 DEF CallsIInv
  <1>13. QED BY <1>1, <1>4, <1>7, <1>9, <1>10, <1>11, <1>12

(***************************************************************************)
(* What the actions make of the record of the call.                        *)
(***************************************************************************)
Becomes(c, d, pc, status, held, lost, bad) ==
  IsCall(d) /\ d.op = c.op /\ d.pc = pc /\ d.status = status /\ d.held = held /\ d.lost = lost
  /\ d.bad = bad

\* Fields that change one or two at a time leave the others alone.
LEMMA BecomesParts ==
    ASSUME NEW c, IsCall(c), NEW x, NEW y
    PROVE  /\ Becomes(c, [c EXCEPT !.pc = x], x, c.status, c.held, c.lost, c.bad)
           /\ Becomes(c, [c EXCEPT !.pc = x, !.status = y], x, y, c.held, c.lost, c.bad)
           /\ Becomes(c, [c EXCEPT !.held = x], c.pc, c.status, x, c.lost, c.bad)
           /\ Becomes(c, [c EXCEPT !.held = x, !.lost = y], c.pc, c.status, x, y, c.bad)
           /\ Becomes(c, [c EXCEPT !.held = x, !.bad = y], c.pc, c.status, x, c.lost, y)
           /\ Becomes(c, [c EXCEPT !.lost = x], c.pc, c.status, c.held, x, c.bad)
           /\ Becomes(c, [c EXCEPT !.bad = x], c.pc, c.status, c.held, c.lost, x)
           /\ Becomes(c, [c EXCEPT !.counted = x], c.pc, c.status, c.held, c.lost, c.bad)
           /\ Becomes(c, [c EXCEPT !.turns = x], c.pc, c.status, c.held, c.lost, c.bad)
  <1>1. Becomes(c, [c EXCEPT !.pc = x], x, c.status, c.held, c.lost, c.bad)
    BY DEF IsCall, Becomes
  <1>2. Becomes(c, [c EXCEPT !.held = x], c.pc, c.status, x, c.lost, c.bad)
    BY DEF IsCall, Becomes
  <1>3. Becomes(c, [c EXCEPT !.lost = x], c.pc, c.status, c.held, x, c.bad)
    BY DEF IsCall, Becomes
  <1>4. Becomes(c, [c EXCEPT !.bad = x], c.pc, c.status, c.held, c.lost, x)
    BY DEF IsCall, Becomes
  <1>5. Becomes(c, [c EXCEPT !.counted = x], c.pc, c.status, c.held, c.lost, c.bad)
    BY DEF IsCall, Becomes
  <1>6. Becomes(c, [c EXCEPT !.turns = x], c.pc, c.status, c.held, c.lost, c.bad)
    BY DEF IsCall, Becomes
  <1>7. Becomes(c, [c EXCEPT !.pc = x, !.status = y], x, y, c.held, c.lost, c.bad)
    <2>1. PICK d : d = [c EXCEPT !.pc = x, !.status = y]
      OBVIOUS
    <2>2. IsCall(d)
      BY <2>1 DEF IsCall
    <2>3. /\ d.op = c.op /\ d.pc = x /\ d.status = y /\ d.held = c.held /\ d.lost = c.lost
          /\ d.bad = c.bad
      BY <2>1 DEF IsCall
    <2>4. QED BY <2>1, <2>2, <2>3 DEF Becomes
  <1>8. Becomes(c, [c EXCEPT !.held = x, !.lost = y], c.pc, c.status, x, y, c.bad)
    <2>1. PICK d : d = [c EXCEPT !.held = x, !.lost = y]
      OBVIOUS
    <2>2. IsCall(d)
      BY <2>1 DEF IsCall
    <2>3. /\ d.op = c.op /\ d.pc = c.pc /\ d.status = c.status /\ d.held = x /\ d.lost = y
          /\ d.bad = c.bad
      BY <2>1 DEF IsCall
    <2>4. QED BY <2>1, <2>2, <2>3 DEF Becomes
  <1>9. Becomes(c, [c EXCEPT !.held = x, !.bad = y], c.pc, c.status, x, c.lost, y)
    <2>1. PICK d : d = [c EXCEPT !.held = x, !.bad = y]
      OBVIOUS
    <2>2. IsCall(d)
      BY <2>1 DEF IsCall
    <2>3. /\ d.op = c.op /\ d.pc = c.pc /\ d.status = c.status /\ d.held = x /\ d.lost = c.lost
          /\ d.bad = y
      BY <2>1 DEF IsCall
    <2>4. QED BY <2>1, <2>2, <2>3 DEF Becomes
  <1>10. QED BY <1>1, <1>2, <1>3, <1>4, <1>5, <1>6, <1>7, <1>8, <1>9

\* One change after the other.
LEMMA BecomesSteps ==
    ASSUME NEW c, IsCall(c)
    PROVE  /\ Becomes(c, On(c), c.pc + 1, c.status, c.held, c.lost, c.bad)
           /\ Becomes(c, JumpTo(c), c.pc + step.next, c.status, c.held, c.lost, c.bad)
           /\ \A r, n : Becomes(c, Got(c, r, n), c.pc, c.status, With(c.held, r, n),
                                c.lost \cup ({r} \cap DOMAIN c.held), c.bad)
           /\ \A R : Becomes(c, Freed(c, R), c.pc, c.status, Without(c.held, R), c.lost,
                             c.bad \cup (R \ DOMAIN c.held))
           /\ Becomes(c, Failed(c), IF step.fail = 0 THEN 0 ELSE c.pc + step.fail,
                      IF step.fail = 0 THEN "error" ELSE c.status, Without(c.held, step.undo),
                      c.lost, c.bad \cup (step.undo \ DOMAIN c.held))
  <1>1. Becomes(c, On(c), c.pc + 1, c.status, c.held, c.lost, c.bad)
    BY BecomesParts DEF On
  <1>2. Becomes(c, JumpTo(c), c.pc + step.next, c.status, c.held, c.lost, c.bad)
    BY BecomesParts DEF JumpTo
  <1>3. \A r, n : Becomes(c, Got(c, r, n), c.pc, c.status, With(c.held, r, n),
                          c.lost \cup ({r} \cap DOMAIN c.held), c.bad)
    BY BecomesParts DEF Got
  <1>4. \A R : Becomes(c, Freed(c, R), c.pc, c.status, Without(c.held, R), c.lost,
                       c.bad \cup (R \ DOMAIN c.held))
    BY BecomesParts DEF Freed
  <1>5. Becomes(c, Failed(c), IF step.fail = 0 THEN 0 ELSE c.pc + step.fail,
                IF step.fail = 0 THEN "error" ELSE c.status, Without(c.held, step.undo),
                c.lost, c.bad \cup (step.undo \ DOMAIN c.held))
    <2>1. PICK d : d = Freed(c, step.undo)
      OBVIOUS
    <2>2. Becomes(c, d, c.pc, c.status, Without(c.held, step.undo), c.lost,
                  c.bad \cup (step.undo \ DOMAIN c.held))
      BY <1>4, <2>1
    <2>3. Failed(c) = IF step.fail = 0 THEN [d EXCEPT !.pc = 0, !.status = "error"]
                                       ELSE [d EXCEPT !.pc = d.pc + step.fail]
      BY <2>1 DEF Failed
    <2>4. IsCall(d)
      BY <2>2 DEF Becomes
    <2>5. PICK e : e = Failed(c)
      OBVIOUS
    <2>6. CASE step.fail = 0
      <3>1. \A a, b : Becomes(d, [d EXCEPT !.pc = a, !.status = b], a, b, d.held, d.lost, d.bad)
        BY <2>4, BecomesParts
      <3>2. Becomes(d, e, 0, "error", d.held, d.lost, d.bad)
        <4>1. e = [d EXCEPT !.pc = 0, !.status = "error"]
          BY ONLY <2>3, <2>5, <2>6
        <4>2. PICK a, b : a = 0 /\ b = "error"
          OBVIOUS
        <4>3. Becomes(d, [d EXCEPT !.pc = a, !.status = b], a, b, d.held, d.lost, d.bad)
          BY <3>1
        <4>4. QED BY <4>1, <4>2, <4>3
      <3>3. Becomes(c, e, 0, "error", Without(c.held, step.undo), c.lost,
                    c.bad \cup (step.undo \ DOMAIN c.held))
        BY ONLY <2>2, <3>2 DEF Becomes
      <3>4. QED BY ONLY <2>5, <2>6, <3>3
    <2>7. CASE step.fail # 0
      <3>1. \A a : Becomes(d, [d EXCEPT !.pc = a], a, d.status, d.held, d.lost, d.bad)
        BY <2>4, BecomesParts
      <3>2. Becomes(d, e, d.pc + step.fail, d.status, d.held, d.lost, d.bad)
        BY <2>3, <2>5, <2>7, <3>1
      <3>3. QED BY <2>2, <2>5, <2>7, <3>2 DEF Becomes
    <2>8. QED BY <2>6, <2>7
  <1>6. QED BY <1>1, <1>2, <1>3, <1>4, <1>5

\* One resource more, some less, another value of a field.
LEMMA NowChanges ==
    ASSUME NEW f, NEW h, DOMAIN h \cap DOMAIN f = {}
    PROVE  /\ \A r, m : r \notin DOMAIN f =>
                \A n : NowOf(f, With(h, r, m), n) = IF n = r THEN "held" ELSE NowOf(f, h, n)
           /\ \A R : R \cap DOMAIN f = {} =>
                \A n : NowOf(f, Without(h, R), n) = IF n \in R THEN "out" ELSE NowOf(f, h, n)
           /\ \A r, v : r \in DOMAIN f =>
                \A n : NowOf([f EXCEPT ![r] = v], h, n) = IF n = r THEN v ELSE NowOf(f, h, n)
           /\ \A g : DOMAIN g = DOMAIN h => \A n : NowOf(f, g, n) = NowOf(f, h, n)
           /\ \A r, m : DOMAIN With(h, r, m) = DOMAIN h \cup {r}
           /\ \A R : DOMAIN Without(h, R) = DOMAIN h \ R
  BY DEF NowOf, With, Without

\* The same of the call in progress.
LEMMA HeldChanges ==
    ASSUME DOMAIN call.held \cap DOMAIN fields = {}
    PROVE  /\ \A r, m : r \notin DOMAIN fields =>
                \A n : NowOf(fields, With(call.held, r, m), n) = IF n = r THEN "held" ELSE Now(n)
           /\ \A R : R \cap DOMAIN fields = {} =>
                \A n : NowOf(fields, Without(call.held, R), n) = IF n \in R THEN "out" ELSE Now(n)
           /\ \A r, v : r \in DOMAIN fields =>
                \A n : NowOf([fields EXCEPT ![r] = v], call.held, n) = IF n = r THEN v ELSE Now(n)
           /\ \A g : DOMAIN g = DOMAIN call.held => \A n : NowOf(fields, g, n) = Now(n)
           /\ \A r, m : DOMAIN With(call.held, r, m) = DOMAIN call.held \cup {r}
           /\ \A R : DOMAIN Without(call.held, R) = DOMAIN call.held \ R
  <1>1. ASSUME NEW r, NEW m, r \notin DOMAIN fields, NEW n
        PROVE  NowOf(fields, With(call.held, r, m), n) = IF n = r THEN "held" ELSE Now(n)
    BY <1>1, NowChanges DEF Now
  <1>2. ASSUME NEW R, R \cap DOMAIN fields = {}, NEW n
        PROVE  NowOf(fields, Without(call.held, R), n) = IF n \in R THEN "out" ELSE Now(n)
    BY <1>2, NowChanges DEF Now
  <1>3. ASSUME NEW r, NEW v, r \in DOMAIN fields, NEW n
        PROVE  NowOf([fields EXCEPT ![r] = v], call.held, n) = IF n = r THEN v ELSE Now(n)
    BY <1>3 DEF Now, NowOf
  <1>4. ASSUME NEW g, DOMAIN g = DOMAIN call.held, NEW n PROVE NowOf(fields, g, n) = Now(n)
    BY <1>4 DEF Now, NowOf
  <1>5. /\ \A r, m : DOMAIN With(call.held, r, m) = DOMAIN call.held \cup {r}
        /\ \A R : DOMAIN Without(call.held, R) = DOMAIN call.held \ R
    BY DEF With, Without
  <1>6. QED BY ONLY <1>1, <1>2, <1>3, <1>4, <1>5

\* What the value of a name tells.
LEMMA NowIs ==
    ASSUME CallsIInv, NEW n
    PROVE  /\ DOMAIN fields = Kept[platform] /\ DOMAIN call.held \cap DOMAIN fields = {}
           /\ call.lost = {} /\ call.bad \subseteq StaleBuffers[platform]
           /\ \A m \in DOMAIN fields : fields[m] \in FieldValues
           /\ Now(n) = "held" => n \notin DOMAIN fields /\ n \in DOMAIN call.held
           /\ Now(n) = "out" => n \notin DOMAIN fields /\ n \notin DOMAIN call.held
           /\ Now(n) \in FieldValues => n \in DOMAIN fields /\ Now(n) = fields[n]
  <1>1. /\ DOMAIN fields = Kept[platform] /\ DOMAIN call.held \cap DOMAIN fields = {}
        /\ call.lost = {} /\ call.bad \subseteq StaleBuffers[platform]
        /\ \A m \in DOMAIN fields : fields[m] \in FieldValues
    BY DEF CallsIInv, Clean
  <1>2. "held" \notin FieldValues /\ "out" \notin FieldValues
    BY DEF FieldValues
  <1>3. QED BY <1>1, <1>2 DEF Now, NowOf

(***************************************************************************)
(* The actions: the call is as its program says, and clean.                *)
(***************************************************************************)
Fares(c, f) == Clean(c, f) /\ Follows(c, f)

\* A step that is followed by the next one.
LEMMA OnFares ==
    ASSUME CallsIInv, NEW what, Doing(what), what \notin {"return"} \cup Ends,
           what = "if_kept" => Now(step.res) # "null",
           NEW c, IsCall(c), c.op = call.op, c.pc = call.pc, c.status = call.status,
           NEW f, Clean(c, f), \A n : NowOf(f, c.held, n) = TurnedNow(n)
    PROVE  Fares(On(c), f)
  <1>1. PICK e : e = On(c)
    OBVIOUS
  <1>2. Becomes(c, e, c.pc + 1, c.status, c.held, c.lost, c.bad)
    BY <1>1, BecomesSteps
  <1>3. Clean(e, f)
    BY <1>2 DEF Becomes, Clean
  <1>4. step.do = what
    BY StepNeeds
  <1>5. Follows(e, f)
    BY <1>2, <1>4 DEF Becomes, Follows
  <1>6. QED BY <1>1, <1>3, <1>5 DEF Fares

\* A step that jumps.
LEMMA JumpFares ==
    ASSUME CallsIInv, NEW what, Doing(what), what \in Branches,
           what = "if_kept" => Now(step.res) = "null"
    PROVE  Fares(JumpTo(call), fields)
  <1>1. PICK e : e = JumpTo(call)
    OBVIOUS
  <1>2. step.do = what /\ IsCall(call)
    <2>1. what # "return"
      BY DEF Branches
    <2>2. QED BY <2>1, StepNeeds
  <1>3. Becomes(call, e, call.pc + step.next, call.status, call.held, call.lost, call.bad)
    BY <1>1, <1>2, BecomesSteps
  <1>4. Clean(e, fields)
    BY <1>3 DEF Becomes, Clean, CallsIInv
  <1>5. Follows(e, fields)
    BY <1>2, <1>3 DEF Becomes, Follows, Now
  <1>6. QED BY <1>1, <1>4, <1>5 DEF Fares

\* A step that fails.
LEMMA FailedFares ==
    ASSUME CallsIInv, NEW what, Doing(what), what \in Failing
    PROVE  Fares(Failed(call), fields)
  <1>1. PICK e : e = Failed(call)
    OBVIOUS
  <1>2. step.do = what /\ IsCall(call) /\ \A n \in step.undo : Now(n) = "held"
    <2>1. what # "return"
      BY DEF Failing
    <2>2. QED BY <2>1, StepNeeds
  <1>3. Becomes(call, e, IF step.fail = 0 THEN 0 ELSE call.pc + step.fail,
                IF step.fail = 0 THEN "error" ELSE call.status, Without(call.held, step.undo),
                call.lost, call.bad \cup (step.undo \ DOMAIN call.held))
    BY <1>1, <1>2, BecomesSteps
  <1>4. /\ DOMAIN call.held \cap DOMAIN fields = {} /\ step.undo \cap DOMAIN fields = {}
        /\ step.undo \ DOMAIN call.held = {}
    BY <1>2, NowIs
  <1>5. /\ \A n : NowOf(fields, Without(call.held, step.undo), n) = UndoneNow(n)
        /\ DOMAIN Without(call.held, step.undo) = DOMAIN call.held \ step.undo
    BY <1>4, HeldChanges DEF UndoneNow
  <1>6. Clean(e, fields)
    <2>1. e.held = Without(call.held, step.undo) /\ e.lost = call.lost /\ e.bad = call.bad
      BY <1>3, <1>4 DEF Becomes
    <2>2. QED BY <1>5, <2>1 DEF Clean, CallsIInv
  <1>7. Follows(e, fields)
    <2>1. e.op = call.op /\ \A n : NowOf(fields, e.held, n) = UndoneNow(n)
      BY <1>3, <1>5 DEF Becomes
    <2>2. CASE step.fail = 0
      <3>1. e.pc = 0 /\ e.status = "error"
        BY <1>3, <2>2 DEF Becomes
      <3>2. QED BY <1>2, <2>1, <2>2, <3>1 DEF Follows
    <2>3. CASE step.fail # 0
      <3>1. e.pc = call.pc + step.fail /\ e.status = call.status
        BY <1>3, <2>3 DEF Becomes
      <3>2. QED BY <1>2, <2>1, <2>3, <3>1 DEF Follows
    <2>4. QED BY <2>2, <2>3
  <1>8. QED BY <1>1, <1>6, <1>7 DEF Fares

\* Something is taken that was not there.
LEMMA TakingFares ==
    ASSUME CallsIInv, NEW what, Doing(what), what \in Taking, NEW n
    PROVE  Fares(On(Got(call, step.res, n)), fields)
  <1>1. PICK r : r = step.res
    OBVIOUS
  <1>2. /\ step.do = what /\ IsCall(call) /\ Ready(platform, what, r, Now(r))
        /\ what \notin {"return", "if_kept", "new_handle"} \cup Ends
    <2>1. what \notin {"return", "if_kept", "new_handle"} \cup Ends
      BY DEF Taking, Ends
    <2>2. QED BY <1>1, <2>1, StepNeeds
  <1>3. r \notin DOMAIN fields /\ r \notin DOMAIN call.held
    BY <1>2, NowIs DEF Ready
  <1>4. PICK c : c = Got(call, r, n)
    OBVIOUS
  <1>5. Becomes(call, c, call.pc, call.status, With(call.held, r, n),
                call.lost \cup ({r} \cap DOMAIN call.held), call.bad)
    BY <1>2, <1>4, BecomesSteps
  <1>6. /\ \A m : NowOf(fields, With(call.held, r, n), m) = IF m = r THEN "held" ELSE Now(m)
        /\ DOMAIN With(call.held, r, n) = DOMAIN call.held \cup {r}
    <2>1. DOMAIN call.held \cap DOMAIN fields = {}
      BY NowIs
    <2>2. ASSUME NEW m
          PROVE  NowOf(fields, With(call.held, r, n), m) = IF m = r THEN "held" ELSE Now(m)
      BY <1>3, <2>1, HeldChanges
    <2>3. DOMAIN With(call.held, r, n) = DOMAIN call.held \cup {r}
      BY DEF With
    <2>4. QED BY <2>2, <2>3
  <1>7. \A m : NowOf(fields, c.held, m) = TurnedNow(m)
    <2>1. \A m : NowOf(fields, c.held, m) = IF m = r THEN "held" ELSE Now(m)
      BY <1>5, <1>6 DEF Becomes
    <2>2. \A v : Then(what, v) = "held"
      BY DEF Then, Taking
    <2>3. QED BY <1>1, <1>2, <2>1, <2>2 DEF TurnedNow
  <1>8. Clean(c, fields)
    <2>1. c.held = With(call.held, r, n) /\ c.lost = {} /\ c.bad = call.bad
      BY <1>3, <1>5, NowIs DEF Becomes
    <2>2. DOMAIN fields = Kept[platform] /\ \A m \in Kept[platform] : fields[m] \in FieldValues
      BY DEF CallsIInv, Clean
    <2>3. QED BY <1>3, <1>6, <2>1, <2>2, NowIs DEF Clean
  <1>9. QED BY <1>1, <1>2, <1>4, <1>5, <1>7, <1>8, OnFares DEF Becomes

\* What is taken was not there; an open may fail.
LEMMA AcquireFares == ASSUME CallsIInv, Acquire PROVE Fares(call', fields)
  <1>1. CASE Doing("take") /\ call' = On(Got(call, step.res, 0))
    BY <1>1, TakingFares DEF Taking
  <1>2. CASE Doing("open") /\ call' \in {On(Got(call, step.res, 0)), Failed(call)}
    BY <1>2, TakingFares, FailedFares DEF Taking, Failing
  <1>3. QED BY <1>1, <1>2 DEF Acquire

\* What is freed was held, or is freed only if it was, or is known to be stale.
LEMMA ReleaseFares == ASSUME CallsIInv, Release PROVE Fares(call', fields)
  <1>1. PICK what \in {"free", "free_if"} :
          /\ Doing(what)
          /\ call' = On(Freed(call, IF what = "free" THEN {step.res}
                                                     ELSE {step.res} \cap DOMAIN call.held))
    BY DEF Release
  <1>2. PICK r, R : r = step.res /\ R = IF what = "free" THEN {r} ELSE {r} \cap DOMAIN call.held
    OBVIOUS
  <1>3. /\ step.do = what /\ IsCall(call) /\ Ready(platform, what, r, Now(r))
        /\ what \notin {"return", "if_kept", "new_handle"} \cup Ends
    <2>1. what \notin {"return", "if_kept", "new_handle"} \cup Ends
      BY DEF Ends
    <2>2. QED BY <1>1, <1>2, <2>1, StepNeeds
  <1>4. /\ Now(r) \in {"out", "held"} /\ r \notin DOMAIN fields
        /\ R = {r} \/ (R = {} /\ r \notin DOMAIN call.held /\ Now(r) = "out")
        /\ R \ DOMAIN call.held \subseteq StaleBuffers[platform]
    <2>1. CASE what = "free"
      BY <1>2, <1>3, <2>1, NowIs DEF Ready
    <2>2. CASE what = "free_if"
      <3>1. Now(r) \in {"out", "held"}
        BY <1>3, <2>2 DEF Ready
      <3>2. QED BY <1>2, <2>2, <3>1, NowIs
    <2>3. QED BY <1>1, <2>1, <2>2
  <1>5. PICK c : c = Freed(call, R)
    OBVIOUS
  <1>6. Becomes(call, c, call.pc, call.status, Without(call.held, R), call.lost,
                call.bad \cup (R \ DOMAIN call.held))
    BY <1>3, <1>5, BecomesSteps
  <1>7. /\ \A m : NowOf(fields, Without(call.held, R), m) = IF m \in R THEN "out" ELSE Now(m)
        /\ DOMAIN Without(call.held, R) = DOMAIN call.held \ R
    <2>1. R \cap DOMAIN fields = {} /\ DOMAIN call.held \cap DOMAIN fields = {}
      BY <1>4, NowIs
    <2>2. QED BY <2>1, HeldChanges
  <1>8. \A m : NowOf(fields, c.held, m) = TurnedNow(m)
    <2>1. \A m : NowOf(fields, c.held, m) = IF m = r THEN "out" ELSE Now(m)
      BY <1>4, <1>6, <1>7 DEF Becomes
    <2>2. \A v : Then(what, v) = "out"
      BY <1>1 DEF Then, Taking
    <2>3. QED BY <1>2, <1>3, <2>1, <2>2 DEF TurnedNow
  <1>9. Clean(c, fields)
    <2>1. /\ c.held = Without(call.held, R) /\ c.lost = call.lost
          /\ c.bad = call.bad \cup (R \ DOMAIN call.held)
      BY <1>6 DEF Becomes
    <2>2. QED BY <1>4, <1>7, <2>1 DEF Clean, CallsIInv
  <1>10. QED BY <1>1, <1>2, <1>3, <1>5, <1>6, <1>8, <1>9, OnFares DEF Becomes

\* A step goes on, and the fields and resources are as it turns them.
LEMMA StepFares ==
    ASSUME CallsIInv, NEW what, Doing(what), what \notin {"return"} \cup Ends,
           what = "if_kept" => Now(step.res) # "null",
           NEW e, NEW h, NEW bad, Becomes(call, e, call.pc + 1, call.status, h, {}, bad),
           NEW f, DOMAIN f = DOMAIN fields, \A n \in DOMAIN f : f[n] \in FieldValues,
           DOMAIN h = DOMAIN call.held, bad \subseteq StaleBuffers[platform],
           \A n : NowOf(f, h, n) = TurnedNow(n)
    PROVE  Fares(e, f)
  <1>1. step.do = what
    BY StepNeeds
  <1>2. DOMAIN fields = Kept[platform] /\ DOMAIN call.held \cap DOMAIN fields = {}
    BY NowIs
  <1>3. e.op = call.op /\ e.pc = call.pc + 1 /\ e.status = call.status /\ e.held = h
        /\ e.lost = {} /\ e.bad = bad
    BY DEF Becomes
  <1>4. Clean(e, f)
    BY <1>2, <1>3 DEF Clean
  <1>5. Follows(e, f)
    BY <1>1, <1>3 DEF Follows
  <1>6. QED BY <1>4, <1>5 DEF Fares

\* A step that goes on and leaves the fields and resources as they are.
Idle == {"use", "ask", "throws", "count", "grow", "put", "fork", "loop", "each", "if_kept",
         "use_kept", "use_filled"}

\* They turn nothing.
LEMMA IdleTurns ==
    ASSUME CallsIInv, NEW what \in Idle, Doing(what)
    PROVE  /\ \A n : TurnedNow(n) = Now(n)
           /\ what \notin {"return"} \cup Ends
  <1>1. what \notin {"return", "new_handle"} \cup Ends
    BY DEF Idle, Ends
  <1>2. step.do = what
    BY <1>1, StepNeeds
  <1>3. \A v : Then(what, v) = v
    BY DEF Then, Idle, Taking
  <1>4. QED BY <1>1, <1>2, <1>3 DEF TurnedNow

\* After one of them the call is as its program says.
LEMMA IdleFares ==
    ASSUME CallsIInv, NEW what \in Idle \ {"if_kept", "use_kept", "use_filled"}, Doing(what),
           NEW e, NEW h, NEW bad, Becomes(call, e, call.pc + 1, call.status, h, call.lost, bad),
           DOMAIN h = DOMAIN call.held, bad \subseteq StaleBuffers[platform]
    PROVE  Fares(e, fields)
  <1>1. /\ \A n : TurnedNow(n) = Now(n)
        /\ what \notin {"return"} \cup Ends
    BY IdleTurns
  <1>2. /\ call.lost = {} /\ bad \subseteq StaleBuffers[platform]
        /\ \A m \in DOMAIN fields : fields[m] \in FieldValues
    BY NowIs
  <1>3. \A n : NowOf(fields, h, n) = TurnedNow(n)
    BY <1>1 DEF Now, NowOf
  <1>4. Becomes(call, e, call.pc + 1, call.status, h, {}, bad)
    BY <1>2
  <1>5. what # "if_kept"
    OBVIOUS
  <1>6. QED BY <1>1, <1>2, <1>3, <1>4, <1>5, StepFares

\* The same of steps that change the record of the call before they go on.
LEMMA IdleOn ==
    ASSUME CallsIInv, NEW what \in Idle \ {"if_kept", "use_kept", "use_filled"}, Doing(what),
           NEW c, NEW h, NEW bad, Becomes(call, c, call.pc, call.status, h, call.lost, bad),
           DOMAIN h = DOMAIN call.held, bad \subseteq StaleBuffers[platform]
    PROVE  Fares(On(c), fields)
  <1>1. PICK e : e = On(c)
    OBVIOUS
  <1>2. IsCall(c) /\ c.op = call.op /\ c.pc = call.pc /\ c.status = call.status /\ c.held = h
        /\ c.lost = call.lost /\ c.bad = bad
    BY DEF Becomes
  <1>3. Becomes(c, e, c.pc + 1, c.status, c.held, c.lost, c.bad)
    BY <1>1, <1>2, BecomesSteps
  <1>4. Becomes(call, e, call.pc + 1, call.status, h, call.lost, bad)
    BY <1>2, <1>3 DEF Becomes
  <1>5. Fares(e, fields)
    BY <1>4, IdleFares
  <1>6. QED BY <1>1, <1>5

\* What is used is held, or is known to be stale.
LEMMA UseFares == ASSUME CallsIInv, UseResource PROVE Fares(call', fields)
  <1>1. /\ Doing("use")
        /\ call' = On([call EXCEPT !.bad = @ \cup ({step.res} \ DOMAIN call.held)])
    BY DEF UseResource
  <1>2. PICK what : what = "use"
    OBVIOUS
  <1>3. Doing(what) /\ what \in Idle \ {"if_kept", "use_kept", "use_filled"} /\ what # "return"
    BY <1>1, <1>2 DEF Idle
  <1>4. IsCall(call) /\ Ready(platform, what, step.res, Now(step.res))
    BY <1>3, StepNeeds
  <1>5. Now(step.res) = "held" \/ step.res \in StaleBuffers[platform]
    BY <1>2, <1>4 DEF Ready
  <1>6. /\ step.res \in DOMAIN call.held \/ step.res \in StaleBuffers[platform]
        /\ call.bad \subseteq StaleBuffers[platform]
    BY <1>5, NowIs
  <1>7. PICK c, b : b = call.bad \cup ({step.res} \ DOMAIN call.held)
                    /\ c = [call EXCEPT !.bad = b]
    OBVIOUS
  <1>8. Becomes(call, c, call.pc, call.status, call.held, call.lost, b)
    BY <1>4, <1>7, BecomesParts
  <1>9. b \subseteq StaleBuffers[platform]
    BY <1>6, <1>7
  <1>10. Fares(On(c), fields)
    BY <1>3, <1>8, <1>9, IdleOn
  <1>11. QED BY <1>1, <1>7, <1>10

\* The call as it is goes on.
LEMMA CallGoesOn ==
    ASSUME CallsIInv, NEW what \in Idle \ {"if_kept", "use_kept", "use_filled"}, Doing(what)
    PROVE  Fares(On(call), fields)
  <1>1. IsCall(call)
    BY IdleTurns, StepNeeds
  <1>2. PICK c : c = call
    OBVIOUS
  <1>3. Becomes(call, c, call.pc, call.status, call.held, call.lost, call.bad)
    BY <1>1, <1>2 DEF Becomes
  <1>4. Fares(On(c), fields)
    BY <1>3, NowIs, IdleOn
  <1>5. QED BY <1>2, <1>4

\* The system answers or fails.
LEMMA AskFares == ASSUME CallsIInv, AskSystem PROVE Fares(call', fields)
  <1>1. CASE Doing("ask") /\ call' \in {On(call), Failed(call)}
    BY <1>1, CallGoesOn, FailedFares DEF Idle, Failing
  <1>2. CASE Doing("refuse") /\ call' = Failed(call)
    BY <1>2, FailedFares DEF Failing
  <1>3. QED BY <1>1, <1>2 DEF AskSystem

\* Java goes on or throws.
LEMMA JavaFares == ASSUME CallsIInv, CallJava PROVE Fares(call', fields)
  <1>1. Doing("throws") /\ call' \in {On(call), [call EXCEPT !.pc = 0, !.status = "thrown"]}
    BY DEF CallJava
  <1>2. CASE call' = On(call)
    BY <1>1, <1>2, CallGoesOn DEF Idle
  <1>3. CASE call' = [call EXCEPT !.pc = 0, !.status = "thrown"]
    <2>1. IsCall(call) /\ step.do = "throws"
      BY <1>1, StepNeeds
    <2>2. PICK z, t : z = 0 /\ t = "thrown"
      OBVIOUS
    <2>3. PICK e : e = [call EXCEPT !.pc = z, !.status = t]
      OBVIOUS
    <2>4. Becomes(call, e, z, t, call.held, call.lost, call.bad)
      BY <2>1, <2>3, BecomesParts
    <2>5. e.op = call.op /\ e.pc = 0 /\ e.status = "thrown" /\ e.held = call.held
          /\ e.lost = call.lost /\ e.bad = call.bad
      BY <2>2, <2>4 DEF Becomes
    <2>6. Clean(e, fields)
      BY <2>5 DEF CallsIInv, Clean
    <2>7. Follows(e, fields)
      BY <2>1, <2>5 DEF Follows, Now
    <2>8. call' = e
      BY <1>3, <2>2, <2>3
    <2>9. QED BY <2>6, <2>7, <2>8 DEF Fares
  <1>4. QED BY <1>1, <1>2, <1>3

\* A step that is about the system, the resources of the call or Java.
LEMMA StepInCallFares == ASSUME CallsIInv, StepInCall PROVE Fares(call', fields') /\ opened' = opened
  <1>1. (Acquire \/ Release \/ UseResource \/ AskSystem \/ CallJava) /\ UNCHANGED <<opened, fields>>
    BY DEF StepInCall
  <1>2. Fares(call', fields)
    BY <1>1, AcquireFares, ReleaseFares, UseFares, AskFares, JavaFares
  <1>3. QED BY <1>1, <1>2

\* The rows of a list.
LEMMA OnListFares == ASSUME CallsIInv, OnList PROVE Fares(call', fields') /\ opened' = opened
  <1>1. /\ \/ Doing("new_list") /\ call' = On(Got(call, step.res, Chunk))
           \/ Doing("count") /\ \E n \in 0..MaxTurns : call' = On([call EXCEPT !.counted = n])
           \/ Doing("new_counted") /\ call' = On(Got(call, step.res, call.counted))
           \/ Doing("grow") /\ call' = On([call EXCEPT
                !.held[step.res] = IF @ <= 0 THEN @ + Chunk ELSE @])
           \/ Doing("put") /\ call' = On([call EXCEPT !.held[step.res] = @ - 1])
        /\ fields' = fields /\ opened' = opened
    BY DEF OnList
  <1>2. ASSUME NEW what \in {"count", "grow", "put"}, Doing(what), NEW c, NEW h,
               Becomes(call, c, call.pc, call.status, h, call.lost, call.bad),
               DOMAIN h = DOMAIN call.held
        PROVE  Fares(On(c), fields)
    <2>1. what \in Idle \ {"if_kept", "use_kept", "use_filled"}
      BY DEF Idle
    <2>2. PICK b : b = call.bad
      OBVIOUS
    <2>3. Becomes(call, c, call.pc, call.status, h, call.lost, b) /\ b \subseteq StaleBuffers[platform]
      BY <1>2, <2>2, NowIs
    <2>4. QED BY <1>2, <2>1, <2>3, IdleOn
  <1> SUFFICES Fares(call', fields)
    BY <1>1
  <1>3. CASE Doing("new_list") /\ call' = On(Got(call, step.res, Chunk))
    BY <1>3, TakingFares DEF Taking
  <1>4. CASE Doing("new_counted") /\ call' = On(Got(call, step.res, call.counted))
    BY <1>4, TakingFares DEF Taking
  <1>5. CASE Doing("count") /\ \E n \in 0..MaxTurns : call' = On([call EXCEPT !.counted = n])
    <2>1. PICK n \in 0..MaxTurns : call' = On([call EXCEPT !.counted = n])
      BY <1>5
    <2>2. PICK c : c = [call EXCEPT !.counted = n]
      OBVIOUS
    <2>3. IsCall(call)
      BY <1>5, StepNeeds
    <2>4. Becomes(call, c, call.pc, call.status, call.held, call.lost, call.bad)
      BY <2>2, <2>3, BecomesParts
    <2>5. QED BY <1>2, <1>5, <2>1, <2>2, <2>4
  <1>6. CASE Doing("grow") /\ call' = On([call EXCEPT
               !.held[step.res] = IF @ <= 0 THEN @ + Chunk ELSE @])
    <2>1. PICK r : r = step.res
      OBVIOUS
    <2>2. PICK h : h = [call.held EXCEPT ![r] = IF call.held[r] <= 0 THEN call.held[r] + Chunk
                                                                    ELSE call.held[r]]
      OBVIOUS
    <2>3. PICK c : c = [call EXCEPT !.held = h]
      OBVIOUS
    <2>4. IsCall(call)
      BY <1>6, StepNeeds
    <2>5. Becomes(call, c, call.pc, call.status, h, call.lost, call.bad)
      BY <2>3, <2>4, BecomesParts
    <2>6. call' = On(c)
      BY <1>6, <2>1, <2>2, <2>3
    <2>7. DOMAIN h = DOMAIN call.held
      BY <2>2
    <2>8. QED BY <1>2, <1>6, <2>5, <2>6, <2>7
  <1>7. CASE Doing("put") /\ call' = On([call EXCEPT !.held[step.res] = @ - 1])
    <2>1. PICK r : r = step.res
      OBVIOUS
    <2>2. PICK h : h = [call.held EXCEPT ![r] = call.held[r] - 1]
      OBVIOUS
    <2>3. PICK c : c = [call EXCEPT !.held = h]
      OBVIOUS
    <2>4. IsCall(call)
      BY <1>7, StepNeeds
    <2>5. Becomes(call, c, call.pc, call.status, h, call.lost, call.bad)
      BY <2>3, <2>4, BecomesParts
    <2>6. call' = On(c)
      BY <1>7, <2>1, <2>2, <2>3
    <2>7. DOMAIN h = DOMAIN call.held
      BY <2>2
    <2>8. QED BY <1>2, <1>7, <2>5, <2>6, <2>7
  <1>8. QED BY <1>1, <1>3, <1>4, <1>5, <1>6, <1>7

\* Branches and loops.
LEMMA ControlFares == ASSUME CallsIInv, Control PROVE Fares(call', fields') /\ opened' = opened
  <1>1. PICK what \in {"jump", "fork", "loop", "each"} : Doing(what)
    BY DEF Control
  <1>2. fields' = fields /\ opened' = opened
    BY DEF Control
  <1> SUFFICES Fares(call', fields)
    BY <1>2
  <1>3. step.do = what /\ IsCall(call)
    BY <1>1, StepNeeds
  <1>4. call' = JumpTo(call) => Fares(call', fields)
    BY <1>1, JumpFares DEF Branches
  <1>5. ASSUME what # "jump", NEW c,
               Becomes(call, c, call.pc, call.status, call.held, call.lost, call.bad),
               call' = On(c)
        PROVE  Fares(call', fields)
    <2>1. what \in Idle \ {"if_kept", "use_kept", "use_filled"}
      BY <1>5 DEF Idle
    <2>2. PICK b, h : b = call.bad /\ h = call.held
      OBVIOUS
    <2>3. /\ Becomes(call, c, call.pc, call.status, h, call.lost, b)
          /\ b \subseteq StaleBuffers[platform] /\ DOMAIN h = DOMAIN call.held
      BY <1>5, <2>2, NowIs
    <2>4. QED BY <1>1, <1>5, <2>1, <2>3, IdleOn
  <1>6. CASE what = "jump"
    <2>1. call' = JumpTo(call)
      BY <1>3, <1>6, MachineIs DEF Control
    <2>2. QED BY <1>4, <2>1
  <1>7. CASE what = "fork"
    <2>1. call' \in {On(call), JumpTo(call)}
      BY <1>3, <1>7, MachineIs DEF Control
    <2>2. Becomes(call, call, call.pc, call.status, call.held, call.lost, call.bad)
      BY <1>3 DEF Becomes
    <2>3. QED BY <1>4, <1>5, <1>7, <2>1, <2>2
  <1>8. CASE what = "loop"
    <2>1. call' = JumpTo(call) \/ call' = On([call EXCEPT !.turns = @ + 1])
      BY <1>3, <1>8, MachineIs DEF Control
    <2>2. PICK c, n : n = call.turns + 1 /\ c = [call EXCEPT !.turns = n]
      OBVIOUS
    <2>3. Becomes(call, c, call.pc, call.status, call.held, call.lost, call.bad)
      BY <1>3, <2>2, BecomesParts
    <2>4. CASE call' = On([call EXCEPT !.turns = @ + 1])
      <3>1. call' = On(c)
        BY <2>2, <2>4
      <3>2. QED BY <1>5, <1>8, <2>3, <3>1
    <2>5. QED BY <1>4, <2>1, <2>4
  <1>9. CASE what = "each"
    <2>1. call' = JumpTo(call) \/ call' = On([call EXCEPT !.counted = @ - 1])
      BY <1>3, <1>9, MachineIs DEF Control
    <2>2. PICK c, n : n = call.counted - 1 /\ c = [call EXCEPT !.counted = n]
      OBVIOUS
    <2>3. Becomes(call, c, call.pc, call.status, call.held, call.lost, call.bad)
      BY <1>3, <2>2, BecomesParts
    <2>4. CASE call' = On([call EXCEPT !.counted = @ - 1])
      <3>1. call' = On(c)
        BY <2>2, <2>4
      <3>2. QED BY <1>5, <1>9, <2>3, <3>1
    <2>5. QED BY <1>4, <2>1, <2>4
  <1>10. QED BY <1>6, <1>7, <1>8, <1>9

(***************************************************************************)
(* The fields of the handle.                                               *)
(***************************************************************************)

\* A field is set, or used, and the call goes on.
LEMMA FieldFares ==
    ASSUME CallsIInv, NEW what, Doing(what), what \notin {"return", "new_handle"} \cup Ends,
           what = "if_kept" => Now(step.res) # "null",
           NEW r, r = step.res, r \in DOMAIN fields,
           NEW v, v = Then(what, fields[r]), v \in FieldValues,
           NEW e, NEW bad, Becomes(call, e, call.pc + 1, call.status, call.held, {}, bad),
           bad \subseteq StaleBuffers[platform]
    PROVE  Fares(e, [fields EXCEPT ![r] = v])
  <1>1. step.do = what
    BY StepNeeds
  <1>2. /\ DOMAIN call.held \cap DOMAIN fields = {}
        /\ \A m \in DOMAIN fields : fields[m] \in FieldValues
    BY NowIs
  <1>3. PICK f, h : f = [fields EXCEPT ![r] = v] /\ h = call.held
    OBVIOUS
  <1>4. DOMAIN f = DOMAIN fields /\ DOMAIN h = DOMAIN call.held
        /\ \A n \in DOMAIN f : f[n] \in FieldValues
    BY <1>2, <1>3
  <1>5. Now(r) = fields[r]
    BY DEF Now, NowOf
  <1>6. ASSUME NEW n PROVE NowOf(f, h, n) = TurnedNow(n)
    <2>1. NowOf([fields EXCEPT ![r] = v], call.held, n) = IF n = r THEN v ELSE Now(n)
      BY <1>2, HeldChanges
    <2>2. NowOf(f, h, n) = IF n = r THEN v ELSE Now(n)
      BY <1>3, <2>1
    <2>3. QED BY <1>1, <1>5, <2>2 DEF TurnedNow
  <1>7. Becomes(call, e, call.pc + 1, call.status, h, {}, bad)
    BY <1>3
  <1>8. what \notin {"return"} \cup Ends
    OBVIOUS
  <1>9. Fares(e, f)
    BY <1>4, <1>6, <1>7, <1>8, StepFares
  <1>10. QED BY <1>3, <1>9

\* What a step makes of a field that is as the step needs it.
OfFields == {"keep", "clear", "dispose", "use_kept", "overwrite", "fill", "use_filled", "if_kept"}

\* A step on a field finds it as it needs it, and leaves it a value of a field.
LEMMA FieldsReady ==
    ASSUME CallsIInv, NEW what \in OfFields, Doing(what), NEW r, r = step.res
    PROVE  /\ r \in DOMAIN fields /\ fields[r] \in FieldValues /\ Now(r) = fields[r]
           /\ Ready(platform, what, r, fields[r]) /\ IsCall(call) /\ step.do = what
           /\ Then(what, fields[r]) \in FieldValues
           /\ what \notin {"return", "new_handle"} \cup Ends
           /\ Then(what, fields[r]) =
                CASE what \in {"keep", "overwrite"} -> "live" [] what = "clear" -> "null"
                  [] what = "dispose" -> "dangling" [] what = "fill" -> "filled"
                  [] OTHER -> fields[r]
  <1>1. what \notin {"return", "new_handle"} \cup Ends
    BY DEF OfFields, Ends
  <1>2. Ready(platform, what, r, Now(r)) /\ IsCall(call) /\ step.do = what
    BY <1>1, StepNeeds
  <1>3. Now(r) \in FieldValues
    BY <1>2 DEF Ready, OfFields, Gone, Living, FieldValues
  <1>4. r \in DOMAIN fields /\ Now(r) = fields[r]
    BY <1>3, NowIs
  <1>5. Then(what, fields[r]) =
          CASE what \in {"keep", "overwrite"} -> "live" [] what = "clear" -> "null"
            [] what = "dispose" -> "dangling" [] what = "fill" -> "filled" [] OTHER -> fields[r]
    BY DEF Then, OfFields, Taking
  <1>6. Then(what, fields[r]) \in FieldValues
    <2>1. CASE what \in {"keep", "overwrite"}
      BY <2>1 DEF Then, Taking, FieldValues
    <2>2. CASE what \in {"clear", "dispose", "fill"}
      BY <2>2 DEF Then, Taking, FieldValues
    <2>3. CASE what \in {"use_kept", "use_filled", "if_kept"}
      <3>1. Then(what, fields[r]) = fields[r]
        BY <2>3 DEF Then, Taking
      <3>2. QED BY <1>3, <1>4, <3>1
    <2>4. QED BY <2>1, <2>2, <2>3 DEF OfFields
  <1>7. QED BY <1>1, <1>2, <1>3, <1>4, <1>5, <1>6

\* What is used or disposed of is there, or is one of the stale buffers.
LEMMA UnlessBecomes ==
    ASSUME CallsIInv, IsCall(call), NEW spoilt,
           spoilt \in BOOLEAN, spoilt => step.res \in StaleBuffers[platform]
    PROVE  \E bad : /\ Becomes(call, Unless(spoilt), call.pc + 1, call.status, call.held, {}, bad)
                    /\ bad \subseteq StaleBuffers[platform]
  <1>1. PICK c : c = On(call)
    OBVIOUS
  <1>2. call.lost = {} /\ call.bad \subseteq StaleBuffers[platform]
    BY NowIs
  <1>3. Becomes(call, c, call.pc + 1, call.status, call.held, call.lost, call.bad)
    BY <1>1, BecomesSteps
  <1>4. Becomes(call, c, call.pc + 1, call.status, call.held, {}, call.bad)
    BY <1>2, <1>3
  <1>5. CASE ~spoilt
    <2>1. Unless(spoilt) = c
      BY <1>1, <1>5 DEF Unless
    <2>2. QED BY <1>2, <1>4, <2>1
  <1>6. CASE spoilt
    <2>1. PICK b : b = call.bad \cup {step.res}
      OBVIOUS
    <2>2. IsCall(c) /\ c.bad = call.bad
      BY <1>3 DEF Becomes
    <2>3. PICK e : e = [c EXCEPT !.bad = b]
      OBVIOUS
    <2>4. Becomes(c, e, c.pc, c.status, c.held, c.lost, b)
      BY <2>2, <2>3, BecomesParts
    <2>5. Becomes(call, e, call.pc + 1, call.status, call.held, {}, b)
      BY <1>4, <2>4 DEF Becomes
    <2>6. Unless(spoilt) = e
      BY <1>1, <1>6, <2>1, <2>2, <2>3 DEF Unless
    <2>7. b \subseteq StaleBuffers[platform]
      BY <1>2, <1>6, <2>1
    <2>8. QED BY <2>5, <2>6, <2>7
  <1>7. QED BY <1>5, <1>6

\* What is set or forgotten was not there.
LEMMA LosingBecomes ==
    ASSUME CallsIInv, IsCall(call), ~Alive(step.res)
    PROVE  Becomes(call, Losing, call.pc + 1, call.status, call.held, {}, call.bad)
  <1>1. PICK c, l : c = On(call) /\ l = call.lost
    OBVIOUS
  <1>2. call.lost = {}
    BY NowIs
  <1>3. Becomes(call, c, call.pc + 1, call.status, call.held, call.lost, call.bad)
    BY <1>1, BecomesSteps
  <1>4. PICK e : e = [c EXCEPT !.lost = l]
    OBVIOUS
  <1>5. IsCall(c) /\ c.lost = l
    BY <1>1, <1>3 DEF Becomes
  <1>6. Becomes(c, e, c.pc, c.status, c.held, l, c.bad)
    BY <1>4, <1>5, BecomesParts
  <1>7. Losing = [On(call) EXCEPT !.lost = @ \cup {}]
    BY DEF Losing
  <1>8. Losing = e
    BY <1>1, <1>4, <1>5, <1>7
  <1>9. Becomes(call, e, call.pc + 1, call.status, call.held, {}, call.bad)
    BY <1>1, <1>2, <1>3, <1>6 DEF Becomes
  <1>10. QED BY <1>8, <1>9

\* The fields of the handle.
LEMMA OnFieldFares == ASSUME CallsIInv, OnField PROVE Fares(call', fields') /\ opened' = opened
  <1>1. opened' = opened
    BY DEF OnField
  <1> SUFFICES Fares(call', fields')
    BY <1>1
  <1>2. PICK r : r = step.res
    OBVIOUS
  <1>3. CASE Doing("new_handle")
    <2>1. PICK what : what = "new_handle"
      OBVIOUS
    <2>2. step.do = what /\ IsCall(call) /\ Doing(what) /\ what \notin {"return", "if_kept"} \cup Ends
      BY <1>3, <2>1, StepNeeds DEF Ends
    <2>3. /\ fields' = [f \in DOMAIN fields |->
                          CASE f = "jsigar" -> fields[f] [] f = "handle" -> "live"
                            [] OTHER -> "garbage"]
          /\ call' = On(call)
      BY <2>1, <2>2, MachineIs DEF OnField
    <2>4. PICK f, e, h, b : f = fields' /\ e = call' /\ h = call.held /\ b = call.bad
      OBVIOUS
    <2>5. /\ call.lost = {} /\ b \subseteq StaleBuffers[platform]
          /\ \A m \in DOMAIN fields : fields[m] \in FieldValues
      BY <2>4, NowIs
    <2>6. Becomes(call, e, call.pc + 1, call.status, h, {}, b)
      <3>1. Becomes(call, On(call), call.pc + 1, call.status, call.held, call.lost, call.bad)
        BY <2>2, BecomesSteps
      <3>2. QED BY <2>3, <2>4, <2>5, <3>1
    <2>7. DOMAIN f = DOMAIN fields
          /\ \A n \in DOMAIN fields : f[n] = IF n = "jsigar" THEN fields[n]
                                               ELSE IF n = "handle" THEN "live" ELSE "garbage"
      BY <2>3, <2>4
    <2>8. \A n \in DOMAIN f : f[n] \in FieldValues
      BY <2>5, <2>7 DEF FieldValues
    <2>9. ASSUME NEW n PROVE NowOf(f, h, n) = TurnedNow(n)
      <3>1. TurnedNow(n) = Renewed(n, Now(n))
        BY <2>1, <2>2 DEF TurnedNow
      <3>2. CASE n \in DOMAIN fields
        <4>1. Now(n) = fields[n] /\ fields[n] \notin {"out", "held"} /\ NowOf(f, h, n) = f[n]
          BY <2>5, <2>7, <3>2 DEF Now, NowOf, FieldValues
        <4>2. QED BY <2>7, <3>1, <3>2, <4>1 DEF Renewed
      <3>3. CASE n \notin DOMAIN fields
        <4>1. Now(n) \in {"out", "held"} /\ NowOf(f, h, n) = Now(n)
          BY <2>4, <2>7, <3>3 DEF Now, NowOf
        <4>2. QED BY <3>1, <4>1 DEF Renewed
      <3>4. QED BY <3>2, <3>3
    <2>10. DOMAIN h = DOMAIN call.held /\ what # "if_kept" /\ what \notin {"return"} \cup Ends
      BY <2>2, <2>4
    <2>11. Fares(e, f)
      BY <2>2, <2>5, <2>6, <2>7, <2>8, <2>9, <2>10, StepFares
    <2>12. QED BY <2>4, <2>11
  <1>4. ASSUME NEW what \in OfFields, Doing(what), what = "if_kept" => fields[r] # "null",
               NEW e, NEW v, NEW bad, v = Then(what, fields[r]),
               Becomes(call, e, call.pc + 1, call.status, call.held, {}, bad),
               bad \subseteq StaleBuffers[platform], FieldNow(v, e)
        PROVE  Fares(call', fields')
    <2>1. /\ r \in DOMAIN fields /\ Now(step.res) = fields[r]
          /\ v \in FieldValues /\ what \notin {"return", "new_handle"} \cup Ends
      BY <1>2, <1>4, FieldsReady
    <2>2. Fares(e, [fields EXCEPT ![r] = v])
      BY <1>2, <1>4, <2>1, FieldFares
    <2>3. QED BY <1>2, <1>4, <2>2 DEF FieldNow
  <1>5. ASSUME NEW what \in {"keep", "clear"}, Doing(what), NEW v, v = Then(what, fields[r]),
               FieldNow(v, Losing)
        PROVE  Fares(call', fields')
    <2>1. what \in OfFields /\ what # "if_kept"
      BY DEF OfFields
    <2>2. IsCall(call) /\ Ready(platform, what, r, fields[r])
      BY <1>2, <1>5, <2>1, FieldsReady
    <2>3. ~Alive(step.res)
      BY <1>2, <2>2 DEF Ready, Gone, Living, Alive
    <2>4. Becomes(call, Losing, call.pc + 1, call.status, call.held, {}, call.bad)
      BY <2>2, <2>3, LosingBecomes
    <2>5. call.bad \subseteq StaleBuffers[platform]
      BY NowIs
    <2>6. QED BY <1>4, <1>5, <2>1, <2>4, <2>5
  <1>6. ASSUME NEW what \in {"dispose", "use_kept", "overwrite", "fill", "use_filled"}, Doing(what),
               NEW v, v = Then(what, fields[r]), NEW spoilt,
               spoilt = IF what = "use_filled" THEN fields[r] # "filled" ELSE ~Alive(r),
               FieldNow(v, Unless(spoilt))
        PROVE  Fares(call', fields')
    <2>1. what \in OfFields /\ what # "if_kept"
      BY DEF OfFields
    <2>2. IsCall(call) /\ Ready(platform, what, r, fields[r])
      BY <1>2, <1>6, <2>1, FieldsReady
    <2>3. spoilt \in BOOLEAN /\ (spoilt => step.res \in StaleBuffers[platform])
      BY <1>2, <1>6, <2>2 DEF Ready, Living, Alive
    <2>4. PICK bad : /\ Becomes(call, Unless(spoilt), call.pc + 1, call.status, call.held, {}, bad)
                     /\ bad \subseteq StaleBuffers[platform]
      BY <2>2, <2>3, UnlessBecomes
    <2>5. QED BY <1>4, <1>6, <2>1, <2>4
  <1>7. CASE Doing("if_kept")
    <2>1. PICK what : what = "if_kept"
      OBVIOUS
    <2>2. Doing(what) /\ what \in OfFields /\ what \in Branches
      BY <1>7, <2>1 DEF OfFields, Branches
    <2>3. /\ IsCall(call) /\ r \in DOMAIN fields /\ Now(r) = fields[r] /\ step.do = what
          /\ fields[r] \in FieldValues /\ Then(what, fields[r]) = fields[r]
      BY <1>2, <2>1, <2>2, FieldsReady
    <2>4. FieldNow(fields[r], IF fields[r] = "null" THEN JumpTo(call) ELSE On(call))
      BY <1>2, <2>1, <2>3, MachineIs DEF OnField
    <2>5. CASE fields[r] # "null"
      <3>1. PICK e, b : e = On(call) /\ b = call.bad
        OBVIOUS
      <3>2. call.lost = {} /\ b \subseteq StaleBuffers[platform]
        BY <3>1, NowIs
      <3>3. Becomes(call, e, call.pc + 1, call.status, call.held, {}, b)
        <4>1. Becomes(call, e, call.pc + 1, call.status, call.held, call.lost, call.bad)
          BY <2>3, <3>1, BecomesSteps
        <4>2. QED BY <3>1, <3>2, <4>1
      <3>4. FieldNow(fields[r], e)
        BY <2>4, <2>5, <3>1
      <3>5. QED BY <1>4, <2>2, <2>3, <2>5, <3>2, <3>3, <3>4
    <2>6. CASE fields[r] = "null"
      <3>1. fields' = [fields EXCEPT ![r] = fields[r]] /\ call' = JumpTo(call)
        BY <1>2, <2>4, <2>6 DEF FieldNow
      <3>2. DOMAIN fields' = DOMAIN fields /\ \A n \in DOMAIN fields : fields'[n] = fields[n]
        BY <3>1
      <3>3. Fares(call', fields)
        BY <1>2, <2>1, <2>2, <2>3, <2>6, <3>1, JumpFares
      <3>4. Clean(call', fields')
        BY <3>2, <3>3 DEF Fares, Clean
      <3>5. \A n : NowOf(fields', call'.held, n) = NowOf(fields, call'.held, n)
        BY <3>2 DEF NowOf
      <3>6. Follows(call', fields')
        BY <3>3, <3>5 DEF Fares, Follows
      <3>7. QED BY <3>4, <3>6 DEF Fares
    <2>7. QED BY <2>5, <2>6
  <1>8. CASE Doing("keep") /\ FieldNow("live", Losing)
    <2>1. Then("keep", fields[r]) = "live"
      BY DEF Then, Taking
    <2>2. QED BY <1>5, <1>8, <2>1
  <1>9. CASE Doing("clear") /\ FieldNow("null", Losing)
    <2>1. Then("clear", fields[r]) = "null"
      BY DEF Then, Taking
    <2>2. QED BY <1>5, <1>9, <2>1
  <1>10. CASE Doing("dispose") /\ FieldNow("dangling", Unless(~Alive(r)))
    <2>1. Then("dispose", fields[r]) = "dangling"
      BY DEF Then, Taking
    <2>2. PICK b : b = ~Alive(r)
      OBVIOUS
    <2>3. QED BY <1>6, <1>10, <2>1, <2>2
  <1>11. CASE Doing("use_kept") /\ FieldNow(fields[r], Unless(~Alive(r)))
    <2>1. Then("use_kept", fields[r]) = fields[r]
      BY DEF Then, Taking
    <2>2. PICK b : b = ~Alive(r)
      OBVIOUS
    <2>3. QED BY <1>6, <1>11, <2>1, <2>2
  <1>12. CASE Doing("overwrite") /\ FieldNow("live", Unless(~Alive(r)))
    <2>1. Then("overwrite", fields[r]) = "live"
      BY DEF Then, Taking
    <2>2. PICK b : b = ~Alive(r)
      OBVIOUS
    <2>3. QED BY <1>6, <1>12, <2>1, <2>2
  <1>13. CASE Doing("fill") /\ FieldNow("filled", Unless(~Alive(r)))
    <2>1. Then("fill", fields[r]) = "filled"
      BY DEF Then, Taking
    <2>2. PICK b : b = ~Alive(r)
      OBVIOUS
    <2>3. QED BY <1>6, <1>13, <2>1, <2>2
  <1>14. CASE Doing("use_filled") /\ FieldNow(fields[r], Unless(fields[r] # "filled"))
    <2>1. Then("use_filled", fields[r]) = fields[r]
      BY DEF Then, Taking
    <2>2. PICK b : b = (fields[r] # "filled")
      OBVIOUS
    <2>3. QED BY <1>6, <1>14, <2>1, <2>2
  <1>15. \/ Doing("new_handle") \/ Doing("if_kept")
         \/ Doing("keep") /\ FieldNow("live", Losing)
         \/ Doing("clear") /\ FieldNow("null", Losing)
         \/ Doing("dispose") /\ FieldNow("dangling", Unless(~Alive(r)))
         \/ Doing("use_kept") /\ FieldNow(fields[r], Unless(~Alive(r)))
         \/ Doing("overwrite") /\ FieldNow("live", Unless(~Alive(r)))
         \/ Doing("fill") /\ FieldNow("filled", Unless(~Alive(r)))
         \/ Doing("use_filled") /\ FieldNow(fields[r], Unless(fields[r] # "filled"))
    BY <1>2 DEF OnField
  <1>16. QED
    BY <1>3, <1>7, <1>8, <1>9, <1>10, <1>11, <1>12, <1>13, <1>14, <1>15

(***************************************************************************)
(* How a call ends, and what the next one finds.                           *)
(***************************************************************************)

\* A call that has ended left everything as its method may.
LEMMA CallEnds ==
    ASSUME CallsIInv, Ended
    PROVE  /\ opened = (call.op # "open") /\ call.status \in {"ok", "error", "thrown"}
           /\ \A x : Seen(x, call, fields)
                       \in Mode(platform, x, Final(platform, call.op, call.status, x))
  <1>1. RowsIInv /\ call.op # Nothing /\ step = Over[1]
    BY Zenon DEF CallsIInv, Ended, Busy, Nothing
  <1>2. opened = (call.op # "open") /\ \A x : Placed(x, call, fields)
    BY <1>1 DEF CallsIInv
  <1>3. PICK s : s = Programs[platform][call.op]
    OBVIOUS
  <1>4. /\ Len(s) \in Nat /\ call.pc \in 0..Len(s)+1 /\ step.do = "return"
        /\ call.pc \in 1..Len(s) => step = s[call.pc]
    BY <1>1, <1>3, CallIsAt
  <1>5. ASSUME NEW x
        PROVE  /\ call.status \in {"ok", "error", "thrown"}
               /\ Seen(x, call, fields)
                    \in Mode(platform, x, Final(platform, call.op, call.status, x))
    <2>1. PICK w, p, op : w = Seen(x, call, fields) /\ p = platform /\ op = call.op
      OBVIOUS
    <2>2. PICK known :
            /\ SoundFrom(p, s, 0, Len(s), known, Exits(p, x, op))
            /\ known[Len(s) + 1] \subseteq Mode(p, x, Final(p, op, "ok", x))
            /\ call.pc # 0 => call.status = "ok" /\ w \in known[call.pc]
            /\ call.pc = 0 => <<call.status, w>> \in Exits(p, x, op)
      BY <1>2, <1>3, <2>1 DEF Placed
    <2>3. CASE call.pc = 0
      <3>1. <<call.status, w>> \in Exits(p, x, op)
        BY <2>2, <2>3
      <3>2. /\ call.status \in {"error", "thrown"}
            /\ w \in Mode(p, x, Final(p, op, call.status, x))
        BY <3>1 DEF Exits
      <3>3. QED BY <2>1, <3>2
    <2>4. CASE call.pc \in 1..Len(s)
      <3>1. Sound(p, s[call.pc], 0 + call.pc, Len(s), known, Exits(p, x, op))
        BY <2>2, <2>4 DEF SoundFrom
      <3>2. call.pc # 0 /\ step = s[call.pc]
        BY <1>4, <2>4
      <3>3. Good(p, step, w)
        <4>1. 0 + call.pc = call.pc /\ w \in known[call.pc]
          BY <1>4, <2>2, <2>4, <3>2
        <4>2. QED BY <3>1, <3>2, <4>1 DEF Sound
      <3>4. QED BY <1>4, <3>3 DEF Good
    <2>5. CASE call.pc = Len(s) + 1
      <3>1. call.pc # 0
        BY <1>4, <2>5
      <3>2. call.status = "ok" /\ w \in Mode(p, x, Final(p, op, "ok", x))
        BY <2>2, <2>5, <3>1
      <3>3. QED BY <2>1, <3>2
    <2>6. QED BY <1>4, <2>3, <2>4, <2>5
  <1>6. QED BY <1>2, <1>5

\* Of names that are followed together all are fields, or there is one alone.
LEMMA AllOrAlone ==
    ASSUME NEW p \in Platforms, NEW x
    PROVE  Tracked(p, x) \subseteq Kept[p] \/ (Tracked(p, x) = {x} /\ x \notin Kept[p])
  <1>1. CASE p = "solaris" /\ x \in {"smb", "db"}
    <2>1. Tracked(p, x) = {"sd", x}
      BY <1>1 DEF Tracked, Beside
    <2>2. {"sd", "smb", "db"} \subseteq Kept["solaris"]
      BY DEF Kept, SolarisFields
    <2>3. QED BY <1>1, <2>1, <2>2
  <1>2. CASE ~(p = "solaris" /\ x \in {"smb", "db"})
    <2>1. Tracked(p, x) = {x}
      BY <1>2 DEF Tracked, Beside
    <2>2. QED BY <2>1
  <1>3. QED BY <1>1, <1>2

\* No field is known to be left behind by a method other than open and close.
LEMMA FieldsFinal ==
    ASSUME NEW p \in Platforms, NEW x \in Kept[p], NEW op, NEW status
    PROVE  /\ op = "nativeClose" =>
                Final(p, op, status, x) = IF p = "darwin" /\ x = "libproc" THEN "rest" ELSE "gone"
           /\ op = "open" /\ status # "ok" => Final(p, op, status, x) = "left"
           /\ op # "nativeClose" /\ (op # "open" \/ status = "ok") =>
                Final(p, op, status, x) = "rest"
  <1>1. \A r \in {"list", "sock", "fp", "fslist", "table"} : r \notin Kept[p]
    <2>1. {"list", "sock", "fp", "fslist", "table"} \subseteq Resources
      BY DEF Resources
    <2>2. QED BY <2>1, NamesAre DEF Local
  <1>2. \A a, b, c, r : <<a, b, c, r>> \in Leaks => r \in {"list", "sock", "fp", "fslist", "table"}
    BY DEF Leaks
  <1>3. <<p, op, status, x>> \notin Leaks /\ x # "list"
    BY <1>1, <1>2
  <1>4. QED BY <1>3 DEF Final

\* A handle that is not there is as an open needs it.
LEMMA NullRests ==
    ASSUME platform \in Platforms, NEW f, DOMAIN f = Kept[platform],
           \A n \in Kept[platform] : f[n] = "null", NEW o, o = FALSE
    PROVE  Resting(o, f)
  <1>1. SUFFICES ASSUME NEW x, NEW op, op = "open"
                 PROVE  SeenOf(Tracked(platform, x), f, <<>>) \in Start(platform, x, op)
    BY DEF Resting
  <1>2. PICK w, N : N = Tracked(platform, x) /\ w = SeenOf(N, f, <<>>)
    OBVIOUS
  <1>3. DOMAIN <<>> = {}
    OBVIOUS
  <1>4. w = [n \in N |-> IF n \in Kept[platform] THEN "null" ELSE "out"]
    BY <1>2, <1>3 DEF SeenOf, NowOf
  <1>5. w \in States(platform, x)
    BY <1>2, <1>4 DEF States, Values, FieldValues
  <1>6. QED BY <1>1, <1>2, <1>4, <1>5 DEF Start

\* After a call that leaves the handle open the fields are as the next one
\* needs them, and nothing is left of the call.
LEMMA CallRests ==
    ASSUME CallsIInv, Ended, call.op # "nativeClose", call.op # "open" \/ call.status = "ok",
           NEW o, o = TRUE
    PROVE  Resting(o, fields)
  <1>1. SUFFICES ASSUME NEW x, NEW op, op # "open"
                 PROVE  SeenOf(Tracked(platform, x), fields, <<>>) \in Start(platform, x, op)
    BY DEF Resting
  <1>2. PICK w, v, N, p : /\ N = Tracked(platform, x) /\ w = Seen(x, call, fields)
                          /\ v = SeenOf(N, fields, <<>>) /\ p = platform
    OBVIOUS
  <1>3. p \in Platforms /\ DOMAIN fields = Kept[p]
    BY <1>2 DEF CallsIInv, RowsIInv, Clean
  <1>4. w \in Mode(p, x, Final(p, call.op, call.status, x)) /\ x \in N
    BY <1>2, CallEnds, ModesAre
  <1>5. Start(p, x, op) = Mode(p, x, "rest")
    BY <1>1 DEF Start
  <1>6. CASE N \subseteq Kept[p]
    <2>1. v = w
      BY <1>2, <1>3, <1>6 DEF Seen, SeenOf, NowOf
    <2>2. Final(p, call.op, call.status, x) = "rest"
      BY <1>3, <1>4, <1>6, FieldsFinal
    <2>3. QED BY <1>2, <1>4, <1>5, <2>1, <2>2
  <1>7. CASE N = {x} /\ x \notin Kept[p]
    <2>1. DOMAIN <<>> = {}
      OBVIOUS
    <2>2. v = [n \in {x} |-> "out"]
      BY <1>2, <1>3, <1>7, <2>1 DEF SeenOf, NowOf
    <2>3. v \in States(p, x) /\ Alone(p, x)
      BY <1>2, <1>7, <2>2 DEF States, Values, Alone
    <2>4. At(p, x, "rest") = {"out"}
      BY <1>7 DEF At
    <2>5. v \in Mode(p, x, "rest")
      BY <2>2, <2>3, <2>4 DEF Mode
    <2>6. QED BY <1>2, <1>5, <2>5
  <1>8. QED BY <1>2, <1>3, <1>6, <1>7, AllOrAlone

(***************************************************************************)
(* Every step keeps the invariant.                                         *)
(***************************************************************************)

\* What is to be shown of the call d, the fields f and the handle o.
Keeping(d, f, o) ==
  /\ Clean(d, f)
  /\ d.op = Nothing => Resting(o, f)
  /\ d.op # Nothing => o = (d.op # "open") /\ \A x : Placed(x, d, f)

\* It is all there is to show.
LEMMA KeptNext ==
    ASSUME RowsIInv', platform' = platform, Keeping(call', fields', opened')
    PROVE  CallsIInv'
  <1>1. Clean(call, fields)'
    BY DEF Keeping, Clean
  <1>2. (call.op = Nothing => Resting(opened, fields))'
    BY DEF Keeping, Resting
  <1>3. (call.op # Nothing => opened = (call.op # "open") /\ \A x : Placed(x, call, fields))'
    BY DEF Keeping, Placed, Seen
  <1>4. QED BY <1>1, <1>2, <1>3 DEF CallsIInv

\* A call that begins is at the first step of its program.
LEMMA BeginKeeps ==
    ASSUME CallsIInv, Begin
    PROVE  Keeping(call', fields', opened')
  <1>1. call.op = Nothing
    BY Zenon DEF Begin, Busy, Nothing
  <1>2. PICK op \in DOMAIN Programs[platform] :
          /\ opened = (op # "open")
          /\ call' = [NoCall EXCEPT !.op = op, !.status = "ok"]
    BY DEF Begin
  <1>3. fields' = fields /\ opened' = opened /\ Resting(opened, fields) /\ Clean(call, fields)
        /\ platform \in Platforms
    BY <1>1 DEF Begin, CallsIInv, RowsIInv
  <1>4. PICK d, t : d = call' /\ t = "ok"
    OBVIOUS
  <1>5. d.op = op /\ d.pc = 1 /\ d.status = "ok" /\ d.held = <<>> /\ d.lost = {} /\ d.bad = {}
    <2>1. PICK n : n = NoCall
      OBVIOUS
    <2>2. n = [op |-> Nothing, pc |-> 1, status |-> "none", held |-> <<>>, counted |-> 0,
               turns |-> 0, lost |-> {}, bad |-> {}]
      BY <2>1, MachineIs
    <2>3. d = [n EXCEPT !.op = op, !.status = t]
      BY <1>2, <1>4, <2>1
    <2>4. QED BY <1>4, <2>2, <2>3
  <1>6. Clean(d, fields)
    <2>1. DOMAIN <<>> = {}
      OBVIOUS
    <2>2. QED BY <1>3, <1>5, <2>1 DEF Clean
  <1>7. ASSUME NEW x PROVE Placed(x, d, fields)
    <2>1. PICK s, p : s = Programs[platform][op] /\ p = platform
      OBVIOUS
    <2>2. Done(p, x, op, s)
      BY <1>3, <2>1, ProgramsMove
    <2>3. MovesIn(p, s, Start(p, x, op), Mode(p, x, Final(p, op, "ok", x)), Exits(p, x, op),
                  States(p, x))
      BY <2>2 DEF Done, Exits
    <2>4. Len(s) \in Nat
      BY <2>3, MovesAre
    <2>5. PICK known : /\ SoundFrom(p, s, 0, Len(s), known, Exits(p, x, op))
                       /\ Start(p, x, op) \subseteq known[1]
                       /\ known[Len(s) + 1] \subseteq Mode(p, x, Final(p, op, "ok", x))
      BY <2>3, MovesAre
    <2>6. Seen(x, d, fields) \in Start(p, x, op)
      BY <1>2, <1>3, <1>5, <2>1 DEF Resting, Seen
    <2>7. d.pc # 0 /\ d.pc \in 1..Len(s)+1 /\ Seen(x, d, fields) \in known[d.pc]
      BY <1>5, <2>4, <2>5, <2>6
    <2>8. QED BY <1>5, <2>1, <2>5, <2>7 DEF Placed
  <1>8. d.op = Nothing => Resting(opened, fields)
    BY <1>3
  <1>9. Keeping(d, fields, opened)
    BY <1>2, <1>5, <1>6, <1>7, <1>8 DEF Keeping
  <1>10. QED BY <1>3, <1>4, <1>9

\* A call that returns leaves a handle for the next one, or none.
LEMMA ReturnKeeps ==
    ASSUME CallsIInv, Return
    PROVE  Keeping(call', fields', opened')
  <1>1. /\ Ended /\ call' = NoCall
        /\ opened' = (call.op # "nativeClose" /\ (opened \/ call.status = "ok"))
        /\ fields' = IF opened' THEN fields ELSE [f \in DOMAIN fields |-> "null"]
    BY DEF Return
  <1>2. PICK d, f, o : d = call' /\ f = fields' /\ o = opened'
    OBVIOUS
  <1>3. d.op = Nothing /\ d.held = <<>> /\ d.lost = {} /\ d.bad = {}
    BY <1>1, <1>2, MachineIs
  <1>4. opened = (call.op # "open") /\ platform \in Platforms
        /\ DOMAIN fields = Kept[platform] /\ \A n \in DOMAIN fields : fields[n] \in FieldValues
    BY <1>1, CallEnds, NowIs DEF CallsIInv, RowsIInv
  <1>5. \/ /\ o = TRUE /\ f = fields
           /\ call.op # "nativeClose" /\ (call.op # "open" \/ call.status = "ok")
        \/ o = FALSE /\ f = [n \in DOMAIN fields |-> "null"]
    BY <1>1, <1>2, <1>4
  <1>6. DOMAIN f = Kept[platform] /\ \A n \in Kept[platform] : f[n] \in FieldValues
    BY <1>4, <1>5 DEF FieldValues
  <1>7. Clean(d, f)
    <2>1. DOMAIN <<>> = {}
      OBVIOUS
    <2>2. QED BY <1>3, <1>6, <2>1 DEF Clean
  <1>8. Resting(o, f)
    <2>1. CASE /\ o = TRUE /\ f = fields
               /\ call.op # "nativeClose" /\ (call.op # "open" \/ call.status = "ok")
      BY <1>1, <2>1, CallRests
    <2>2. CASE o = FALSE /\ f = [n \in DOMAIN fields |-> "null"]
      <3>1. \A n \in Kept[platform] : f[n] = "null"
        BY <1>4, <2>2
      <3>2. QED BY <1>4, <1>6, <2>2, <3>1, NullRests
    <2>3. QED BY <1>5, <2>1, <2>2
  <1>9. QED BY <1>2, <1>3, <1>7, <1>8 DEF Keeping

\* Any other step goes on with the call.
LEMMA FaresKeep ==
    ASSUME CallsIInv, Fares(call', fields'), opened' = opened, NEW what, what # "return", Doing(what)
    PROVE  Keeping(call', fields', opened')
  <1>1. call.op # Nothing /\ opened = (call.op # "open")
    BY StepNeeds
  <1>2. \A x : Placed(x, call', fields')
    BY StepNeeds DEF Fares
  <1>3. call'.op = call.op /\ Clean(call', fields')
    BY DEF Fares, Follows
  <1>4. QED BY <1>1, <1>2, <1>3 DEF Keeping

\* Before the first call there is no handle.
LEMMA CallsStart == CallsInit => CallsIInv
  <1>1. SUFFICES ASSUME CallsInit PROVE CallsIInv
    OBVIOUS
  <1>2. /\ platform \in Platforms /\ opened = FALSE /\ call = NoCall
        /\ fields = [f \in Kept[platform] |-> "null"]
    BY <1>1 DEF CallsInit
  <1>3. call.op = Nothing /\ call.held = <<>> /\ call.lost = {} /\ call.bad = {}
    BY <1>2, MachineIs
  <1>4. Clean(call, fields)
    <2>1. DOMAIN <<>> = {}
      OBVIOUS
    <2>2. QED BY <1>2, <1>3, <2>1 DEF Clean, FieldValues
  <1>5. Resting(opened, fields)
    BY <1>2, NullRests
  <1>6. QED BY <1>1, <1>3, <1>4, <1>5, RowsStart DEF CallsIInv

\* Every step keeps the invariant.
LEMMA CallsStep == CallsIInv /\ [CallsNext]_<<platform, callVars>> => CallsIInv'
  <1>1. SUFFICES ASSUME CallsIInv, [CallsNext]_<<platform, callVars>> PROVE CallsIInv'
    OBVIOUS
  <1>2. RowsIInv'
    BY <1>1, RowsNext DEF CallsIInv
  <1>3. CASE UNCHANGED <<platform, callVars>>
    <2>1. platform' = platform /\ call' = call /\ fields' = fields /\ opened' = opened
      BY <1>3 DEF callVars
    <2>2. Keeping(call', fields', opened')
      BY <1>1, <2>1 DEF CallsIInv, Keeping
    <2>3. QED BY <1>2, <2>1, <2>2, KeptNext
  <1>4. CASE CallsNext
    <2>1. platform' = platform
      BY <1>4 DEF CallsNext, Moves
    <2>2. Keeping(call', fields', opened')
      <3>1. CASE Begin
        BY <1>1, <3>1, BeginKeeps
      <3>2. CASE Return
        BY <1>1, <3>2, ReturnKeeps
      <3>3. CASE StepInCall
        <4>1. \E what : what # "return" /\ Doing(what)
          BY <3>3 DEF StepInCall, Acquire, Release, UseResource, AskSystem, CallJava
        <4>2. QED BY <1>1, <3>3, <4>1, StepInCallFares, FaresKeep
      <3>4. CASE OnField
        <4>1. \E what : what # "return" /\ Doing(what)
          BY <3>4 DEF OnField
        <4>2. QED BY <1>1, <3>4, <4>1, OnFieldFares, FaresKeep
      <3>5. CASE OnList
        <4>1. \E what : what # "return" /\ Doing(what)
          BY <3>5 DEF OnList
        <4>2. QED BY <1>1, <3>5, <4>1, OnListFares, FaresKeep
      <3>6. CASE Control
        <4>1. \E what : what # "return" /\ Doing(what)
          BY <3>6 DEF Control
        <4>2. QED BY <1>1, <3>6, <4>1, ControlFares, FaresKeep
      <3>7. QED BY <1>4, <3>1, <3>2, <3>3, <3>4, <3>5, <3>6 DEF CallsNext
    <2>3. QED BY <1>2, <2>1, <2>2, KeptNext
  <1>5. QED BY <1>1, <1>3, <1>4

\* What a call that has ended still holds is one of the leaks, or the list a
\* method was copying when Java threw; and no step loses anything.
LEMMA CleanLosesNothing == CallsIInv => NothingLost
  <1>1. SUFFICES ASSUME CallsIInv PROVE NothingLost
    OBVIOUS
  <1>2. call.lost = {} /\ DOMAIN fields = Kept[platform] /\ DOMAIN call.held \cap DOMAIN fields = {}
    BY <1>1, NowIs
  <1>3. ASSUME Ended, NEW r \in DOMAIN call.held
        PROVE  \/ <<platform, call.op, call.status, r>> \in Leaks
               \/ call.status = "thrown" /\ r = "list"
    <2>1. PICK w, m : w = Seen(r, call, fields) /\ m = Final(platform, call.op, call.status, r)
      OBVIOUS
    <2>2. w \in Mode(platform, r, m)
      BY <1>1, <1>3, <2>1, CallEnds
    <2>3. r \in Tracked(platform, r) /\ r \notin Kept[platform]
      BY <1>2, <1>3, ModesAre
    <2>4. w[r] = "held" /\ w[r] \in At(platform, r, m)
      BY <1>2, <1>3, <2>1, <2>2, <2>3 DEF Seen, SeenOf, NowOf, Mode
    <2>5. m \in {"work", "any"}
      BY <2>3, <2>4 DEF At
    <2>6. QED BY <2>1, <2>5 DEF Final
  <1>4. QED BY <1>2, <1>3 DEF NothingLost

\* A method that closes the handle, and an open that failed, have left the
\* fields as they may.
LEMMA CleanCloses == CallsIInv => HandleClosed
  <1>1. SUFFICES ASSUME CallsIInv, Ended, NEW f \in DOMAIN fields, Alive(f)
                 PROVE  CASE call.op = "nativeClose" -> platform = "darwin" /\ f = "libproc"
                          [] call.op = "open" /\ call.status # "ok" -> f \in LeftByOpen[platform]
                          [] OTHER -> TRUE
    BY DEF HandleClosed
  <1>2. DOMAIN fields = Kept[platform] /\ fields[f] \in Living
    BY <1>1, NowIs DEF Alive, Living
  <1>3. PICK w, m : w = Seen(f, call, fields) /\ m = Final(platform, call.op, call.status, f)
    OBVIOUS
  <1>4. w \in Mode(platform, f, m) /\ f \in Tracked(platform, f)
    BY <1>1, <1>3, CallEnds, ModesAre
  <1>5. w[f] = fields[f] /\ w[f] \in At(platform, f, m)
    BY <1>2, <1>3, <1>4 DEF Seen, SeenOf, NowOf, Mode
  <1>6. m # "gone" /\ (m = "left" => f \in LeftByOpen[platform])
    BY <1>2, <1>5 DEF At, Gone
  <1>7. CASE call.op = "nativeClose"
    <2>1. platform = "darwin" /\ f = "libproc"
      BY <1>1, <1>2, <1>3, <1>6, <1>7, FieldsFinal DEF CallsIInv, RowsIInv
    <2>2. QED BY <1>7, <2>1
  <1>8. CASE call.op = "open" /\ call.status # "ok"
    <2>1. f \in LeftByOpen[platform]
      BY <1>1, <1>2, <1>3, <1>6, <1>8, FieldsFinal DEF CallsIInv, RowsIInv
    <2>2. QED BY <1>8, <2>1
  <1>9. QED BY <1>7, <1>8

\* On no platform, and however long a sequence of calls, does a call keep what
\* it took when it has ended, or forget what it holds, but for the known leaks.
THEOREM NothingIsLost == CallsSpec => []NothingLost
  <1>1. QED BY CallsStart, CallsStep, CleanLosesNothing, PTL DEF CallsSpec

\* Nothing is used before it is there or after it was freed, nor freed twice,
\* over any sequence of calls on one handle, but for the stale buffers, and on
\* Windows for the libraries that did not load, the list of CPUs that was not
\* made and the old answer of the performance counters.
THEOREM NothingIsStale == CallsSpec => []NothingStale
  <1>1. CallsIInv => NothingStale
    BY DEF CallsIInv, Clean, NothingStale
  <1>2. QED BY <1>1, CallsStart, CallsStep, PTL DEF CallsSpec

\* Closing a handle frees all it keeps, whatever was called before, and an open
\* that fails leaves no more than is known; but for the library of Mac OS X.
THEOREM HandlesAreClosed == CallsSpec => []HandleClosed
  <1>1. QED BY CallsStart, CallsStep, CleanCloses, PTL DEF CallsSpec
=============================================================================
