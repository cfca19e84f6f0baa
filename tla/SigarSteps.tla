----------------------------- MODULE SigarSteps -----------------------------
(***************************************************************************)
(* A call of the Sigar library as the resources see it: a sequence of      *)
(* steps, each of which takes, uses or frees something, asks the system    *)
(* something that may fail, or stores a row of the answer. A step that     *)
(* fails frees its "undo" and ends the call with an error, unless "fail"   *)
(* says how far behind it the call goes on; "next" is how far a step that  *)
(* is not followed by the next one jumps.                                  *)
(***************************************************************************)
EXTENDS Integers, Sequences

Step(do, res, undo, next) ==
  <<[do |-> do, res |-> res, undo |-> undo, next |-> next, fail |-> 0]>>

(***************************************************************************)
(* Resources: descriptors, streams and buffers of the call itself          *)
(***************************************************************************)
OpenOr(r, undo) == Step("open", r, undo, 1)     \* fopen, socket, dlopen: may fail
Open(r) == OpenOr(r, {})
Take(r) == Step("take", r, {}, 1)               \* malloc, create
Use(r) == Step("use", r, {}, 1)
Free(r) == Step("free", r, {}, 1)
FreeIf(r) == Step("free_if", r, {}, 1)          \* if (p) free(p)

(***************************************************************************)
(* Questions that may fail, and refusals                                   *)
(***************************************************************************)
AskOr(undo) == Step("ask", "", undo, 1)
Ask == AskOr({})
FailAfter(undo) == Step("refuse", "", undo, 1)
Fail == FailAfter({})
Throws == Step("throws", "", {}, 1)             \* calls Java, which may throw

(***************************************************************************)
(* Fields of the handle, which outlive the call. A new handle holds        *)
(* garbage in all of them.                                                 *)
(***************************************************************************)
NewHandle == Step("new_handle", "", {}, 1)
Keep(f) == Step("keep", f, {}, 1)               \* handle->f = malloc(...)
UseKept(f) == Step("use_kept", f, {}, 1)
Dispose(f) == Step("dispose", f, {}, 1)         \* free(handle->f)
Clear(f) == Step("clear", f, {}, 1)             \* handle->f = NULL

\* A field that is set, to something that may be neither used nor freed.
Spoil(f) == Keep(f) \o Dispose(f)

\* A buffer of the handle that several calls write and one reads later.
Overwrite(f) == Step("overwrite", f, {}, 1)
Fill(f) == Step("fill", f, {}, 1)
UseFilled(f) == Step("use_filled", f, {}, 1)

(***************************************************************************)
(* The list of an answer: created with room for one chunk of rows, or for  *)
(* as many as were counted before; a row is stored with or without the     *)
(* LIST_GROW macro, which makes room when there is none.                   *)
(***************************************************************************)
NewList(l) == Step("new_list", l, {}, 1)
Count == Step("count", "", {}, 1)
NewCounted(l) == Step("new_counted", l, {}, 1)
Grow(l) == Step("grow", l, {}, 1)
Put(l) == Step("put", l, {}, 1)
AddTo(l) == Grow(l) \o Put(l)

(***************************************************************************)
(* Branches and loops. A loop runs as often as the system has something to *)
(* say, a counted one no more often than was counted.                      *)
(***************************************************************************)
Jump(n) == Step("jump", "", {}, n)
Maybe(s) == Step("fork", "", {}, Len(s) + 1) \o s
Either(s, t) == Maybe(s \o Jump(Len(t) + 1)) \o t
Loop(s) == Step("loop", "", {}, Len(s) + 2) \o s \o Jump(-(Len(s) + 1))
EachCounted(s) == Step("each", "", {}, Len(s) + 2) \o s \o Jump(-(Len(s) + 1))
IfKept(f, s, t) == Step("if_kept", f, {}, Len(s) + 2) \o s \o Jump(Len(t) + 1) \o t
FreeKept(f) == IfKept(f, Dispose(f), <<>>)
KeepOnce(f) == IfKept(f, <<>>, Keep(f))

(***************************************************************************)
(* Calls inside a call: what the caller frees when the callee fails, and   *)
(* callers that go on, or try something else, after a failure.             *)
(***************************************************************************)
Within(undo, s) ==
  [i \in DOMAIN s |-> IF s[i].fail = 0 THEN [s[i] EXCEPT !.undo = @ \cup undo]
                                       ELSE s[i]]
OrElse(s, t) ==
  [i \in DOMAIN s |-> IF s[i].fail = 0 THEN [s[i] EXCEPT !.fail = Len(s) + 2 - i]
                                       ELSE s[i]] \o Jump(Len(t) + 1) \o t
Try(s) == OrElse(s, <<>>)

(***************************************************************************)
(* The rows of a call in another list than the answer's, or in one that    *)
(* the handle keeps.                                                       *)
(***************************************************************************)
Rename(r, l) == IF r = "list" THEN l ELSE r
InList(l, s) ==
  [i \in DOMAIN s |-> [s[i] EXCEPT !.res = Rename(@, l),
                                   !.undo = {Rename(r, l) : r \in @}]]
OnKept(f, s) ==
  [i \in DOMAIN s |-> IF s[i].res = "list"
                        THEN [s[i] EXCEPT !.do = "use_kept", !.res = f] ELSE s[i]]
=============================================================================
