-------------------------- MODULE KeyboardAppProofs --------------------------
(***************************************************************************)
(* Proofs about the application for every set of keyboards over Names and  *)
(* every number of held keys.  The only assumption is KeyboardsAssumption. *)
(*                                                                         *)
(* What the engine makes of a frame is a fold over the keys that moved.    *)
(* The library's induction theorems take an operator; instead, what a fold *)
(* computes is proved from the minimal member that a family of finite sets *)
(* has, without one.                                                       *)
(***************************************************************************)
EXTENDS KeyboardApp, FiniteSetTheorems, WellFoundedInduction, TLAPS

-----------------------------------------------------------------------------
(* The application's record, as far as the proofs need it: its fields.     *)
Fields ==
    {"armed", "valid", "enabled", "down", "pressed", "fn", "out", "mode", "edit", "dirty", "rapid",
     "revised", "saved", "pending", "chosenKey", "bright", "confirm", "ready", "page", "choice",
     "previous", "moved", "midi", "cal", "done", "holds", "frameValid", "loaded", "resetPending",
     "fault", "bounds"}
IsState(t) == DOMAIN t = Fields

(* The bounds agree with the flash, and are the factory's until the flash  *)
(* was read.                                                               *)
StoreOK(t, f) ==
    /\ f \in {"factory", "custom"}
    /\ t.loaded /\ ~t.resetPending /\ ~t.fault => t.bounds = f
    /\ ~t.loaded => t.bounds = "factory"

(* An armed engine has seen the keys as they are.  Its report names none   *)
(* of the owned ones, and outside MIDI mode only keys it counts as pressed, *)
(* which are held or the menu's; a shortcut needs Fn and is none of those. *)
KeysOK(t, now, owned) ==
    /\ t.down = now
    /\ \A o \in t.out : o[1] \notin owned
    /\ ~t.midi => /\ t.pressed \subseteq now \cup Controls
                  /\ t.fn => "fn" \in t.pressed
                  /\ \A o \in t.out : /\ o[1] \in t.pressed
                                      /\ o[2] = "fn" => t.fn /\ o[1] \notin Controls

(* A question that may be answered has seen every key released.            *)
Pages == {"none", "press", "velocity", "music"}
AskOK(t, pressed) ==
    /\ t.page \in Pages
    /\ t.confirm /\ t.ready => pressed = {}

(* The inductive invariant.  While the menu or a calibration owns the      *)
(* input nothing is armed.                                                 *)
AppInv ==
    /\ IsState(s)
    /\ StoreOK(s, flash)
    /\ Observing(s) => ~s.armed
    /\ s.armed => KeysOK(s, held, own)
    /\ keys \in Keyboards /\ held \subseteq keys /\ own \subseteq held
    /\ AskOK(s, since)

-----------------------------------------------------------------------------
(* Induction over finite sets, without an operator as a parameter: a family *)
(* of subsets of a finite set has a minimal member.                        *)
LEMMA MinimalMember ==
  ASSUME NEW S, IsFiniteSet(S), NEW F \in SUBSET SUBSET S, F # {}
  PROVE  \E T \in F : \A U \in F : U \subseteq T => U = T
<1>1. IsWellFoundedOn(StrictSubsetOrdering(S), SUBSET S)
  BY FS_StrictSubsetOrderingWellFounded, FS_FiniteSubsetsOfFinite
<1>2. \E T \in F : \A U \in F : ~(<<U, T>> \in StrictSubsetOrdering(S))
  BY <1>1, WFMin
<1> QED BY <1>2 DEF StrictSubsetOrdering

(* What FoldSet computes over the subsets of E, starting from b, and the   *)
(* functions that compute it.                                              *)
First(U) == CHOOSE k \in U : TRUE
Body(g, b, U) == IF U = {} THEN b ELSE Sent(First(U), g[U \ {First(U)}])
Runs(g, b, E) == g = [U \in SUBSET E |-> Body(g, b, U)]

LEMMA FirstIn == \A U : U # {} => First(U) \in U
BY DEF First

LEMMA RunsOn ==
  ASSUME NEW b, NEW E, NEW g, Runs(g, b, E), NEW U \in SUBSET E
  PROVE  g[U] = Body(g, b, U)
<1>1. [V \in SUBSET E |-> Body(g, b, V)][U] = Body(g, b, U)
  OBVIOUS
<1> QED BY <1>1 DEF Runs

(* Two of them agree wherever both are defined.                            *)
LEMMA RunsAgree ==
  ASSUME NEW b, NEW E, IsFiniteSet(E), NEW V \in SUBSET E, NEW W \in SUBSET E,
         NEW g, NEW h, Runs(g, b, V), Runs(h, b, W)
  PROVE  \A U \in SUBSET (V \cap W) : g[U] = h[U]
<1> DEFINE Bad == {U \in SUBSET (V \cap W) : g[U] # h[U]}
<1>1. SUFFICES ASSUME Bad # {} PROVE FALSE
  OBVIOUS
<1>2. Bad \in SUBSET SUBSET E
  OBVIOUS
<1>3. PICK T \in Bad : \A U \in Bad : U \subseteq T => U = T
  <2> HIDE DEF Bad
  <2> QED BY <1>1, <1>2, MinimalMember
<1>4. T \in SUBSET V /\ T \in SUBSET W /\ g[T] # h[T]
  BY <1>3
<1>5. g[T] = Body(g, b, T) /\ h[T] = Body(h, b, T)
  BY <1>4, RunsOn
<1>6. CASE T = {}
  BY <1>4, <1>5, <1>6 DEF Body
<1>7. CASE T # {}
  <2> DEFINE U == T \ {First(T)}
  <2>1. U \in SUBSET (V \cap W) /\ U \subseteq T /\ U # T
    BY <1>4, <1>7, FirstIn
  <2>2. g[U] = h[U]
    BY <2>1, <1>3
  <2> QED BY <1>4, <1>5, <1>7, <2>2 DEF Body
<1> QED BY <1>6, <1>7

(* There is one for every finite set.                                      *)
LEMMA RunExists ==
  ASSUME NEW b, NEW E, IsFiniteSet(E)
  PROVE  \E g : Runs(g, b, E)
<1> DEFINE Bad == {V \in SUBSET E : ~\E g : Runs(g, b, V)}
<1>1. SUFFICES ASSUME Bad # {} PROVE FALSE
  OBVIOUS
<1>2. Bad \in SUBSET SUBSET E
  OBVIOUS
<1>3. PICK T \in Bad : \A U \in Bad : U \subseteq T => U = T
  <2> HIDE DEF Bad
  <2> QED BY <1>1, <1>2, MinimalMember
<1> DEFINE G(V) == CHOOSE g : Runs(g, b, V)
           f == [V \in SUBSET T |-> IF V # T THEN G(V)[V]
                                    ELSE IF T = {} THEN b
                                    ELSE Sent(First(T), G(T \ {First(T)})[T \ {First(T)}])]
<1>4. ASSUME NEW V \in SUBSET T, V # T PROVE Runs(G(V), b, V)
  <2>1. \E g : Runs(g, b, V)
    BY <1>3, <1>4
  <2> HIDE DEF Runs
  <2> QED BY <2>1
<1>5. ASSUME NEW V \in SUBSET T PROVE f[V] = Body(f, b, V)
  <2>1. CASE V = {} /\ T = {}
    BY <2>1 DEF Body
  <2>2. CASE V = {} /\ T # {}
    <3>1. f[V] = G(V)[V]
      BY <2>2
    <3>2. G(V)[V] = Body(G(V), b, V)
      BY <1>4, <2>2, RunsOn
    <3> QED BY <3>1, <3>2, <2>2 DEF Body
  <2>3. CASE V # {}
    <3> DEFINE U == V \ {First(V)}
    <3>1. U \in SUBSET T /\ U # T /\ U \subseteq V
      BY <2>3, FirstIn
    <3>2. f[U] = G(U)[U]
      BY <3>1
    <3>3. CASE V = T
      <4>1. f[V] = Sent(First(V), G(U)[U])
        <5>1. f[T] = IF T = {} THEN b
                     ELSE Sent(First(T), G(T \ {First(T)})[T \ {First(T)}])
          <6> HIDE DEF G
          <6> QED OBVIOUS
        <5> HIDE DEF f, G
        <5> QED BY <5>1, <3>3, <2>3
      <4> QED BY <4>1, <3>2, <2>3 DEF Body
    <3>4. CASE V # T
      <4>1. f[V] = G(V)[V]
        BY <3>4
      <4>2. G(V)[V] = Sent(First(V), G(V)[U])
        <5>1. Runs(G(V), b, V) /\ V \in SUBSET V
          BY <1>4, <3>4
        <5> HIDE DEF G, Runs
        <5>2. G(V)[V] = Body(G(V), b, V)
          BY <5>1, RunsOn
        <5> QED BY <5>2, <2>3 DEF Body
      <4>3. G(V)[U] = G(U)[U]
        <5>1. Runs(G(V), b, V) /\ Runs(G(U), b, U)
          BY <1>4, <3>1, <3>4
        <5>2. U \in SUBSET (V \cap U) /\ U \in SUBSET E /\ V \in SUBSET E
          BY <3>1
        <5> DEFINE p == G(V)
                   q == G(U)
        <5>3. Runs(p, b, V) /\ Runs(q, b, U)
          BY <5>1
        <5> HIDE DEF p, q, U
        <5>4. \A X \in SUBSET (V \cap U) : p[X] = q[X]
          <6>1. \A A, B \in SUBSET E : \A x, y : Runs(x, b, A) /\ Runs(y, b, B)
                   => \A X \in SUBSET (A \cap B) : x[X] = y[X]
            BY RunsAgree
          <6> QED BY <6>1, <5>2, <5>3
        <5>5. p[U] = q[U]
          BY <5>2, <5>4
        <5> USE DEF p, q
        <5> QED BY <5>5
      <4> QED BY <4>1, <4>2, <4>3, <3>2, <2>3 DEF Body
    <3> QED BY <3>3, <3>4
  <2> QED BY <2>1, <2>2, <2>3
<1>6. Runs(f, b, T)
  <2>1. f = [V \in SUBSET T |-> f[V]]
    <3> HIDE DEF G
    <3> QED BY Zenon
  <2> HIDE DEF f
  <2>2. [V \in SUBSET T |-> f[V]] = [V \in SUBSET T |-> Body(f, b, V)]
    BY <1>5
  <2> QED BY <2>1, <2>2 DEF Runs
<1> QED BY <1>3, <1>6

(* A dispatch is a run.                                                    *)
LEMMA FoldIsARun ==
  ASSUME NEW b, NEW E, IsFiniteSet(E)
  PROVE  \E g : Runs(g, b, E) /\ FoldSet(Sent, b, E) = g[E]
<1> DEFINE P(f) == f = [U \in SUBSET E |-> IF U = {} THEN b
                       ELSE Sent(CHOOSE k \in U : TRUE, f[U \ {CHOOSE k \in U : TRUE}])]
           g == CHOOSE f : P(f)
<1>1. FoldSet(Sent, b, E) = g[E]
  BY Zenon DEF FoldSet, MapThenFoldSet
<1>2. \E f : P(f)
  <2>1. PICK f : Runs(f, b, E)
    BY RunExists
  <2>2. P(f)
    BY <2>1, Zenon DEF Runs, Body, First
  <2> HIDE DEF P
  <2> QED BY <2>2
<1>3. P(g)
  <2> HIDE DEF P
  <2> QED BY <1>2
<1>4. Runs(g, b, E)
  <2> HIDE DEF g
  <2> QED BY <1>3, Zenon DEF Runs, Body, First
<1> QED BY <1>1, <1>4

-----------------------------------------------------------------------------
(* What the editors and the engine leave alone: everything of the menu,    *)
(* the calibration, the store and the keyboard's ownership.                *)
Kept(t, u) ==
    /\ IsState(u)
    /\ u.loaded = t.loaded /\ u.resetPending = t.resetPending /\ u.fault = t.fault
    /\ u.bounds = t.bounds /\ u.cal = t.cal /\ u.midi = t.midi
    /\ u.pending = t.pending /\ u.bright = t.bright /\ u.confirm = t.confirm
    /\ u.ready = t.ready /\ u.page = t.page

SameKeys(t, u) ==
    /\ u.armed = t.armed /\ u.down = t.down /\ u.pressed = t.pressed
    /\ u.fn = t.fn /\ u.out = t.out

LEMMA ClosedKeeps ==
  ASSUME NEW t, IsState(t)
  PROVE  Kept(t, Closed(t)) /\ SameKeys(t, Closed(t))
BY SMTT(30) DEF IsState, Fields, Closed, Kept, SameKeys

LEMMA CommitKeeps ==
  ASSUME NEW t, IsState(t)
  PROVE  Kept(t, Commit(t)) /\ SameKeys(t, Commit(t))
BY SMTT(30) DEF IsState, Fields, Commit, Kept, SameKeys

LEMMA OpenedKeeps ==
  ASSUME NEW t, IsState(t), NEW mode
  PROVE  Kept(t, Opened(t, mode)) /\ SameKeys(t, Opened(t, mode))
BY SMTT(30) DEF IsState, Fields, Opened, Kept, SameKeys

LEMMA KeepsTwice ==
  ASSUME NEW t, NEW u, NEW v, Kept(t, u), Kept(u, v)
  PROVE  Kept(t, v) /\ (SameKeys(t, u) /\ SameKeys(u, v) => SameKeys(t, v))
BY DEF Kept, SameKeys

LEMMA EditorPressKeeps ==
  ASSUME NEW t, IsState(t), NEW k, NEW layered
  PROVE  Kept(t, EditorPress(t, k, layered)) /\ SameKeys(t, EditorPress(t, k, layered))
<1>1. Kept(t, t) /\ SameKeys(t, t)
  BY DEF Kept, SameKeys
<1>2. Kept(t, [t EXCEPT !.edit = Digits[k], !.dirty = TRUE])
      /\ SameKeys(t, [t EXCEPT !.edit = Digits[k], !.dirty = TRUE])
  BY SMTT(30) DEF IsState, Fields, Kept, SameKeys
<1>3. IsState(Commit(t))
  BY CommitKeeps DEF Kept
<1>4. Kept(t, Closed(Commit(t))) /\ SameKeys(t, Closed(Commit(t)))
  BY <1>3, CommitKeeps, ClosedKeeps, KeepsTwice
<1>5. \A mode : Kept(t, Toggled(t, mode)) /\ SameKeys(t, Toggled(t, mode))
  <2> TAKE mode
  <2>1. Kept(t, Opened(Commit(t), mode)) /\ SameKeys(t, Opened(Commit(t), mode))
    BY <1>3, CommitKeeps, OpenedKeeps, KeepsTwice
  <2> QED BY <1>4, <2>1 DEF Toggled
<1>6. Kept(t, RapidSwitched(t)) /\ SameKeys(t, RapidSwitched(t))
  BY SMTT(30) DEF RapidSwitched, IsState, Fields, Kept, SameKeys
<1>7. Kept(t, Stepped(t, k)) /\ SameKeys(t, Stepped(t, k))
  BY SMTT(30) DEF Stepped, IsState, Fields, Kept, SameKeys
<1> QED BY <1>1, <1>2, <1>4, <1>5, <1>6, <1>7 DEF EditorPress

(* An event of the engine, by what it does to the keys.                    *)
LEMMA DownKeeps ==
  ASSUME NEW t, IsState(t), NEW k
  PROVE  LET u == Down(t, k)
         IN  /\ Kept(t, u)
             /\ u.armed = t.armed /\ u.down = t.down /\ u.pressed = t.pressed \cup {k}
             /\ k = "fn" => u.fn = TRUE /\ u.out = t.out
             /\ k # "fn" => /\ u.fn = t.fn
                            /\ u.out = t.out \/ u.out = t.out \cup Resolved(k, t.fn)
<1> DEFINE v == [t EXCEPT !.pressed = @ \cup {k}]
<1>1. Kept(t, v) /\ v.armed = t.armed /\ v.down = t.down /\ v.pressed = t.pressed \cup {k}
      /\ v.fn = t.fn /\ v.out = t.out
  BY SMTT(30) DEF IsState, Fields, Kept
<1>2. IsState(v)
  BY <1>1 DEF Kept
<1> HIDE DEF v
<1>3. LET u == [v EXCEPT !.fn = TRUE]
      IN  Kept(v, u) /\ u.armed = v.armed /\ u.down = v.down /\ u.pressed = v.pressed
          /\ u.fn = TRUE /\ u.out = v.out
  BY <1>2, SMTT(30) DEF IsState, Fields, Kept
<1>4. Kept(v, EditorPress(v, k, t.fn)) /\ SameKeys(v, EditorPress(v, k, t.fn))
  BY <1>2, EditorPressKeeps
<1>5. LET u == [v EXCEPT !.out = @ \cup Resolved(k, t.fn)]
      IN  Kept(v, u) /\ u.armed = v.armed /\ u.down = v.down /\ u.pressed = v.pressed
          /\ u.fn = v.fn /\ u.out = v.out \cup Resolved(k, t.fn)
  BY <1>2, SMTT(30) DEF IsState, Fields, Kept
<1>6. Down(t, k) = CASE k = "fn" -> [v EXCEPT !.fn = TRUE]
                     [] k # "fn" /\ t.mode # "normal" -> EditorPress(v, k, t.fn)
                     [] OTHER -> [v EXCEPT !.out = @ \cup Resolved(k, t.fn)]
  BY Zenon DEF Down, v
<1> QED BY <1>1, <1>3, <1>4, <1>5, <1>6, KeepsTwice DEF SameKeys

LEMMA UpKeeps ==
  ASSUME NEW t, IsState(t), NEW k
  PROVE  LET u == Up(t, k)
         IN  /\ Kept(t, u)
             /\ u.armed = t.armed /\ u.down = t.down
             /\ u.pressed = t.pressed \ {k}
             /\ u.fn = (t.fn /\ k # "fn")
             /\ u.out = {o \in t.out : o[1] # k /\ (k = "fn" => o[2] = "base")}
BY SMTT(30) DEF Up, IsState, Fields, Kept

LEMMA InvalidatedKeeps ==
  ASSUME NEW t, IsState(t)
  PROVE  Kept(t, Invalidated(t)) /\ ~Invalidated(t).armed
<1> DEFINE v == Closed(t)
<1>1. Kept(t, v) /\ IsState(v)
  BY ClosedKeeps DEF Kept
<1> HIDE DEF v
<1>2. LET u == [v EXCEPT !.armed = FALSE, !.valid = FALSE, !.down = {}, !.pressed = {},
                         !.fn = FALSE, !.out = {}]
      IN  Kept(v, u) /\ ~u.armed
  BY <1>1, SMTT(30) DEF IsState, Fields, Kept
<1> QED BY <1>1, <1>2, KeepsTwice DEF Invalidated, v

-----------------------------------------------------------------------------
(* In the midst of a dispatch, with the events of U and Fn's done: `now` is *)
(* held, E are the other keys that moved, W were held before and still are. *)
Mid(b, u, now, E, U, W) ==
    /\ Kept(b, u) /\ u.armed = b.armed /\ u.down = now
    /\ u.pressed \subseteq now \cup Controls \cup (E \ U)
    /\ u.fn => "fn" \in u.pressed
    /\ \A o \in u.out : /\ o[1] \in u.pressed
                        /\ o[2] = "fn" => u.fn /\ o[1] \notin Controls
                        /\ o[1] \notin W

LEMMA SentKeepsMid ==
  ASSUME NEW b, NEW t, NEW now, NEW E, NEW U \in SUBSET E, NEW k \in U, NEW W,
         W \cap E = {}, "fn" \notin E, Mid(b, t, now, E, U \ {k}, W)
  PROVE  Mid(b, Sent(k, t), now, E, U, W)
<1>1. IsState(t) /\ k # "fn" /\ k \notin W
  BY DEF Mid, Kept
<1>2. CASE t.mode = "normal" /\ t.fn /\ k \in Controls
  BY <1>2 DEF Mid, Sent
<1>3. CASE ~(t.mode = "normal" /\ t.fn /\ k \in Controls) /\ (k \in t.pressed) = (k \in t.down)
  BY <1>3 DEF Mid, Sent, Event
<1>4. CASE ~(t.mode = "normal" /\ t.fn /\ k \in Controls) /\ k \notin t.pressed /\ k \in t.down
  <2> DEFINE u == Down(t, k)
  <2>1. Sent(k, t) = u
    BY <1>4 DEF Sent, Event
  <2>2. /\ Kept(t, u) /\ u.armed = t.armed /\ u.down = t.down
        /\ u.pressed = t.pressed \cup {k} /\ u.fn = t.fn
        /\ u.out = t.out \/ u.out = t.out \cup Resolved(k, t.fn)
    BY <1>1, DownKeeps
  <2>3. \A o \in Resolved(k, t.fn) : o[1] = k /\ (o[2] = "fn" => t.fn /\ k \notin Controls)
    BY DEF Resolved, Shortcuts, Controls
  <2>4. Kept(b, u)
    BY <2>2, KeepsTwice DEF Mid
  <2> HIDE DEF u
  <2> QED BY <1>1, <1>4, <2>1, <2>2, <2>3, <2>4 DEF Mid
<1>5. CASE ~(t.mode = "normal" /\ t.fn /\ k \in Controls) /\ k \in t.pressed /\ k \notin t.down
  <2> DEFINE u == Up(t, k)
  <2>1. Sent(k, t) = u
    BY <1>5 DEF Sent, Event
  <2>2. /\ Kept(t, u) /\ u.armed = t.armed /\ u.down = t.down
        /\ u.pressed = t.pressed \ {k} /\ u.fn = (t.fn /\ k # "fn")
        /\ u.out = {o \in t.out : o[1] # k /\ (k = "fn" => o[2] = "base")}
    BY <1>1, UpKeeps
  <2>4. Kept(b, u)
    BY <2>2, KeepsTwice DEF Mid
  <2> HIDE DEF u
  <2> QED BY <1>1, <1>5, <2>1, <2>2, <2>4 DEF Mid
<1> QED BY <1>2, <1>3, <1>4, <1>5

(* A whole dispatch, by induction over the keys that moved.                *)
LEMMA RunKeepsMid ==
  ASSUME NEW b, NEW base, NEW now, NEW E, IsFiniteSet(E), NEW W, W \cap E = {}, "fn" \notin E,
         Mid(b, base, now, E, {}, W)
  PROVE  Mid(b, FoldSet(Sent, base, E), now, E, E, W)
<1>1. PICK g : Runs(g, base, E) /\ FoldSet(Sent, base, E) = g[E]
  BY FoldIsARun
<1> DEFINE Bad == {U \in SUBSET E : ~Mid(b, g[U], now, E, U, W)}
<1>2. SUFFICES ASSUME Bad # {} PROVE FALSE
  BY <1>1
<1>3. PICK T \in Bad : \A U \in Bad : U \subseteq T => U = T
  <2>1. Bad \in SUBSET SUBSET E
    OBVIOUS
  <2> HIDE DEF Bad
  <2> QED BY <1>2, <2>1, MinimalMember
<1>4. T \in SUBSET E /\ ~Mid(b, g[T], now, E, T, W)
  BY <1>3
<1>5. g[T] = Body(g, base, T)
  BY <1>1, <1>4, RunsOn
<1>6. CASE T = {}
  BY <1>4, <1>5, <1>6 DEF Body
<1>7. CASE T # {}
  <2> DEFINE k == First(T)
             U == T \ {k}
  <2>1. k \in T /\ U \in SUBSET E /\ U \subseteq T /\ U # T
    BY <1>4, <1>7, FirstIn
  <2>2. Mid(b, g[U], now, E, U, W)
    BY <2>1, <1>3
  <2>3. g[T] = Sent(k, g[U])
    BY <1>5, <1>7 DEF Body
  <2> HIDE DEF k
  <2> QED BY <1>4, <2>1, <2>2, <2>3, SentKeepsMid
<1> QED BY <1>6, <1>7

LEMMA DispatchedKeys ==
  ASSUME NEW b, IsState(b), NEW now, b.down = now, NEW edges, IsFiniteSet(edges),
         NEW W, W \cap edges = {},
         b.pressed \subseteq now \cup Controls \cup edges,
         b.fn => "fn" \in b.pressed,
         \A o \in b.out : /\ o[1] \in b.pressed
                          /\ o[2] = "fn" => b.fn /\ o[1] \notin Controls
                          /\ o[1] \notin W
  PROVE  LET E == edges \ {"fn"} IN Mid(b, Dispatched(b, edges), now, E, E, W)
<1> DEFINE E == edges \ {"fn"}
           base == IF "fn" \in edges THEN Event(b, "fn", "fn" \in b.down) ELSE b
<1>1. IsFiniteSet(E) /\ W \cap E = {} /\ "fn" \notin E
  BY FS_Subset
<1>2. Kept(b, b)
  BY DEF Kept
<1>3. Mid(b, base, now, E, {}, W)
  <2>1. CASE "fn" \notin edges \/ ("fn" \in b.pressed) = ("fn" \in now)
    <3>1. base = b
      BY <2>1 DEF Event
    <3> HIDE DEF base
    <3> QED BY <2>1, <3>1, <1>2 DEF Mid
  <2>2. CASE "fn" \in edges /\ "fn" \notin b.pressed /\ "fn" \in now
    <3> DEFINE u == Down(b, "fn")
    <3>1. base = u
      BY <2>2 DEF Event
    <3>2. Kept(b, u) /\ u.armed = b.armed /\ u.down = b.down
          /\ u.pressed = b.pressed \cup {"fn"} /\ u.fn = TRUE /\ u.out = b.out
      BY DownKeeps
    <3> HIDE DEF u, base
    <3> QED BY <2>2, <3>1, <3>2 DEF Mid
  <2>3. CASE "fn" \in edges /\ "fn" \in b.pressed /\ "fn" \notin now
    <3> DEFINE u == Up(b, "fn")
    <3>1. base = u
      BY <2>3 DEF Event
    <3>2. Kept(b, u) /\ u.armed = b.armed /\ u.down = b.down
          /\ u.pressed = b.pressed \ {"fn"} /\ ~u.fn
          /\ \A o \in u.out : o \in b.out /\ o[1] # "fn" /\ o[2] = "base"
      <4>1. PICK k : k = "fn"
        OBVIOUS
      <4>2. /\ Kept(b, Up(b, k)) /\ Up(b, k).armed = b.armed /\ Up(b, k).down = b.down
            /\ Up(b, k).pressed = b.pressed \ {k} /\ Up(b, k).fn = (b.fn /\ k # "fn")
            /\ Up(b, k).out = {o \in b.out : o[1] # k /\ (k = "fn" => o[2] = "base")}
        BY UpKeeps
      <4> QED BY <4>1, <4>2
    <3> HIDE DEF u, base
    <3> QED BY <2>3, <3>1, <3>2 DEF Mid
  <2> QED BY <2>1, <2>2, <2>3
<1>4. Dispatched(b, edges) = FoldSet(Sent, base, E)
  BY DEF Dispatched
<1> HIDE DEF base, E
<1>5. Mid(b, FoldSet(Sent, base, E), now, E, E, W)
  BY <1>1, <1>3, RunKeepsMid
<1> QED BY <1>4, <1>5 DEF E

(* What a frame makes of the keys when the engine looks at it.             *)
LEMMA ScannedKeys ==
  ASSUME NEW t, IsState(t), NEW now, IsFiniteSet(now), NEW old, IsFiniteSet(old),
         NEW owned, owned \subseteq old, t.armed => KeysOK(t, old, owned), NEW ok \in BOOLEAN
  PROVE  LET u == Scanned(t, now, ok, t.midi)
         IN  Kept(t, u) /\ (u.armed => KeysOK(u, now, now \cap owned))
<1> DEFINE fresh == [t EXCEPT !.armed = TRUE, !.valid = TRUE, !.down = {}, !.pressed = {},
                              !.fn = FALSE, !.out = {}]
           shown == [t EXCEPT !.valid = TRUE]
           v == IF Arms(t, now) THEN fresh ELSE shown
           edges == (now \ v.down) \cup (v.down \ now)
           moved == [v EXCEPT !.down = now]
<1>1. Scanned(t, now, ok, t.midi) =
         CASE ~ok -> Invalidated(t)
           [] ok /\ ~v.armed -> v
           [] ok /\ v.armed -> IF t.midi THEN moved ELSE Dispatched(moved, edges)
  BY Zenon DEF Scanned
<1>2. /\ Kept(t, fresh) /\ fresh.armed /\ fresh.down = {} /\ fresh.pressed = {}
      /\ fresh.fn = FALSE /\ fresh.out = {}
      /\ Kept(t, shown) /\ SameKeys(t, shown)
  BY SMTT(30) DEF IsState, Fields, Kept, SameKeys
<1> HIDE DEF fresh, shown
<1>3. /\ Kept(t, v)
      /\ v.armed => IF Arms(t, now) THEN KeysOK(v, {}, {}) /\ now = {} ELSE KeysOK(v, old, owned)
  BY <1>2 DEF Arms, SameKeys, KeysOK, Kept
<1>4. v.armed => /\ IsFiniteSet(edges)
                 /\ now \cap owned \cap edges = {}
                 /\ \A o \in v.out : o[1] \notin now \cap owned
                 /\ ~t.midi => /\ v.pressed \subseteq now \cup Controls \cup edges
                               /\ v.fn => "fn" \in v.pressed
                               /\ \A o \in v.out : /\ o[1] \in v.pressed
                                                   /\ o[2] = "fn" => v.fn /\ o[1] \notin Controls
  <2> SUFFICES ASSUME v.armed
               PROVE  /\ IsFiniteSet(edges)
                      /\ now \cap owned \cap edges = {}
                      /\ \A o \in v.out : o[1] \notin now \cap owned
                      /\ ~t.midi => /\ v.pressed \subseteq now \cup Controls \cup edges
                                    /\ v.fn => "fn" \in v.pressed
                                    /\ \A o \in v.out :
                                         /\ o[1] \in v.pressed
                                         /\ o[2] = "fn" => v.fn /\ o[1] \notin Controls
    OBVIOUS
  <2> HIDE DEF v
  <2>1. CASE KeysOK(v, {}, {}) /\ now = {}
    <3>1. edges = {} /\ IsFiniteSet(edges)
      BY <2>1, FS_EmptySet DEF KeysOK
    <3> QED BY <2>1, <3>1, <1>3 DEF KeysOK, Kept
  <2>2. CASE KeysOK(v, old, owned)
    <3>1. edges = (now \ old) \cup (old \ now)
      BY <2>2 DEF KeysOK
    <3>2. IsFiniteSet(now \ old) /\ IsFiniteSet(old \ now)
      BY FS_Subset
    <3>3. IsFiniteSet(edges)
      BY <3>1, <3>2, FS_Union
    <3> HIDE DEF edges
    <3> QED BY <2>2, <3>1, <3>3, <1>3 DEF KeysOK, Kept
  <2> QED BY <1>3, <2>1, <2>2
<1> HIDE DEF v
<1>5. /\ Kept(v, moved) /\ moved.armed = v.armed /\ moved.down = now
      /\ moved.pressed = v.pressed /\ moved.fn = v.fn /\ moved.out = v.out
  BY <1>3, SMTT(30) DEF IsState, Fields, Kept
<1>6. Kept(t, moved)
  BY <1>3, <1>5, KeepsTwice
<1> HIDE DEF moved, edges
<1>7. CASE ~ok
  BY <1>1, <1>7, InvalidatedKeeps
<1>8. CASE ok /\ ~v.armed
  BY <1>1, <1>3, <1>8
<1>9. CASE ok /\ v.armed /\ t.midi
  BY <1>1, <1>4, <1>5, <1>6, <1>9 DEF KeysOK, Kept
<1>10. CASE ok /\ v.armed /\ ~t.midi
  <2> DEFINE u == Dispatched(moved, edges)
             E == edges \ {"fn"}
  <2>1. Mid(moved, u, now, E, E, now \cap owned)
    <3>1. /\ IsState(moved) /\ moved.down = now /\ IsFiniteSet(edges)
          /\ (now \cap owned) \cap edges = {}
          /\ moved.pressed \subseteq now \cup Controls \cup edges
          /\ moved.fn => "fn" \in moved.pressed
          /\ \A o \in moved.out : /\ o[1] \in moved.pressed
                                  /\ o[2] = "fn" => moved.fn /\ o[1] \notin Controls
                                  /\ o[1] \notin now \cap owned
      BY <1>4, <1>5, <1>10 DEF Kept
    <3> QED BY <3>1, DispatchedKeys
  <2>2. Scanned(t, now, ok, t.midi) = u
    BY <1>1, <1>10
  <2> HIDE DEF u, E
  <2>3. Kept(t, u)
    BY <2>1, <1>6, KeepsTwice DEF Mid
  <2>4. E \ E = {}
    OBVIOUS
  <2> QED BY <2>1, <2>2, <2>3, <2>4 DEF Mid, KeysOK
<1> QED BY <1>7, <1>8, <1>9, <1>10

LEMMA ObservedKeys ==
  ASSUME NEW t, IsState(t), NEW ok \in BOOLEAN
  PROVE  Kept(t, Observed(t, ok)) /\ ~Observed(t, ok).armed
<1> DEFINE v == IF t.armed THEN Invalidated(t) ELSE t
           shown == [v EXCEPT !.valid = TRUE]
<1>1. Kept(t, v) /\ IsState(v) /\ ~v.armed
  BY InvalidatedKeeps DEF Kept
<1>2. Observed(t, ok) = IF ok THEN shown ELSE Invalidated(v)
  BY DEF Observed
<1> HIDE DEF v
<1>3. Kept(v, shown) /\ shown.armed = v.armed
  BY <1>1, SMTT(30) DEF IsState, Fields, Kept
<1>4. Kept(v, Invalidated(v)) /\ ~Invalidated(v).armed
  BY <1>1, InvalidatedKeeps
<1> HIDE DEF shown
<1> QED BY <1>1, <1>2, <1>3, <1>4, KeepsTwice

(* The samples of a frame, by whoever owns the input.                      *)
LEMMA LookedKeys ==
  ASSUME NEW t, IsState(t), NEW now, IsFiniteSet(now), NEW old, IsFiniteSet(old),
         NEW owned, owned \subseteq old, t.armed => KeysOK(t, old, owned), NEW ok \in BOOLEAN
  PROVE  LET u == Looked(t, now, ok)
         IN  /\ Kept(t, u)
             /\ Observing(t) => ~u.armed
             /\ u.armed => KeysOK(u, now, now \cap owned)
<1> DEFINE v == [t EXCEPT !.revised = FALSE]
           w == IF Observing(t) THEN Observed(v, ok) ELSE Scanned(v, now, ok, t.midi)
           u == [w EXCEPT !.frameValid = ok]
<1>1. Kept(t, v) /\ SameKeys(t, v)
  BY SMTT(30) DEF IsState, Fields, Kept, SameKeys
<1>2. IsState(v) /\ v.midi = t.midi /\ (v.armed => KeysOK(v, old, owned))
  BY <1>1 DEF Kept, SameKeys, KeysOK
<1>3. Looked(t, now, ok) = u
  BY Zenon DEF Looked
<1> HIDE DEF v
<1>4. Kept(v, w) /\ (Observing(t) => ~w.armed) /\ (w.armed => KeysOK(w, now, now \cap owned))
  <2>1. Kept(v, Observed(v, ok)) /\ ~Observed(v, ok).armed
    BY <1>2, ObservedKeys
  <2>2. /\ Kept(v, Scanned(v, now, ok, v.midi))
        /\ Scanned(v, now, ok, v.midi).armed
              => KeysOK(Scanned(v, now, ok, v.midi), now, now \cap owned)
    BY <1>2, ScannedKeys
  <2> QED BY <1>2, <2>1, <2>2
<1> HIDE DEF w
<1>5. Kept(w, u) /\ SameKeys(w, u)
  BY <1>4, SMTT(30) DEF IsState, Fields, Kept, SameKeys
<1> HIDE DEF u
<1> QED BY <1>1, <1>3, <1>4, <1>5, KeepsTwice DEF Kept, SameKeys, KeysOK

-----------------------------------------------------------------------------
(* What every later stage of a frame, and everything outside of a frame,   *)
(* may do to the keys and the menu: disarm, and close.                     *)
Calms(t, u) ==
    /\ IsState(u)
    /\ u.armed => SameKeys(t, u) /\ u.midi = t.midi
    /\ u.armed /\ Observing(u) => Observing(t)
    /\ u.page \in {t.page, "none"}
    /\ u.confirm /\ u.ready => t.confirm /\ t.ready

LEMMA CalmsTwice ==
  ASSUME NEW t, NEW u, NEW v, Calms(t, u), Calms(u, v)
  PROVE  Calms(t, v)
BY DEF Calms, SameKeys

LEMMA KeptCalms ==
  ASSUME NEW t, NEW u, Kept(t, u), ~u.armed \/ SameKeys(t, u)
  PROVE  Calms(t, u)
BY DEF Kept, Calms, Observing, Active, MenuObserving

SameStore(t, u) ==
    /\ u.loaded = t.loaded /\ u.resetPending = t.resetPending
    /\ u.fault = t.fault /\ u.bounds = t.bounds

(* What the menu may do in a frame with the keys `now`: open a page, ask a *)
(* new question, and be ready for an answer once nothing is held.          *)
Shows(t, u, now) ==
    /\ IsState(u) /\ SameStore(t, u) /\ u.cal = t.cal /\ u.midi = t.midi
    /\ u.armed => SameKeys(t, u)
    /\ u.armed /\ Observing(u) => Observing(t)
    /\ u.page \in {t.page} \cup Pages
    /\ u.confirm /\ u.ready => t.confirm /\ (t.ready \/ now = {})

MenuStep(t, m, now) ==
    /\ Shows(t, m.state, now)
    /\ m.action = "reset" => t.confirm /\ t.ready /\ "y" \in now /\ "n" \notin now

LEMMA KeptShows ==
  ASSUME NEW t, NEW u, NEW now, Kept(t, u), ~u.armed \/ SameKeys(t, u)
  PROVE  Shows(t, u, now)
BY DEF Kept, Shows, SameStore, Observing, Active, MenuObserving

LEMMA CancelledShows ==
  ASSUME NEW t, IsState(t)
  PROVE  LET u == MenuCancelled(t)
         IN  /\ IsState(u) /\ SameStore(t, u) /\ u.cal = t.cal /\ u.midi = t.midi
             /\ SameKeys(t, u) /\ ~MenuObserving(u) /\ u.page = "none" /\ ~u.confirm /\ ~u.ready
             /\ Calms(t, u) /\ \A now : Shows(t, u, now)
<1>1. LET u == MenuCancelled(t)
      IN  /\ IsState(u) /\ SameStore(t, u) /\ u.cal = t.cal /\ u.midi = t.midi
          /\ SameKeys(t, u) /\ ~MenuObserving(u) /\ u.page = "none" /\ ~u.confirm /\ ~u.ready
  BY SMTT(30) DEF MenuCancelled, IsState, Fields, SameStore, SameKeys, MenuObserving
<1> QED BY <1>1 DEF Calms, Shows, Observing, Active, Pages

LEMMA InvalidatedCalms ==
  ASSUME NEW t, IsState(t)
  PROVE  Calms(t, Invalidated(t)) /\ \A now : Shows(t, Invalidated(t), now)
BY InvalidatedKeeps, KeptCalms, KeptShows

(* The menu, after its own state was looked at, goes on from another one.  *)
LEMMA ShowsTwice ==
  ASSUME NEW t, NEW u, NEW v, NEW now, Shows(u, v, now),
         Kept(t, u), ~u.armed \/ SameKeys(t, u)
  PROVE  Shows(t, v, now)
BY DEF Shows, Kept, SameStore, SameKeys, Observing, Active, MenuObserving

LEMMA ShownCalms ==
  ASSUME NEW t, NEW u, NEW v, NEW now, Shows(t, u, now), Calms(u, v)
  PROVE  /\ v.confirm /\ v.ready => t.confirm /\ (t.ready \/ now = {})
         /\ v.page \in {t.page} \cup Pages
         /\ v.armed => SameKeys(t, v) /\ v.midi = t.midi
         /\ v.armed /\ Observing(v) => Observing(t)
BY DEF Shows, Calms, SameKeys, Pages

LEMMA CancelledAfter ==
  ASSUME NEW t, NEW u, NEW now, Shows(t, u, now)
  PROVE  Shows(t, MenuCancelled(u), now)
<1> DEFINE c == MenuCancelled(u)
<1>1. /\ IsState(c) /\ SameStore(u, c) /\ c.cal = u.cal /\ c.midi = u.midi
      /\ SameKeys(u, c) /\ ~MenuObserving(c) /\ c.page = "none" /\ ~c.confirm
  BY CancelledShows DEF Shows
<1> HIDE DEF c
<1>2. Shows(t, c, now)
  BY <1>1 DEF Shows, SameStore, SameKeys, Pages, Observing, Active
<1> QED BY <1>2 DEF c

LEMMA InvalidatedAfter ==
  ASSUME NEW t, NEW u, NEW now, Shows(t, u, now)
  PROVE  Shows(t, Invalidated(u), now)
<1> DEFINE c == Invalidated(u)
<1>1. Kept(u, c) /\ ~c.armed
  BY InvalidatedKeeps DEF Shows
<1> HIDE DEF c
<1>2. Shows(t, c, now)
  BY <1>1 DEF Shows, Kept, SameStore
<1> QED BY <1>2 DEF c

LEMMA GivenStep ==
  ASSUME NEW t, IsState(t), NEW now
  PROVE  MenuStep(t, Given(t), now)
<1>1. Shows(t, Invalidated(MenuCancelled(t)), now)
  BY CancelledShows, InvalidatedAfter
<1>2. Given(t).state = Invalidated(MenuCancelled(t)) /\ Given(t).action = "none"
  BY DEF Given, Nothing, Does
<1> QED BY <1>1, <1>2 DEF MenuStep

(* A page and the confirmation, once shown.                                *)
LEMMA SuppressedKeeps ==
  ASSUME NEW t, IsState(t)
  PROVE  Kept(t, Suppressed(t)) /\ ~Suppressed(t).armed
<1>1. Kept(t, [t EXCEPT !.valid = FALSE]) /\ [t EXCEPT !.valid = FALSE].armed = t.armed
  BY SMTT(30) DEF IsState, Fields, Kept
<1> QED BY <1>1, InvalidatedKeeps DEF Suppressed

LEMMA ReadyShows ==
  ASSUME NEW t, IsState(t), NEW now
  PROVE  LET u == Suppressed([t EXCEPT !.ready = @ \/ now = {}])
         IN  /\ Shows(t, u, now) /\ ~u.armed
<1> DEFINE v == [t EXCEPT !.ready = @ \/ now = {}]
<1>1. /\ IsState(v) /\ SameStore(t, v) /\ v.cal = t.cal /\ v.midi = t.midi
      /\ v.page = t.page /\ v.confirm = t.confirm /\ v.ready = (t.ready \/ now = {})
  BY SMTT(30) DEF IsState, Fields, SameStore
<1> HIDE DEF v
<1>2. Kept(v, Suppressed(v)) /\ ~Suppressed(v).armed
  BY <1>1, SuppressedKeeps
<1>3. Shows(t, Suppressed(v), now)
  BY <1>1, <1>2 DEF Shows, Kept, SameStore
<1> QED BY <1>2, <1>3 DEF v

LEMMA PageStep ==
  ASSUME NEW t, IsState(t), t.page \in Pages, NEW now, NEW midi
  PROVE  MenuStep(t, PageFrame(t, now, midi), now)
<1> DEFINE shown == Suppressed([t EXCEPT !.ready = @ \/ now = {}])
           Picked(d) == [shown EXCEPT !.choice = d]
           digits == now \cap DOMAIN Digits
           again == [shown EXCEPT !.ready = FALSE]
           chosen == Picked(CHOOSE d \in digits \cup {"none"} : digits # {} => d # "none")
<1>1. Shows(t, shown, now) /\ ~shown.armed /\ IsState(shown)
  BY ReadyShows DEF Shows
<1>2. \A d : Shows(t, Picked(d), now)
  <2> TAKE d
  <2> HIDE DEF shown
  <2>1. Kept(shown, Picked(d)) /\ Picked(d).armed = shown.armed
    BY <1>1, SMTT(30) DEF IsState, Fields, Kept
  <2> HIDE DEF Picked
  <2> QED BY <1>1, <2>1 DEF Shows, Kept, SameStore
<1>3. Shows(t, again, now)
  <2> HIDE DEF shown
  <2>1. /\ IsState(again) /\ SameStore(shown, again) /\ again.cal = shown.cal
        /\ again.midi = shown.midi /\ ~again.armed /\ ~again.ready /\ again.page = shown.page
    BY <1>1, SMTT(30) DEF IsState, Fields, SameStore
  <2> HIDE DEF again
  <2> QED BY <1>1, <2>1 DEF Shows, SameStore
<1>4. Shows(t, MenuCancelled(shown), now)
  BY <1>1, CancelledAfter
<1>5. MenuStep(t, Given(t), now)
  BY GivenStep
<1>6. PageFrame(t, now, midi) \in
         {Given(t), Nothing(shown), Nothing(MenuCancelled(shown)),
          Does(MenuCancelled(shown), "select"), Nothing(again), Nothing(chosen),
          Does(shown, t.page)}
  <2> HIDE DEF shown
  <2> QED BY Zenon DEF PageFrame, shown, again, chosen, digits, Picked
<1> HIDE DEF shown, again
<1>7. Shows(t, chosen, now)
  BY <1>2
<1> HIDE DEF chosen
<1>8. \A u, action : Does(u, action).state = u /\ Does(u, action).action = action
                     /\ Nothing(u).state = u /\ Nothing(u).action = "none"
  BY DEF Does, Nothing
<1> QED BY <1>1, <1>3, <1>4, <1>5, <1>6, <1>7, <1>8 DEF MenuStep, Pages

LEMMA ConfirmStep ==
  ASSUME NEW t, IsState(t), t.confirm, NEW now
  PROVE  MenuStep(t, ConfirmFrame(t, now), now)
<1> DEFINE shown == Suppressed([t EXCEPT !.ready = @ \/ now = {}])
           answer == IF "n" \in now THEN "none" ELSE "reset"
<1>1. Shows(t, shown, now)
  BY ReadyShows
<1>2. Shows(t, MenuCancelled(shown), now)
  BY <1>1, CancelledAfter
<1>3. MenuStep(t, Given(t), now)
  BY GivenStep
<1>4. ConfirmFrame(t, now) = CASE t.moved -> Given(t)
                               [] ~t.moved /\ Confirmed(t, now) -> Does(MenuCancelled(shown), answer)
                               [] OTHER -> Nothing(shown)
  <2> HIDE DEF shown
  <2> QED BY Zenon DEF ConfirmFrame, shown, answer
<1> HIDE DEF shown
<1>5. Confirmed(t, now) /\ answer = "reset" => t.ready /\ "y" \in now /\ "n" \notin now
  BY DEF Confirmed
<1> HIDE DEF answer
<1> QED BY <1>1, <1>2, <1>3, <1>4, <1>5 DEF MenuStep, Does, Nothing

LEMMA ChordStep ==
  ASSUME NEW t, IsState(t), NEW now, NEW midi
  PROVE  MenuStep(t, ChordFrame(t, now, midi), now)
<1> DEFINE action == t.pending
           quiet == Invalidated(MenuCancelled(t))
           calm == [quiet EXCEPT !.bright = "fn" \in now /\ action = "light"]
           asked == [calm EXCEPT !.confirm = TRUE]
           paged == [calm EXCEPT !.page = PageOf[action]]
<1>1. /\ Shows(t, quiet, now) /\ IsState(quiet) /\ ~quiet.armed
      /\ ~quiet.ready /\ ~quiet.confirm /\ quiet.page = "none"
  <2> DEFINE c == MenuCancelled(t)
  <2>1. Shows(t, c, now) /\ IsState(c) /\ ~c.confirm /\ ~c.ready /\ c.page = "none"
    BY CancelledShows
  <2> HIDE DEF c
  <2>2. Kept(c, Invalidated(c)) /\ ~Invalidated(c).armed /\ Shows(t, Invalidated(c), now)
    BY <2>1, InvalidatedKeeps, InvalidatedAfter
  <2> QED BY <2>1, <2>2 DEF Kept, c
<1> HIDE DEF quiet
<1>2. /\ IsState(calm) /\ SameStore(quiet, calm) /\ calm.cal = quiet.cal /\ calm.midi = quiet.midi
      /\ ~calm.armed /\ ~calm.ready /\ ~calm.confirm /\ calm.page = "none"
  BY <1>1, SMTT(30) DEF IsState, Fields, SameStore
<1> HIDE DEF calm
<1>3. /\ IsState(asked) /\ SameStore(calm, asked) /\ asked.cal = calm.cal
      /\ asked.midi = calm.midi /\ ~asked.armed /\ ~asked.ready /\ asked.page = "none"
  BY <1>2, SMTT(30) DEF IsState, Fields, SameStore
<1>4. /\ IsState(paged) /\ SameStore(calm, paged) /\ paged.cal = calm.cal
      /\ paged.midi = calm.midi /\ ~paged.armed /\ ~paged.ready /\ paged.page = PageOf[action]
  BY <1>2, SMTT(30) DEF IsState, Fields, SameStore
<1>5. \A mode : Shows(t, Opened(calm, mode), now)
  <2> TAKE mode
  <2>1. Kept(calm, Opened(calm, mode)) /\ SameKeys(calm, Opened(calm, mode))
    BY <1>2, OpenedKeeps
  <2> QED BY <1>1, <1>2, <2>1 DEF Shows, SameStore, SameKeys, Kept, Pages
<1> HIDE DEF asked, paged
<1>6. Shows(t, calm, now) /\ Shows(t, asked, now)
  BY <1>1, <1>2, <1>3 DEF Shows, SameStore, Pages
<1>7. action \in DOMAIN PageOf => Shows(t, paged, now)
  <2>1. action \in DOMAIN PageOf => PageOf[action] \in Pages
    BY DEF PageOf, Pages
  <2> QED BY <1>1, <1>2, <1>4, <2>1 DEF Shows, SameStore, Pages
<1>8. ChordDone(t, now, midi) =
        CASE action = "reset" -> Nothing(asked)
          [] action \in DOMAIN PageOf /\ midi -> Nothing(paged)
          [] action = "trigger" /\ ~midi -> Does(Opened(calm, "actuation"), action)
          [] action = "rapid" -> Does(Opened(calm, "rapid"), action)
          [] OTHER -> Does(calm, action)
  BY Zenon DEF ChordDone, calm, asked, paged, quiet
<1>9. MenuStep(t, ChordDone(t, now, midi), now)
  BY <1>5, <1>6, <1>7, <1>8 DEF MenuStep, Does, Nothing
<1>10. Shows(t, t, now)
  BY DEF Shows, SameStore, SameKeys
<1>11. MenuStep(t, Nothing(t), now) /\ MenuStep(t, Nothing(MenuCancelled(t)), now)
  BY <1>10, CancelledShows DEF MenuStep, Nothing, Does
<1> QED BY <1>9, <1>11 DEF ChordFrame

LEMMA ChordBeginsStep ==
  ASSUME NEW t, IsState(t), NEW now, NEW edges
  PROVE  MenuStep(t, ChordBegins(t, now, edges), now)
<1> DEFINE open == [t EXCEPT !.bright = @ /\ "fn" \in now]
           key == CHOOSE k \in edges : TRUE
           chord == [open EXCEPT !.pending = OptionOf[key], !.chosenKey = key, !.moved = FALSE]
<1>1. /\ IsState(open) /\ SameStore(t, open) /\ open.cal = t.cal /\ open.midi = t.midi
      /\ SameKeys(t, open) /\ open.pending = t.pending /\ open.confirm = t.confirm
      /\ open.ready = t.ready /\ open.page = t.page /\ (open.bright => t.bright)
  <2> DEFINE bright == t.bright /\ "fn" \in now
             v == [t EXCEPT !.bright = bright]
  <2>1. "bright" \in DOMAIN t
    BY DEF IsState, Fields
  <2>2. v.bright = bright
    BY <2>1, Zenon
  <2> HIDE DEF bright
  <2>3. /\ IsState(v) /\ SameStore(t, v) /\ v.cal = t.cal /\ v.midi = t.midi
        /\ SameKeys(t, v) /\ v.pending = t.pending /\ v.confirm = t.confirm
        /\ v.ready = t.ready /\ v.page = t.page
    BY SMTT(30) DEF IsState, Fields, SameStore, SameKeys
  <2> QED BY <2>2, <2>3, Zenon DEF bright
<1> HIDE DEF open
<1>2. Shows(t, open, now)
  BY <1>1 DEF Shows, Observing, Active, MenuObserving
<1>3. /\ IsState(chord) /\ SameStore(open, chord) /\ chord.cal = open.cal /\ chord.midi = open.midi
      /\ chord.confirm = open.confirm /\ chord.ready = open.ready /\ chord.page = open.page
  BY <1>1, SMTT(30) DEF IsState, Fields, SameStore
<1> HIDE DEF chord
<1>4. Kept(chord, Invalidated(chord)) /\ ~Invalidated(chord).armed
  BY <1>3, InvalidatedKeeps
<1>5. Shows(t, Invalidated(chord), now)
  BY <1>1, <1>3, <1>4 DEF Shows, Kept, SameStore
<1>6. ChordBegins(t, now, edges) \in {Nothing(Invalidated(chord)), Nothing(open)}
  BY Zenon DEF ChordBegins, open, chord
<1> QED BY <1>2, <1>5, <1>6 DEF MenuStep, Nothing, Does

(* A whole frame of the menu.                                              *)
LEMMA MenuFrameStep ==
  ASSUME NEW t, IsState(t), t.page \in Pages, NEW now, NEW before, NEW calibrating, NEW midi
  PROVE  MenuStep(t, MenuFrame(t, now, before, calibrating, midi), now)
<1> DEFINE s1 == IF before.mode = "actuation" /\ before.dirty /\ t.revised THEN Thresholds(t) ELSE t
           offered == Offered(now, midi)
           edges == offered \ s1.previous
           u == [s1 EXCEPT !.previous = offered]
           m == MenuFrame(t, now, before, calibrating, midi)
<1>1. Kept(t, s1) /\ (~s1.armed \/ SameKeys(t, s1))
  <2> DEFINE v == Invalidated(t)
  <2>1. Kept(t, v) /\ ~v.armed /\ IsState(v)
    BY InvalidatedKeeps DEF Kept
  <2> HIDE DEF v
  <2>2. LET w == [v EXCEPT !.mode = t.mode, !.edit = t.edit, !.dirty = t.dirty,
                           !.moved = MenuObserving(t)]
        IN  Kept(v, w) /\ w.armed = v.armed
    <3> HIDE DEF MenuObserving
    <3> QED BY <2>1, SMTT(30) DEF IsState, Fields, Kept
  <2>3. Kept(t, Thresholds(t)) /\ ~Thresholds(t).armed
    BY <2>1, <2>2, KeepsTwice DEF Thresholds, v
  <2> QED BY <2>3 DEF Kept, SameKeys
<1> HIDE DEF s1
<1>2. Kept(s1, u) /\ SameKeys(s1, u)
  BY <1>1, SMTT(30) DEF IsState, Fields, Kept, SameKeys
<1>3. m = CASE ~u.valid \/ ~u.enabled \/ calibrating \/ u.mode # "normal" -> Nothing(MenuCancelled(u))
            [] OTHER ->
                 CASE u.page # "none" -> PageFrame(u, now, midi)
                   [] u.confirm -> ConfirmFrame(u, now)
                   [] u.bright /\ u.moved -> Nothing(MenuCancelled(u))
                   [] u.pending # "none" -> ChordFrame(u, now, midi)
                   [] OTHER -> ChordBegins(u, now, edges)
  BY Zenon DEF MenuFrame, s1
<1> HIDE DEF u, m, edges
<1>4. Kept(t, u) /\ (~u.armed \/ SameKeys(t, u)) /\ IsState(u) /\ u.page \in Pages
  BY <1>1, <1>2, KeepsTwice DEF Kept, SameKeys
<1>5. MenuStep(u, Nothing(MenuCancelled(u)), now)
  BY <1>4, CancelledShows DEF MenuStep, Nothing, Does
<1>6. /\ MenuStep(u, PageFrame(u, now, midi), now)
      /\ u.confirm => MenuStep(u, ConfirmFrame(u, now), now)
      /\ MenuStep(u, ChordFrame(u, now, midi), now)
      /\ MenuStep(u, ChordBegins(u, now, edges), now)
  BY <1>4, PageStep, ConfirmStep, ChordStep, ChordBeginsStep
<1>7. MenuStep(u, m, now)
  BY <1>3, <1>5, <1>6, Zenon
<1>8. Shows(t, m.state, now)
  BY <1>4, <1>7, ShowsTwice DEF MenuStep
<1>9. u.confirm = t.confirm /\ u.ready = t.ready
  BY <1>4 DEF Kept
<1> QED BY <1>7, <1>8, <1>9 DEF MenuStep, m

-----------------------------------------------------------------------------
(* The other parts of a frame, of the service, and between them.           *)
Settles(t, u) == Calms(t, u) /\ SameStore(t, u)

LEMMA SettlesTwice ==
  ASSUME NEW t, NEW u, NEW v, Settles(t, u), Settles(u, v)
  PROVE  Settles(t, v)
BY CalmsTwice DEF Settles, SameStore

LEMMA SettlesSelf ==
  ASSUME NEW t, IsState(t)
  PROVE  Settles(t, t)
BY DEF Settles, Calms, SameStore, SameKeys

LEMMA InvalidatedSettles ==
  ASSUME NEW t, IsState(t)
  PROVE  Settles(t, Invalidated(t)) /\ ~Invalidated(t).armed
BY InvalidatedKeeps, InvalidatedCalms DEF Settles, SameStore, Kept

LEMMA AbortedSettles ==
  ASSUME NEW t, IsState(t)
  PROVE  Settles(t, Aborted(t)) /\ ~Active(Aborted(t)) /\ Aborted(t).frameValid = t.frameValid
<1> DEFINE cal == IF Active(t) THEN "idle" ELSE t.cal
           u == [t EXCEPT !.cal = cal, !.done = {}, !.holds = {}]
<1>1. Aborted(t) = u
  BY DEF Aborted
<1>2. cal \notin {"release", "settle", "collect", "save"}
  BY DEF Active
<1> HIDE DEF cal
<1>3. /\ IsState(u) /\ SameStore(t, u) /\ SameKeys(t, u) /\ u.midi = t.midi
      /\ u.frameValid = t.frameValid /\ u.cal = cal /\ u.confirm = t.confirm /\ u.ready = t.ready
      /\ u.page = t.page /\ u.pending = t.pending /\ u.bright = t.bright
  BY SMTT(30) DEF IsState, Fields, SameStore, SameKeys
<1> HIDE DEF u
<1>4. ~Active(u)
  BY <1>2, <1>3 DEF Active
<1> QED BY <1>1, <1>3, <1>4 DEF Settles, Calms, Observing, MenuObserving

LEMMA CancelledSettles ==
  ASSUME NEW t, IsState(t)
  PROVE  Settles(t, MenuCancelled(t)) /\ (~t.armed => ~MenuCancelled(t).armed)
BY CancelledShows DEF Settles, SameKeys

LEMMA InvalidSettles ==
  ASSUME NEW t, IsState(t)
  PROVE  LET u == [t EXCEPT !.frameValid = FALSE]
         IN  Settles(t, u) /\ u.armed = t.armed /\ u.frameValid = FALSE
<1> DEFINE u == [t EXCEPT !.frameValid = FALSE]
<1>1. Kept(t, u) /\ SameKeys(t, u) /\ u.frameValid = FALSE
  BY SMTT(30) DEF IsState, Fields, Kept, SameKeys
<1> HIDE DEF u
<1>2. Settles(t, u)
  BY <1>1, KeptCalms DEF Settles, Kept, SameStore
<1> QED BY <1>1, <1>2 DEF u, SameKeys

LEMMA AppInvalidatedSettles ==
  ASSUME NEW t, IsState(t)
  PROVE  Settles(t, AppInvalidated(t)) /\ ~AppInvalidated(t).armed
<1> DEFINE a == Invalidated(t)
           b == MenuCancelled(a)
           c == Aborted(b)
           d == [c EXCEPT !.frameValid = FALSE]
<1>1. Settles(t, a) /\ ~a.armed /\ IsState(a)
  BY InvalidatedSettles DEF Settles, Calms
<1>2. Settles(a, b) /\ ~b.armed /\ IsState(b)
  <2> HIDE DEF a
  <2> QED BY <1>1, CancelledSettles DEF Settles, Calms
<1>3. Settles(b, c) /\ ~c.armed /\ IsState(c)
  <2> HIDE DEF b
  <2> QED BY <1>2, AbortedSettles DEF Settles, Calms, SameKeys
<1>4. Settles(c, d) /\ ~d.armed
  <2> HIDE DEF c
  <2> QED BY <1>3, InvalidSettles
<1>5. AppInvalidated(t) = d
  BY DEF AppInvalidated
<1> HIDE DEF a, b, c, d
<1> QED BY <1>1, <1>2, <1>3, <1>4, <1>5, SettlesTwice

LEMMA CalibratingSettles ==
  ASSUME NEW t, IsState(t)
  PROVE  Settles(t, Calibrating(t)) /\ ~Calibrating(t).armed
<1> DEFINE a == Invalidated(t)
           b == [a EXCEPT !.cal = "release", !.done = {}, !.holds = {}]
<1>1. Settles(t, a) /\ ~a.armed /\ IsState(a)
  BY InvalidatedSettles DEF Settles, Calms
<1> HIDE DEF a
<1>2. /\ IsState(b) /\ SameStore(a, b) /\ ~b.armed /\ b.page = a.page
      /\ b.confirm = a.confirm /\ b.ready = a.ready
  BY <1>1, SMTT(30) DEF IsState, Fields, SameStore
<1> HIDE DEF b
<1>3. Settles(a, b)
  BY <1>2 DEF Settles, Calms
<1>4. Calibrating(t) = b
  BY DEF Calibrating, a, b
<1> QED BY <1>1, <1>2, <1>3, <1>4, SettlesTwice

(* Only the store's own fields change.                                     *)
LEMMA StoreCalms ==
  ASSUME NEW t, IsState(t), NEW u, IsState(u), SameKeys(t, u), u.midi = t.midi, u.cal = t.cal,
         u.confirm = t.confirm, u.ready = t.ready, u.page = t.page,
         u.pending = t.pending, u.bright = t.bright
  PROVE  Calms(t, u)
BY DEF Calms, Observing, Active, MenuObserving

LEMMA FaultCalms ==
  ASSUME NEW t, IsState(t)
  PROVE  LET u == [t EXCEPT !.fault = TRUE]
         IN  Calms(t, u) /\ u.fault = TRUE /\ u.loaded = t.loaded /\ u.bounds = t.bounds
<1> DEFINE u == [t EXCEPT !.fault = TRUE]
<1>1. /\ IsState(u) /\ SameKeys(t, u) /\ u.midi = t.midi /\ u.cal = t.cal
      /\ u.confirm = t.confirm /\ u.ready = t.ready /\ u.page = t.page
      /\ u.pending = t.pending /\ u.bright = t.bright
      /\ u.fault = TRUE /\ u.loaded = t.loaded /\ u.bounds = t.bounds
  BY SMTT(30) DEF IsState, Fields, SameKeys
<1> HIDE DEF u
<1>2. Calms(t, u)
  BY <1>1, StoreCalms
<1> QED BY <1>1, <1>2 DEF u

LEMMA ResettingCalms ==
  ASSUME NEW t, IsState(t)
  PROVE  LET u == [t EXCEPT !.resetPending = TRUE, !.fault = FALSE]
         IN  Calms(t, u) /\ u.resetPending = TRUE /\ u.loaded = t.loaded /\ u.bounds = t.bounds
<1> DEFINE u == [t EXCEPT !.resetPending = TRUE, !.fault = FALSE]
<1>1. /\ IsState(u) /\ SameKeys(t, u) /\ u.midi = t.midi /\ u.cal = t.cal
      /\ u.confirm = t.confirm /\ u.ready = t.ready /\ u.page = t.page
      /\ u.pending = t.pending /\ u.bright = t.bright
      /\ u.resetPending = TRUE /\ u.loaded = t.loaded /\ u.bounds = t.bounds
  BY SMTT(30) DEF IsState, Fields, SameKeys
<1> HIDE DEF u
<1>2. Calms(t, u)
  BY <1>1, StoreCalms
<1> QED BY <1>1, <1>2 DEF u

(* A stage of a frame, with the flash it leaves.                           *)
Leaves(t, f, o) == Calms(t, o.state) /\ (StoreOK(t, f) => StoreOK(o.state, o.flash))

LEMMA SettlesLeaves ==
  ASSUME NEW t, NEW u, Settles(t, u), NEW f
  PROVE  Leaves(t, f, Outcome(u, f))
BY DEF Settles, SameStore, Leaves, StoreOK, Outcome

LEMMA LeavesTwice ==
  ASSUME NEW t, NEW f, NEW o, NEW p, Leaves(t, f, o), Leaves(o.state, o.flash, p)
  PROVE  Leaves(t, f, p)
BY CalmsTwice DEF Leaves

LEMMA ResetLeaves ==
  ASSUME NEW t, IsState(t), NEW f, NEW o \in ResetProfile(t, f)
  PROVE  Leaves(t, f, o)
<1> DEFINE a == AppInvalidated(t)
           reset == [a EXCEPT !.resetPending = TRUE, !.fault = FALSE]
           broken == [t EXCEPT !.fault = TRUE]
<1>1. Settles(t, a) /\ IsState(a)
  BY AppInvalidatedSettles DEF Settles, Calms
<1>2. Calms(t, broken) /\ broken.fault = TRUE /\ broken.loaded = t.loaded /\ broken.bounds = t.bounds
  BY FaultCalms
<1>3. o \in {Outcome(reset, "factory"), Outcome(t, f), Outcome(broken, f), Outcome(broken, "factory")}
  BY Zenon DEF ResetProfile, a, reset, broken
<1> HIDE DEF a, broken
<1>4. Calms(a, reset) /\ reset.resetPending = TRUE /\ reset.loaded = a.loaded /\ reset.bounds = a.bounds
  BY <1>1, ResettingCalms
<1> HIDE DEF reset
<1>5. Calms(t, reset)
  BY <1>1, <1>4, CalmsTwice DEF Settles
<1>6. Leaves(t, f, Outcome(t, f))
  BY SettlesSelf, SettlesLeaves
<1>7. Leaves(t, f, Outcome(reset, "factory"))
  BY <1>1, <1>4, <1>5 DEF Leaves, Outcome, StoreOK, Settles, SameStore
<1>8. Leaves(t, f, Outcome(broken, f)) /\ Leaves(t, f, Outcome(broken, "factory"))
  BY <1>2 DEF Leaves, Outcome, StoreOK
<1> QED BY <1>3, <1>6, <1>7, <1>8

LEMMA ActedLeaves ==
  ASSUME NEW m, IsState(m.state), NEW f, NEW o \in Acted(m, f)
  PROVE  /\ Leaves(m.state, f, o)
         /\ o.flash # f => m.action = "reset"
<1> DEFINE a == Invalidated(m.state)
           toggled == [a EXCEPT !.midi = ~@]
<1>1. Settles(m.state, a) /\ ~a.armed /\ IsState(a)
  BY InvalidatedSettles DEF Settles, Calms
<1>2. Settles(m.state, toggled)
  <2> HIDE DEF a
  <2>1. /\ IsState(toggled) /\ SameStore(a, toggled) /\ toggled.armed = a.armed
        /\ toggled.page = a.page /\ toggled.confirm = a.confirm /\ toggled.ready = a.ready
    <3> DEFINE midi == ~a.midi
               v == [a EXCEPT !.midi = midi]
    <3> HIDE DEF midi
    <3>1. /\ IsState(v) /\ SameStore(a, v) /\ v.armed = a.armed
          /\ v.page = a.page /\ v.confirm = a.confirm /\ v.ready = a.ready
      BY <1>1, SMTT(30) DEF IsState, Fields, SameStore
    <3> QED BY <3>1, Zenon DEF midi
  <2> HIDE DEF toggled
  <2>2. Settles(a, toggled)
    BY <1>1, <2>1 DEF Settles, Calms
  <2> QED BY <1>1, <2>2, SettlesTwice
<1>3. Settles(m.state, Calibrating(m.state)) /\ Settles(m.state, m.state)
  BY CalibratingSettles, SettlesSelf
<1>4. \/ o \in {Outcome(toggled, f), Outcome(Calibrating(m.state), f), Outcome(m.state, f)}
      \/ m.action = "reset" /\ o \in ResetProfile(m.state, f)
  BY Zenon DEF Acted, toggled, a
<1> HIDE DEF toggled
<1>5. CASE o \in {Outcome(toggled, f), Outcome(Calibrating(m.state), f), Outcome(m.state, f)}
  <2>1. o.flash = f
    BY <1>5 DEF Outcome
  <2> QED BY <1>2, <1>3, <1>5, <2>1, SettlesLeaves
<1>6. CASE m.action = "reset" /\ o \in ResetProfile(m.state, f)
  BY <1>6, ResetLeaves
<1> QED BY <1>4, <1>5, <1>6

LEMMA LoadedLeaves ==
  ASSUME NEW t, IsState(t), NEW f
  PROVE  LET u == Loaded(t, f)
         IN  /\ Leaves(t, f, Outcome(u, f)) /\ IsState(u)
             /\ u.frameValid = t.frameValid
             /\ u.frameValid => u.loaded
<1> DEFINE bounds == IF f = "custom" THEN f ELSE t.bounds
           u == [t EXCEPT !.loaded = TRUE, !.bounds = bounds]
<1>1. Loaded(t, f) = IF ~t.loaded /\ t.frameValid THEN u ELSE t
  BY DEF Loaded
<1> HIDE DEF bounds
<1>2. /\ IsState(u) /\ SameKeys(t, u) /\ u.midi = t.midi /\ u.cal = t.cal
      /\ u.confirm = t.confirm /\ u.ready = t.ready /\ u.page = t.page
      /\ u.pending = t.pending /\ u.bright = t.bright
      /\ u.loaded = TRUE /\ u.bounds = bounds /\ u.resetPending = t.resetPending
      /\ u.fault = t.fault /\ u.frameValid = t.frameValid
  BY SMTT(30) DEF IsState, Fields, SameKeys
<1> HIDE DEF u
<1>a. Calms(t, u)
  BY <1>2, StoreCalms
<1>3. ~t.loaded => Leaves(t, f, Outcome(u, f))
  BY <1>2, <1>a DEF Leaves, Outcome, StoreOK, bounds
<1>4. Leaves(t, f, Outcome(t, f))
  BY SettlesSelf, SettlesLeaves
<1> QED BY <1>1, <1>2, <1>3, <1>4

LEMMA TickedSettles ==
  ASSUME NEW t, IsState(t), NEW valid, NEW u \in Ticked(t, valid)
  PROVE  /\ Settles(t, u) /\ u.frameValid = t.frameValid
         /\ u = t \/ ~Active(u)
         /\ ~valid => ~Active(u)
         /\ valid /\ t.cal = "save" => u = t
BY AbortedSettles, SettlesSelf DEF Ticked, MayTimeOut

LEMMA MeasuredSettles ==
  ASSUME NEW t, IsState(t), NEW now, NEW u \in Measured(t, now)
  PROVE  Settles(t, u) /\ (Active(u) => Active(t)) /\ u.frameValid = t.frameValid
<1>1. ASSUME NEW cal
      PROVE  LET v == [t EXCEPT !.cal = cal]
             IN  Active(t) => Settles(t, v) /\ v.frameValid = t.frameValid
  <2> DEFINE v == [t EXCEPT !.cal = cal]
  <2>1. /\ IsState(v) /\ SameStore(t, v) /\ SameKeys(t, v) /\ v.midi = t.midi
        /\ v.frameValid = t.frameValid /\ v.confirm = t.confirm /\ v.ready = t.ready
        /\ v.page = t.page
    BY SMTT(30) DEF IsState, Fields, SameStore, SameKeys
  <2> HIDE DEF v
  <2> QED BY <2>1 DEF Settles, Calms, Observing, v
<1>2. ASSUME NEW full
      PROVE  LET v == Collected(t, now, full)
             IN  Active(t) => Settles(t, v) /\ v.frameValid = t.frameValid
  <2> DEFINE done == t.done \cup full
             cal == IF done = keys THEN "save" ELSE t.cal
             holds == now \ done
             v == [t EXCEPT !.done = done, !.holds = holds, !.cal = cal]
  <2>1. Collected(t, now, full) = v
    BY DEF Collected
  <2> HIDE DEF done, cal, holds
  <2>2. /\ IsState(v) /\ SameStore(t, v) /\ SameKeys(t, v) /\ v.midi = t.midi
        /\ v.frameValid = t.frameValid /\ v.confirm = t.confirm /\ v.ready = t.ready
        /\ v.page = t.page
    BY SMTT(30) DEF IsState, Fields, SameStore, SameKeys
  <2> HIDE DEF v
  <2> QED BY <2>1, <2>2 DEF Settles, Calms, Observing
<1>3. Settles(t, t)
  BY SettlesSelf
<1>4. Settles(t, Aborted(t)) /\ Aborted(t).frameValid = t.frameValid
  BY AbortedSettles
<1>5. \/ u = t
      \/ Active(t) /\ u = Aborted(t)
      \/ Active(t) /\ \E cal : u = [t EXCEPT !.cal = cal]
      \/ Active(t) /\ \E full : u = Collected(t, now, full)
  BY DEF Measured, Active
<1> QED BY <1>1, <1>2, <1>3, <1>4, <1>5

LEMMA CalibrationFrameSettles ==
  ASSUME NEW t, IsState(t), NEW now, NEW c \in CalibrationFrame(t, now)
  PROVE  Settles(t, c) /\ (Active(c) => t.frameValid)
<1>1. PICK u \in Ticked(t, t.frameValid) : c \in Measured(u, now)
  BY DEF CalibrationFrame
<1>2. Settles(t, u) /\ IsState(u) /\ (~t.frameValid => ~Active(u))
  BY TickedSettles DEF Settles, Calms
<1>3. Settles(u, c) /\ (Active(c) => Active(u))
  BY <1>1, <1>2, MeasuredSettles
<1> QED BY <1>2, <1>3, SettlesTwice

LEMMA SaveLeaves ==
  ASSUME NEW t, IsState(t), Active(t) => t.loaded, NEW f, NEW o \in SaveOffered(t, f)
  PROVE  Leaves(t, f, o) /\ o.flash \in {f, "custom"}
<1> DEFINE failed == Aborted(t)
           broken == [failed EXCEPT !.fault = TRUE]
           completed == [t EXCEPT !.cal = "idle", !.done = {}, !.bounds = "custom"]
<1>1. Settles(t, failed) /\ IsState(failed)
  BY AbortedSettles DEF Settles, Calms
<1>2. \/ o = Outcome(t, f)
      \/ o = Outcome(failed, f)
      \/ o \in {Outcome(broken, f), Outcome(broken, "custom")}
      \/ t.cal = "save" /\ o = Outcome(completed, "custom")
  BY Zenon DEF SaveOffered
<1> HIDE DEF failed
<1>3. Calms(failed, broken) /\ broken.fault = TRUE /\ broken.loaded = failed.loaded
      /\ broken.bounds = failed.bounds
  BY <1>1, FaultCalms
<1> HIDE DEF broken
<1>4. Calms(t, broken) /\ broken.fault = TRUE /\ broken.loaded = t.loaded /\ broken.bounds = t.bounds
  BY <1>1, <1>3, CalmsTwice DEF Settles, SameStore
<1>5. /\ IsState(completed) /\ SameKeys(t, completed) /\ completed.midi = t.midi
      /\ completed.confirm = t.confirm /\ completed.ready = t.ready /\ completed.page = t.page
      /\ completed.pending = t.pending /\ completed.bright = t.bright /\ completed.cal = "idle"
      /\ completed.bounds = "custom" /\ completed.loaded = t.loaded
  BY SMTT(30) DEF IsState, Fields, SameKeys
<1> HIDE DEF completed
<1>6. Calms(t, completed)
  BY <1>5 DEF Calms, Observing, Active, MenuObserving
<1>7. t.cal = "save" => Leaves(t, f, Outcome(completed, "custom"))
  BY <1>5, <1>6 DEF Leaves, Outcome, StoreOK, Active
<1>8. Leaves(t, f, Outcome(t, f)) /\ Leaves(t, f, Outcome(failed, f))
  BY <1>1, SettlesSelf, SettlesLeaves
<1>9. Leaves(t, f, Outcome(broken, f)) /\ Leaves(t, f, Outcome(broken, "custom"))
  BY <1>4 DEF Leaves, Outcome, StoreOK
<1> QED BY <1>2, <1>7, <1>8, <1>9 DEF Outcome

LEMMA HandedSettles ==
  ASSUME NEW t, IsState(t)
  PROVE  Settles(t, Handed(t))
<1> DEFINE v == Invalidated(t)
           u == [v EXCEPT !.mode = t.mode, !.edit = t.edit, !.dirty = t.dirty, !.fn = t.fn]
<1>1. Kept(t, v) /\ ~v.armed /\ IsState(v)
  BY InvalidatedKeeps DEF Kept
<1> HIDE DEF v
<1>2. Kept(v, u) /\ u.armed = v.armed
  BY <1>1, SMTT(30) DEF IsState, Fields, Kept
<1>3. Handed(t) = IF Observing(t) THEN t ELSE u
  BY DEF Handed, v
<1> HIDE DEF u
<1>4. Settles(t, u)
  BY <1>1, <1>2, KeepsTwice, KeptCalms DEF Settles, SameStore, Kept
<1> QED BY <1>3, <1>4, SettlesSelf

-----------------------------------------------------------------------------
(* A whole frame.                                                          *)
LEMMA FreshState == IsState(Fresh)
BY DEF Fresh, IsState, Fields

LEMMA AppliedSettles ==
  ASSUME NEW t, IsState(t), NEW now, NEW f
  PROVE  LET u == ResetApplied(t, now)
         IN  /\ Leaves(t, f, Outcome(u, f)) /\ IsState(u)
             /\ Observing(u) => Observing(t)
             /\ u.confirm => t.confirm /\ u.ready = t.ready
<1> DEFINE fault == t.fault
           u == [Fresh EXCEPT !.fault = fault]
<1>1. /\ IsState(u) /\ ~u.armed /\ u.page = "none" /\ ~u.confirm /\ u.bounds = "factory"
      /\ ~u.loaded /\ u.cal = "idle" /\ u.pending = "none" /\ ~u.bright
  <2> HIDE DEF fault
  <2> QED BY SMTT(30) DEF Fresh, IsState, Fields
<1>2. ResetApplied(t, now) = IF t.resetPending /\ t.frameValid /\ now = {} THEN u ELSE t
  BY DEF ResetApplied, Defaults
<1> HIDE DEF u
<1>3. Leaves(t, f, Outcome(u, f)) /\ ~Observing(u)
  BY <1>1 DEF Leaves, Outcome, Calms, StoreOK, Observing, Active, MenuObserving
<1>4. Leaves(t, f, Outcome(t, f))
  BY SettlesSelf, SettlesLeaves
<1> QED BY <1>1, <1>2, <1>3, <1>4

LEMMA AppFrameStep ==
  ASSUME NEW t, IsState(t), NEW f, StoreOK(t, f), t.page \in Pages,
         Observing(t) => ~t.armed,
         NEW now, IsFiniteSet(now), NEW old, IsFiniteSet(old), NEW owned, owned \subseteq old,
         t.armed => KeysOK(t, old, owned),
         NEW ok \in BOOLEAN, NEW o \in AppFrame(t, f, now, ok)
  PROVE  LET u == o.state
         IN  /\ IsState(u) /\ StoreOK(u, o.flash) /\ u.page \in Pages
             /\ u.armed => ~Observing(t) /\ ~Observing(u) /\ KeysOK(u, now, now \cap owned)
             /\ u.confirm /\ u.ready => t.confirm /\ (t.ready \/ now = {})
             /\ f = "custom" /\ o.flash = "factory"
                   => t.confirm /\ t.ready /\ "y" \in now /\ "n" \notin now
<1> DEFINE looked == Looked(t, now, ok)
           seen == ResetApplied(looked, now)
           m == MenuFrame(seen, now, t, Active(seen), seen.midi)
           collected == UNION {{Outcome(c, p.flash) :
                                   c \in CalibrationFrame(Loaded(p.state, p.flash), now)} :
                                  p \in Acted(m, f)}
           saved == UNION {SaveOffered(p.state, p.flash) : p \in collected}
<1>0. AppFrame(t, f, now, ok) =
         IF Observing(t) THEN {[q EXCEPT !.state = Handed(@)] : q \in saved} ELSE saved
  BY Zenon DEF AppFrame
<1>a. PICK q \in saved : \/ ~Observing(t) /\ o = q
                         \/ Observing(t) /\ o = [q EXCEPT !.state = Handed(@)]
  <2> HIDE DEF saved
  <2> QED BY <1>0
<1>b. PICK r \in collected : q \in SaveOffered(r.state, r.flash)
  <2> HIDE DEF collected
  <2> QED BY <1>a
<1>c. PICK p \in Acted(m, f) :
              \E c \in CalibrationFrame(Loaded(p.state, p.flash), now) : r = Outcome(c, p.flash)
  <2> HIDE DEF m
  <2> QED BY <1>b
<1>d. PICK c \in CalibrationFrame(Loaded(p.state, p.flash), now) : r = Outcome(c, p.flash)
  BY <1>c
<1>1. q \in SaveOffered(c, p.flash)
  BY <1>b, <1>d DEF Outcome
<1> HIDE DEF collected, saved
<1>2. Kept(t, looked) /\ (Observing(t) => ~looked.armed)
      /\ (looked.armed => KeysOK(looked, now, now \cap owned))
  BY LookedKeys
<1> HIDE DEF looked
<1>3. /\ Leaves(looked, f, Outcome(seen, f)) /\ IsState(seen)
      /\ Observing(seen) => Observing(looked)
      /\ seen.confirm => looked.confirm /\ seen.ready = looked.ready
  BY <1>2, AppliedSettles DEF Kept
<1> HIDE DEF seen
<1>4. StoreOK(seen, f) /\ seen.page \in Pages /\ Calms(looked, seen)
  BY <1>2, <1>3 DEF Leaves, Outcome, Kept, StoreOK, Calms, Pages
<1>5. MenuStep(seen, m, now)
  BY <1>3, <1>4, MenuFrameStep
<1> HIDE DEF m
<1>6. Leaves(m.state, f, p) /\ (p.flash # f => m.action = "reset")
  BY <1>5, ActedLeaves DEF MenuStep, Shows
<1> DEFINE l == Loaded(p.state, p.flash)
<1>7. Leaves(p.state, p.flash, Outcome(l, p.flash)) /\ IsState(l) /\ (l.frameValid => l.loaded)
  BY <1>6, LoadedLeaves DEF Leaves, Calms
<1> HIDE DEF l
<1>8. Settles(l, c) /\ (Active(c) => c.loaded) /\ IsState(c)
  BY <1>1, <1>7, CalibrationFrameSettles DEF l, Settles, SameStore, Calms
<1>9. Leaves(c, p.flash, q) /\ q.flash \in {p.flash, "custom"} /\ IsState(q.state)
  BY <1>1, <1>8, SaveLeaves DEF Leaves, Calms
<1>10. o.flash = q.flash /\ Settles(q.state, o.state)
  <2>1. q \in [state : {q.state}, flash : {q.flash}]
    BY <1>1 DEF SaveOffered, Outcome
  <2>2. [q EXCEPT !.state = Handed(@)].flash = q.flash
        /\ [q EXCEPT !.state = Handed(@)].state = Handed(q.state)
    BY <2>1
  <2> QED BY <1>a, <1>9, <2>2, HandedSettles, SettlesSelf
<1>11. StoreOK(m.state, f)
  BY <1>4, <1>5 DEF MenuStep, Shows, SameStore, StoreOK
<1>12. /\ Calms(m.state, o.state) /\ StoreOK(o.state, o.flash)
  <2>1. Leaves(l, p.flash, Outcome(c, p.flash))
    BY <1>8, SettlesLeaves
  <2>2. Leaves(q.state, q.flash, Outcome(o.state, q.flash))
    BY <1>10, SettlesLeaves
  <2>3. Calms(p.state, l) /\ Calms(l, c) /\ Calms(q.state, o.state)
        /\ StoreOK(p.state, p.flash)
    BY <1>6, <1>7, <1>11, <2>1, <2>2 DEF Leaves, Outcome
  <2>4. StoreOK(l, p.flash)
    BY <1>7, <2>3 DEF Leaves, Outcome
  <2>5. StoreOK(c, p.flash)
    BY <2>1, <2>4 DEF Leaves, Outcome
  <2>6. StoreOK(q.state, q.flash)
    BY <1>9, <2>5 DEF Leaves
  <2>7. StoreOK(o.state, o.flash)
    BY <1>10, <2>2, <2>6 DEF Leaves, Outcome
  <2> QED BY <1>6, <1>9, <2>3, <2>7, CalmsTwice DEF Leaves
<1>13. /\ o.state.confirm /\ o.state.ready => seen.confirm /\ (seen.ready \/ now = {})
       /\ o.state.page \in {seen.page} \cup Pages
       /\ o.state.armed => SameKeys(seen, o.state) /\ o.state.midi = seen.midi
       /\ o.state.armed /\ Observing(o.state) => Observing(seen)
  BY <1>5, <1>12, ShownCalms DEF MenuStep
<1>14. seen.confirm => t.confirm /\ (seen.ready => t.ready)
  BY <1>2, <1>3 DEF Kept
<1>15. f = "custom" /\ o.flash = "factory"
          => seen.confirm /\ seen.ready /\ "y" \in now /\ "n" \notin now
  BY <1>5, <1>6, <1>9, <1>10 DEF MenuStep
<1>16. ASSUME o.state.armed
       PROVE  ~Observing(t) /\ ~Observing(o.state) /\ KeysOK(o.state, now, now \cap owned)
  <2>1. looked.armed /\ SameKeys(looked, o.state) /\ o.state.midi = looked.midi
    BY <1>4, <1>13, <1>16 DEF Calms, SameKeys
  <2>2. Observing(looked) = Observing(t)
    BY <1>2 DEF Kept, Observing, Active, MenuObserving
  <2>3. ~Observing(t)
    BY <1>2, <2>1
  <2>4. ~Observing(o.state)
    BY <1>3, <1>13, <1>16, <2>2, <2>3
  <2>5. KeysOK(looked, now, now \cap owned)
    BY <1>2, <2>1
  <2> QED BY <2>1, <2>3, <2>4, <2>5 DEF SameKeys, KeysOK
<1>17. IsState(o.state) /\ o.state.page \in Pages
  BY <1>4, <1>12, <1>13 DEF Calms
<1> QED BY <1>12, <1>13, <1>14, <1>15, <1>16, <1>17

LEMMA ServicedSettles ==
  ASSUME NEW t, IsState(t), NEW fresh \in BOOLEAN, NEW v \in Serviced(t, fresh)
  PROVE  /\ Settles(t, v)
         /\ fresh /\ t.frameValid /\ t.cal = "save" => v = t
         /\ ~fresh => ~v.frameValid
<1> DEFINE Ended(u) == IF Active(t) /\ ~Active(u) THEN Invalidated(u) ELSE u
           Stale(u) == [MenuCancelled(Invalidated(u)) EXCEPT !.frameValid = FALSE]
<1>1. PICK u \in Ticked(t, fresh /\ t.frameValid) : v = IF fresh THEN Ended(u) ELSE Stale(u)
  BY Zenon DEF Serviced
<1>2. Settles(t, u) /\ IsState(u) /\ (fresh /\ t.frameValid /\ t.cal = "save" => u = t)
  BY TickedSettles DEF Settles, Calms
<1>3. Settles(u, Ended(u))
  BY <1>2, InvalidatedSettles, SettlesSelf
<1>4. Settles(u, Stale(u)) /\ Stale(u).frameValid = FALSE
  <2> DEFINE a == Invalidated(u)
             b == MenuCancelled(a)
  <2>1. Settles(u, a) /\ IsState(a)
    BY <1>2, InvalidatedSettles DEF Settles, Calms
  <2> HIDE DEF a
  <2>2. Settles(a, b) /\ IsState(b)
    BY <2>1, CancelledSettles DEF Settles, Calms
  <2> HIDE DEF b
  <2>3. Settles(b, [b EXCEPT !.frameValid = FALSE]) /\ [b EXCEPT !.frameValid = FALSE].frameValid = FALSE
    BY <2>2, InvalidSettles
  <2> QED BY <2>1, <2>2, <2>3, SettlesTwice DEF a, b
<1>5. u = t => Ended(u) = t
  OBVIOUS
<1> HIDE DEF Ended, Stale
<1> QED BY <1>1, <1>2, <1>3, <1>4, <1>5, SettlesTwice

(* What a command or the board does between two turns.                     *)
LEMMA BetweenSettles ==
  ASSUME NEW t, IsState(t)
  PROVE  /\ \A on : Settles(t, [Invalidated(t) EXCEPT !.enabled = on])
         /\ \A on : Settles(t, [Invalidated(t) EXCEPT !.moved = on])
         /\ Settles(t, Calibrating(t))
         /\ Settles(t, Invalidated(Aborted(t)))
         /\ Settles(t, AppInvalidated(t))
<1> DEFINE a == Invalidated(t)
<1>1. Settles(t, a) /\ ~a.armed /\ IsState(a)
  BY InvalidatedSettles DEF Settles, Calms
<1>2. \A on : Settles(t, [a EXCEPT !.enabled = on])
  <2> TAKE on
  <2> HIDE DEF a
  <2>1. Kept(a, [a EXCEPT !.enabled = on]) /\ SameKeys(a, [a EXCEPT !.enabled = on])
    BY <1>1, SMTT(30) DEF IsState, Fields, Kept, SameKeys
  <2>2. Settles(a, [a EXCEPT !.enabled = on])
    BY <2>1, KeptCalms DEF Settles, Kept, SameStore
  <2> QED BY <1>1, <2>2, SettlesTwice
<1>3. \A on : Settles(t, [a EXCEPT !.moved = on])
  <2> TAKE on
  <2> HIDE DEF a
  <2>1. Kept(a, [a EXCEPT !.moved = on]) /\ SameKeys(a, [a EXCEPT !.moved = on])
    BY <1>1, SMTT(30) DEF IsState, Fields, Kept, SameKeys
  <2>2. Settles(a, [a EXCEPT !.moved = on])
    BY <2>1, KeptCalms DEF Settles, Kept, SameStore
  <2> QED BY <1>1, <2>2, SettlesTwice
<1>4. Settles(t, Invalidated(Aborted(t)))
  <2> DEFINE b == Aborted(t)
  <2>1. Settles(t, b) /\ IsState(b)
    BY AbortedSettles DEF Settles, Calms
  <2> HIDE DEF b
  <2>2. Settles(b, Invalidated(b))
    BY <2>1, InvalidatedSettles
  <2> QED BY <2>1, <2>2, SettlesTwice DEF b
<1> QED BY <1>2, <1>3, <1>4, CalibratingSettles, AppInvalidatedSettles

-----------------------------------------------------------------------------
(* The keys there are.                                                     *)
LEMMA NamesFinite == IsFiniteSet(Names)
<1> DEFINE A == {"fn"} \cup {"esc"} \cup {"tab"} \cup {"caps"} \cup {"c"}
           B == {"enter"} \cup {"k"} \cup {"r"} \cup {"y"} \cup {"n"}
           C == {"e"} \cup {"v"} \cup {"one"} \cup {"up"} \cup {"a"}
<1>1. \A x : IsFiniteSet({x})
  BY FS_Singleton
<1>2. IsFiniteSet(A) /\ IsFiniteSet(B) /\ IsFiniteSet(C)
  BY <1>1, FS_Union
<1>3. Names = A \cup B \cup C
  BY DEF Names
<1> HIDE DEF A, B, C
<1> QED BY <1>2, <1>3, FS_Union

LEMMA HeldFinite ==
  ASSUME NEW now \in SUBSET Names
  PROVE  IsFiniteSet(now)
BY NamesFinite, FS_Subset

LEMMA InvInit == Init => AppInv
BY FreshState DEF Init, AppInv, StoreOK, AskOK, Fresh, Observing, Active, MenuObserving, Pages

(* Every step but a frame and a start from nothing.                        *)
LEMMA SettlesInv ==
  ASSUME AppInv, Settles(s, s'), UNCHANGED <<keys, held, flash, own, since>>
  PROVE  AppInv'
BY DEF AppInv, Settles, Calms, SameStore, StoreOK, AskOK, KeysOK, SameKeys, Pages

(* A frame keeps the invariant, and erases only what was confirmed.        *)
LEMMA FrameInv ==
  ASSUME AppInv, NEW now \in SUBSET keys, NEW ok \in BOOLEAN, FrameWith(now, ok)
  PROVE  /\ AppInv'
         /\ flash = "custom" /\ flash' = "factory"
               => s.confirm /\ since = {} /\ "y" \in held' /\ "n" \notin held'
<1>1. PICK o \in AppFrame(s, flash, now, ok) : s' = o.state /\ flash' = o.flash
  BY DEF FrameWith
<1>2. IsFiniteSet(now) /\ IsFiniteSet(held)
  BY HeldFinite, KeyboardsAssumption DEF AppInv
<1>3. /\ IsState(s) /\ StoreOK(s, flash) /\ s.page \in Pages /\ (Observing(s) => ~s.armed)
      /\ own \subseteq held /\ (s.armed => KeysOK(s, held, own))
  BY DEF AppInv, AskOK
<1>4. /\ IsState(s') /\ StoreOK(s', flash') /\ s'.page \in Pages
      /\ s'.armed => ~Observing(s) /\ ~Observing(s') /\ KeysOK(s', now, now \cap own)
      /\ s'.confirm /\ s'.ready => s.confirm /\ (s.ready \/ now = {})
      /\ flash = "custom" /\ flash' = "factory"
            => s.confirm /\ s.ready /\ "y" \in now /\ "n" \notin now
  BY <1>1, <1>2, <1>3, AppFrameStep
<1>5. /\ held' = now /\ keys' = keys
      /\ own' = now \cap (IF Observing(s) \/ Observing(s') THEN now ELSE own)
      /\ since' = now \cap (IF ~s'.confirm THEN {} ELSE IF s.confirm THEN since ELSE now)
  BY DEF FrameWith
<1>6. s.confirm /\ s.ready => since = {}
  BY DEF AppInv, AskOK
<1>7. s'.armed => KeysOK(s', held', own')
  BY <1>4, <1>5
<1>8. AskOK(s', since')
  BY <1>4, <1>5, <1>6 DEF AskOK
<1>9. keys' \in Keyboards /\ held' \subseteq keys' /\ own' \subseteq held'
  BY <1>5 DEF AppInv
<1> QED BY <1>4, <1>5, <1>6, <1>7, <1>8, <1>9 DEF AppInv

LEMMA BetweenInv ==
  ASSUME AppInv, NEW t, Settles(s, t), Between(t)
  PROVE  AppInv'
BY SettlesInv DEF Between

(* One case for each action.                                               *)
LEMMA InvNext == AppInv /\ [Next]_vars => AppInv'
<1> SUFFICES ASSUME AppInv, [Next]_vars PROVE AppInv'
  OBVIOUS
<1>0. IsState(s)
  BY DEF AppInv
<1>1. CASE Frame
  <2>1. PICK now \in SUBSET keys, ok \in BOOLEAN : FrameWith(now, ok)
    BY <1>1 DEF Frame, Hands, AppInv
  <2> QED BY <2>1, FrameInv
<1>2. CASE NoFrame
  BY <1>0, <1>2, SettlesSelf, SettlesInv DEF NoFrame
<1>3. ASSUME NEW fresh \in BOOLEAN, Service(fresh) PROVE AppInv'
  BY <1>0, <1>3, ServicedSettles, SettlesInv DEF Service
<1>4. CASE Enable
  BY <1>0, <1>4, BetweenSettles, BetweenInv DEF Enable
<1>5. CASE Edit
  BY <1>0, <1>5, BetweenSettles, BetweenInv DEF Edit
<1>6. CASE Calibrate
  BY <1>0, <1>6, BetweenSettles, BetweenInv DEF Calibrate
<1>7. CASE Cancel
  BY <1>0, <1>7, BetweenSettles, BetweenInv DEF Cancel
<1>8. CASE Invalidate
  BY <1>0, <1>8, BetweenSettles, BetweenInv DEF Invalidate
<1>9. CASE Clean
  <2>1. PICK o \in ResetProfile(s, flash) : s' = o.state /\ flash' = o.flash
    BY <1>9 DEF Clean
  <2>2. Leaves(s, flash, o)
    BY <1>0, <2>1, ResetLeaves
  <2>3. Calms(s, s') /\ StoreOK(s', flash')
    BY <2>1, <2>2 DEF Leaves, AppInv
  <2>4. UNCHANGED <<keys, held, own, since>>
    BY <1>9 DEF Clean
  <2> QED BY <2>3, <2>4 DEF AppInv, Calms, AskOK, KeysOK, SameKeys, Pages
<1>10. CASE PowerCycle
  <2>1. IsState(Fresh) /\ ~Fresh.armed /\ Fresh.page = "none" /\ ~Fresh.confirm
        /\ Fresh.bounds = "factory" /\ ~Fresh.loaded
    BY FreshState DEF Fresh
  <2>2. s' = Fresh /\ own' = {} /\ since' = {} /\ UNCHANGED <<keys, held, flash>>
    BY <1>10 DEF PowerCycle
  <2> HIDE DEF Fresh
  <2> QED BY <2>1, <2>2 DEF AppInv, StoreOK, AskOK, Pages
<1>11. CASE UNCHANGED vars
  BY <1>0, <1>11, SettlesSelf, SettlesInv DEF vars
<1> QED BY <1>1, <1>2, <1>3, <1>4, <1>5, <1>6, <1>7, <1>8, <1>9, <1>10, <1>11 DEF Next

(* The inductive invariant of the application, for every keyboard.         *)
THEOREM AppInvariant == Spec => []AppInv
BY InvInit, InvNext, PTL DEF Spec

(* It contains the safety properties of the run.                           *)
LEMMA InvReport ==
  ASSUME AppInv
  PROVE  OwnedKeysStaySilent /\ BoundsMatchFlash /\ ReportFollowsHands
<1>1. BoundsMatchFlash
  BY DEF AppInv, StoreOK, BoundsMatchFlash
<1>2. \A o \in Report(s) : s.armed /\ ~s.midi /\ o \in s.out
  BY DEF Report
<1>3. \A o \in Report(s) : KeysOK(s, held, own)
  BY <1>2 DEF AppInv
<1>4. OwnedKeysStaySilent
  BY <1>2, <1>3 DEF OwnedKeysStaySilent, KeysOK
<1>5. ASSUME NEW o \in Report(s)
      PROVE  o[1] \in held \cup Controls /\ (o[2] = "fn" => {o[1], "fn"} \subseteq held)
  <2>1. /\ o[1] \in s.pressed /\ (o[2] = "fn" => s.fn /\ o[1] \notin Controls)
        /\ s.pressed \subseteq held \cup Controls /\ (s.fn => "fn" \in s.pressed)
    BY <1>2, <1>3 DEF KeysOK
  <2>2. "fn" \notin Controls
    BY DEF Controls
  <2> QED BY <2>1, <2>2
<1> QED BY <1>1, <1>4, <1>5 DEF ReportFollowsHands

(* A key held while the menu, a page, a confirmation or a calibration      *)
(* owned the input does not reach the report before it was released.       *)
THEOREM OwnedKeysSilent == Spec => []OwnedKeysStaySilent
BY AppInvariant, InvReport, PTL

(* The bounds in use are those the next boot loads, but for a reset that   *)
(* waits or a store that failed.                                           *)
THEOREM BoundsCorrect == Spec => []BoundsMatchFlash
BY AppInvariant, InvReport, PTL

(* The report names held keys and the menu's options only, and a shortcut  *)
(* only while Fn is held.                                                  *)
THEOREM ReportCorrect == Spec => []ReportFollowsHands
BY AppInvariant, InvReport, PTL

(* Only a frame erases from the keys, and only a confirmed one.            *)
LEMMA StepErase ==
  ASSUME AppInv, [Next]_vars,
         pc = "frame" /\ pc' = "service" /\ flash = "custom" /\ flash' = "factory"
  PROVE  s.confirm /\ since = {} /\ "y" \in held' /\ "n" \notin held'
<1>1. CASE Frame
  <2>1. PICK now \in SUBSET keys, ok \in BOOLEAN : FrameWith(now, ok)
    BY <1>1 DEF Frame, Hands, AppInv
  <2> QED BY <2>1, FrameInv
<1>2. CASE ~Frame
  BY <1>2 DEF Next, vars, NoFrame, Service, Enable, Edit, Calibrate, Cancel, Invalidate, Between,
              Clean, PowerCycle
<1> QED BY <1>1, <1>2

(* An erase needs a Y, without N, pressed after everything was released    *)
(* since the question appeared.                                            *)
THEOREM EraseCorrect == Spec => EraseNeedsFreshYes
<1>1. AppInv /\ [Next]_vars =>
         [pc = "frame" /\ pc' = "service" /\ flash = "custom" /\ flash' = "factory"
             => s.confirm /\ since = {} /\ "y" \in held' /\ "n" \notin held']_vars
  BY StepErase
<1> QED BY <1>1, AppInvariant, PTL DEF Spec, EraseNeedsFreshYes

(* Between a frame and the next the service keeps a finished calibration.  *)
LEMMA StepCandidate ==
  ASSUME AppInv, [Next]_vars, pc = "service", s.cal = "save", s'.cal # "save"
  PROVE  ~s.frameValid \/ ~s'.frameValid \/ s' = Fresh
<1>1. ASSUME NEW fresh \in BOOLEAN, Service(fresh) PROVE ~s.frameValid \/ ~s'.frameValid
  BY <1>1, ServicedSettles DEF Service, AppInv
<1>2. CASE ~\E fresh \in BOOLEAN : Service(fresh)
  BY <1>2 DEF Next, vars, Frame, FrameWith, NoFrame, Enable, Edit, Calibrate, Cancel, Invalidate,
              Between, Clean, PowerCycle
<1> QED BY <1>1, <1>2

(* A finished calibration outlasts whatever puts its save off, while the   *)
(* scan is good.                                                           *)
THEOREM CandidateCorrect == Spec => CandidateOutlastsDeferral
<1>1. AppInv /\ [Next]_vars =>
         [pc = "service" /\ s.cal = "save" /\ s'.cal # "save"
             => ~s.frameValid \/ ~s'.frameValid \/ s' = Fresh]_vars
  BY StepCandidate
<1> QED BY <1>1, AppInvariant, PTL DEF Spec, CandidateOutlastsDeferral
=============================================================================
