-------------------------- MODULE KeyboardRawProofs --------------------------
(***************************************************************************)
(* Proofs about keyboard_raw.c for every number of keys, window length and *)
(* set of readbacks: the worklist never hides a key, output arms silently  *)
(* and every strike gets a velocity fit.  All of them rest on RawInv.      *)
(***************************************************************************)
EXTENDS KeyboardRaw, TLAPS

LEMMA InitRawInv == RawInit => RawInv
<1> SUFFICES ASSUME RawInit PROVE RawInv
  OBVIOUS
<1>1. DefaultPress \in Nat /\ DefaultRelease \in Nat /\ 0 \in 0 .. Window - 1
  BY RawConstants, SMT DEF RawConstants
<1>2. RawTypeOK
  BY <1>1 DEF RawInit, RawTypeOK
<1>3. ThresholdsOrdered
  BY RawConstants, SMT DEF RawConstants, RawInit, ThresholdsOrdered
<1>4. down \cup pending \cup (Keys \ ready) \subseteq velocityWork
  BY DEF RawInit
<1> QED BY <1>2, <1>3, <1>4 DEF RawInit, RawInv, SchmittSettled

(* Invalidation establishes everything the invariant says of edges and fits. *)
LEMMA InvalidateKeepsInv ==
    ASSUME RawInvalidate,
           enabled' \in BOOLEAN, observed' \in BOOLEAN,
           press' \in [Keys -> Nat], release' \in [Keys -> Nat],
           raw' \in [Keys -> Samples \cup {0}],
           ThresholdsOrdered'
    PROVE  RawInv'
<1>1. 0 \in 0 .. Window - 1
  BY RawConstants, SMT DEF RawConstants
<1>2. RawTypeOK'
  BY <1>1 DEF RawInvalidate, RawTypeOK
<1>3. (down \cup pending \cup (Keys \ ready) \subseteq velocityWork)'
  BY DEF RawInvalidate
<1> QED BY <1>2, <1>3 DEF RawInvalidate, RawInv, SchmittSettled

(* A reading above the release threshold is never a press.                 *)
LEMMA ReleasedIsNotPressed ==
    ASSUME RawTypeOK, ThresholdsOrdered, NEW in \in Readbacks, NEW k \in Keys, IsReleased(in, k)
    PROVE  ~(in[k] <= release[k]) /\ ~(in[k] < press[k])
<1>1. in[k] \in Nat /\ press[k] \in Nat /\ release[k] \in Nat
  BY RawConstants DEF RawConstants, RawTypeOK, Readbacks
<1>2. in[k] > release[k] /\ press[k] < release[k]
  BY DEF IsReleased, ThresholdsOrdered
<1> QED BY <1>1, <1>2, SMT

(* What one pass of the detection does, whether or not it follows arming.  *)
LEMMA DetectKeepsInv ==
    ASSUME RawInv, NEW in \in Readbacks, NEW held \in SUBSET Keys,
           held = down \/ (held = {} /\ AllReleased(in)),
           armed' => \/ armed /\ held = down
                     \/ held = {} /\ AllReleased(in),
           Detect(in, held),
           raw' = in, UNCHANGED configVars,
           armed' \in BOOLEAN, valid' \in BOOLEAN, observed' \in BOOLEAN
    PROVE  /\ RawInv'
           /\ down' = {k \in Keys : Pressed(in, k, k \in held)}
           /\ armed /\ held = down =>
                 down' \ down \subseteq pending' /\ pending \ pending' \subseteq fitted'
           /\ held = {} /\ AllReleased(in) => changed' = {} /\ down' = {}
<1> DEFINE work == {k \in Keys : ~IsReleased(in, k)} \cup velocityWork
           edges == {k \in work : Pressed(in, k, k \in held) # (k \in held)}
           visited == {k \in work : \/ k \in edges
                                    \/ k \in pending
                                    \/ IsReleased(in, k) /\ k \notin ready}
           rearmed == ready \cup {k \in visited : IsReleased(in, k)}
           struck == (edges \ held) \cap rearmed
           sampling == (visited \cap pending) \ struck
           closing == {k \in sampling : in[k] < BottomOut \/ WindowFull(k)}
           measured == {k \in closing : Measured(in, k)}
<1>1. /\ ready' = rearmed \ struck
      /\ pending' = (pending \ closing) \cup struck
      /\ count' = [k \in Keys |-> IF k \in struck THEN 1
                                    ELSE IF k \in closing THEN 0
                                    ELSE IF k \in sampling THEN count[k] + 1
                                    ELSE count[k]]
      /\ fitted' = fitted \cup measured
      /\ velocityWork' = {k \in work : KeepsWork(in, k, pending')}
      /\ down' = (held \ edges) \cup (edges \ held)
      /\ changed' = edges
      /\ neutralIdle' = (AllReleased(in) /\ pending' \cap work = {})
  BY DEF Detect
<1>2. /\ RawTypeOK /\ ThresholdsOrdered /\ SchmittSettled
      /\ down \cup pending \cup (Keys \ ready) \subseteq velocityWork
      /\ neutralIdle /\ (armed \/ ~observed) => NothingLeft
      /\ \A k \in pending : count[k] >= 1
  BY DEF RawInv
<1>3. /\ work \subseteq Keys /\ edges \subseteq work /\ visited \subseteq work
      /\ held \subseteq work /\ pending \subseteq work /\ Keys \ ready \subseteq work
      /\ struck \subseteq edges \ held /\ closing \subseteq sampling
      /\ sampling \subseteq pending \ struck
      /\ ready \in SUBSET Keys /\ fitted \in SUBSET Keys
  BY <1>2, SMT DEF RawTypeOK
<1> DEFINE goesDown(k) == Pressed(in, k, k \in held)
<1>0. \A k \in Keys : goesDown(k) <=> IF k \in held THEN in[k] <= release[k] ELSE in[k] < press[k]
  BY DEF Pressed
<1>4. \A k \in Keys : IsReleased(in, k) => ~goesDown(k)
  BY <1>0, <1>2, ReleasedIsNotPressed
<1>5. down' = {k \in Keys : Pressed(in, k, k \in held)}
  <2>1. \A k \in Keys \ work : ~goesDown(k) /\ k \notin held
    BY <1>3, <1>4
  <2>2. \A k \in work : k \in edges <=> (goesDown(k) <=> k \notin held)
    BY DEF Pressed
  <2> HIDE DEF goesDown, edges, work
  <2>3. down' = {k \in Keys : goesDown(k)}
    BY <1>1, <1>3, <2>1, <2>2
  <2> QED BY <2>3 DEF goesDown
<1>6. \A k \in down' : ~IsReleased(in, k) /\ k \in work
  <2> SUFFICES ASSUME NEW k \in down' PROVE ~IsReleased(in, k) /\ k \in work
    OBVIOUS
  <2>1. k \in Keys /\ goesDown(k)
    BY <1>5
  <2>2. ~IsReleased(in, k)
    BY <2>1, <1>4
  <2> QED BY <2>1, <2>2
<1>7. \A k \in closing : k \in measured
  BY <1>2, <1>3, RawConstants, SMT DEF RawConstants, RawTypeOK, Measured
<1>8. RawTypeOK'
  <2>1. count' \in [Keys -> 0 .. Window - 1]
    <3> SUFFICES ASSUME NEW k \in Keys
                 PROVE (IF k \in struck THEN 1
                        ELSE IF k \in closing THEN 0
                        ELSE IF k \in sampling THEN count[k] + 1
                        ELSE count[k]) \in 0 .. Window - 1
      BY <1>1
    <3>1. count[k] \in 0 .. Window - 1 /\ Window \in Nat /\ Window >= 2
      BY <1>2, RawConstants DEF RawConstants, RawTypeOK
    <3>2. k \in sampling /\ k \notin closing => count[k] + 1 < Window
      BY <3>1, SMT DEF WindowFull
    <3> HIDE DEF struck, closing, sampling
    <3> QED BY <3>1, <3>2, SMT
  <2>2. /\ ready' \in SUBSET Keys /\ pending' \in SUBSET Keys /\ fitted' \in SUBSET Keys
        /\ velocityWork' \in SUBSET Keys /\ down' \in SUBSET Keys /\ changed' \in SUBSET Keys
    <3> HIDE DEF work, edges, struck, closing
    <3> QED BY <1>1, <1>3, <1>5
  <2>3. neutralIdle' \in BOOLEAN /\ raw' \in [Keys -> Samples \cup {0}]
    BY <1>1 DEF Readbacks
  <2> QED BY <1>2, <2>1, <2>2, <2>3 DEF RawTypeOK, configVars
<1>9. ThresholdsOrdered'
  BY <1>2 DEF ThresholdsOrdered, configVars
<1>10. down' \cup pending' \cup (Keys \ ready') \subseteq velocityWork'
  <2>1. \A k \in Keys \ ready' : k \in pending' \/ (~IsReleased(in, k) /\ k \in work)
    <3> SUFFICES ASSUME NEW k \in Keys, k \notin ready', k \notin pending'
                 PROVE  ~IsReleased(in, k) /\ k \in work
      OBVIOUS
    <3>1. k \notin struck /\ k \notin rearmed
      BY <1>1
    <3> QED BY <3>1, <1>3
  <2>2. \A k \in pending' : k \in work
    BY <1>1, <1>3
  <2> QED BY <1>1, <1>6, <2>1, <2>2 DEF KeepsWork
<1>11. neutralIdle' => NothingLeft'
  <2> SUFFICES ASSUME neutralIdle' PROVE NothingLeft'
    OBVIOUS
  <2>1. AllReleased(in) /\ pending' \cap work = {}
    BY <1>1
  <2>2. pending' = {}
    BY <1>1, <1>3, <2>1
  <2>3. down' = {}
    BY <1>6, <1>8, <2>1 DEF AllReleased, RawTypeOK
  <2>4. velocityWork' = {}
    BY <1>1, <1>3, <2>1, <2>2 DEF AllReleased, KeepsWork
  <2> QED BY <1>8, <1>10, <2>2, <2>3, <2>4 DEF NothingLeft, RawTypeOK
<1>12. SchmittSettled'
  <2> SUFFICES ASSUME armed'
               PROVE  /\ \A k \in down' : in[k] <= release[k]
                      /\ \A k \in Keys \ down' : in[k] >= press[k] /\ k \in ready'
    BY DEF SchmittSettled, configVars
  <2>1. \A k \in Keys : in[k] \in Nat /\ press[k] \in Nat /\ release[k] \in Nat
    BY <1>2, RawConstants DEF RawConstants, RawTypeOK, Readbacks
  <2>2. \A k \in down' : in[k] <= release[k]
    BY <1>6, <1>8, <2>1, SMT DEF IsReleased, RawTypeOK
  <2>3. \A k \in Keys \ down' : in[k] >= press[k]
    <3> SUFFICES ASSUME NEW k \in Keys, k \notin down' PROVE in[k] >= press[k]
      OBVIOUS
    <3>1. ~goesDown(k)
      BY <1>5
    <3>2. CASE k \in held
      BY <1>0, <1>2, <2>1, <3>1, <3>2, SMT DEF ThresholdsOrdered
    <3>3. CASE k \notin held
      BY <1>0, <2>1, <3>1, <3>3, SMT
    <3> QED BY <3>2, <3>3
  <2>4. \A k \in Keys \ down' : k \in ready'
    <3> SUFFICES ASSUME NEW k \in Keys, k \notin down' PROVE k \in ready'
      OBVIOUS
    <3>1. ~goesDown(k)
      BY <1>5
    <3>2. k \notin struck
      BY <1>1, <1>3
    <3>3. CASE AllReleased(in)
      <4>1. k \in rearmed
        BY <1>3, <3>3 DEF AllReleased
      <4> QED BY <1>1, <3>2, <4>1
    <3>4. CASE ~AllReleased(in)
      <4>1. armed /\ held = down
        BY <3>4
      <4>2. CASE k \in down
        <5>1. k \in edges
          BY <1>3, <3>1, <4>1, <4>2
        <5>2. IsReleased(in, k)
          BY <1>0, <2>1, <3>1, <4>1, <4>2, SMT DEF IsReleased
        <5> QED BY <1>1, <3>2, <5>1, <5>2
      <4>3. CASE k \notin down
        <5>1. k \in ready
          BY <1>2, <4>1, <4>3 DEF SchmittSettled
        <5> QED BY <1>1, <3>2, <5>1
      <4> QED BY <4>2, <4>3
    <3> QED BY <3>3, <3>4
  <2> QED BY <2>2, <2>3, <2>4
<1>13. \A k \in pending' : count'[k] >= 1
  <2> SUFFICES ASSUME NEW k \in pending' PROVE count'[k] >= 1
    OBVIOUS
  <2>1. k \in Keys /\ (k \in struck \/ (k \in pending /\ k \notin closing))
    BY <1>1, <1>8 DEF RawTypeOK
  <2>2. CASE k \in struck
    BY <1>1, <2>1, <2>2
  <2>3. CASE k \notin struck
    <3>1. k \in pending /\ k \notin closing /\ count[k] \in Nat /\ count[k] >= 1
      BY <1>2, <2>1, <2>3, RawConstants, SMT DEF RawTypeOK, RawConstants
    <3>2. count'[k] = IF k \in sampling THEN count[k] + 1 ELSE count[k]
      <4> HIDE DEF struck, sampling, closing
      <4> QED BY <1>1, <2>1, <2>3, <3>1
    <3> QED BY <3>1, <3>2
  <2> QED BY <2>2, <2>3
<1>14. RawInv'
  BY <1>8, <1>9, <1>10, <1>11, <1>12, <1>13 DEF RawInv
<1>15. armed /\ held = down =>
          down' \ down \subseteq pending' /\ pending \ pending' \subseteq fitted'
  <2> SUFFICES ASSUME armed, held = down
               PROVE  down' \ down \subseteq pending' /\ pending \ pending' \subseteq fitted'
    OBVIOUS
  <2>1. \A k \in down' \ down : k \in ready
    BY <1>2, <1>8 DEF SchmittSettled, RawTypeOK
  <2>2. down' \ down \subseteq edges \ held
    BY <1>1
  <2>3. down' \ down \subseteq struck
    BY <2>1, <2>2
  <2>4. pending \ pending' \subseteq closing
    BY <1>1
  <2>5. closing \subseteq fitted'
    BY <1>1, <1>7
  <2> HIDE DEF struck, closing
  <2> QED BY <1>1, <2>3, <2>4, <2>5
<1>16. held = {} /\ AllReleased(in) => changed' = {} /\ down' = {}
  <2> SUFFICES ASSUME held = {}, AllReleased(in) PROVE edges = {}
    BY <1>1
  <2>1. \A k \in work : ~goesDown(k) /\ k \notin held
    BY <1>3, <1>4 DEF AllReleased
  <2>2. \A k \in edges : goesDown(k) <=> k \notin held
    BY DEF Pressed
  <2> HIDE DEF goesDown, edges, work
  <2> QED BY <1>3, <2>1, <2>2
<1> QED BY <1>5, <1>14, <1>15, <1>16

-----------------------------------------------------------------------------
(* A frame under a performance preserves the invariant and behaves as the  *)
(* action properties say.                                                  *)

LEMMA FrameKeepsInv ==
    ASSUME RawInv, NEW in \in Readbacks, NEW ok \in BOOLEAN, PerformanceFrame(in, ok)
    PROVE  /\ RawInv'
           /\ armed /\ armed' =>
                 /\ down' = {k \in Keys : Pressed(raw', k, k \in down)}
                 /\ down' \ down \subseteq pending'
                 /\ pending \ pending' \subseteq fitted'
           /\ ~armed /\ armed' => changed' = {} /\ down' = {}
<1>1. /\ RawTypeOK /\ ThresholdsOrdered /\ SchmittSettled
      /\ down \cup pending \cup (Keys \ ready) \subseteq velocityWork
      /\ neutralIdle /\ (armed \/ ~observed) => NothingLeft
      /\ \A k \in pending : count[k] >= 1
  BY DEF RawInv
<1>2. /\ raw' = in /\ UNCHANGED configVars /\ UNCHANGED observed /\ ~observed
      /\ in \in [Keys -> Samples \cup {0}]
  BY DEF PerformanceFrame, RawFrame, Readbacks
<1>3. CASE ~Usable(in, ok) /\ RawInvalidate
  <2>1. RawInv'
    BY <1>1, <1>2, <1>3, InvalidateKeepsInv DEF RawTypeOK, ThresholdsOrdered, configVars
  <2> QED BY <1>3, <2>1 DEF RawInvalidate
<1>4. CASE Usable(in, ok)
  <2> DEFINE arming == Arms(in)
             held == IF arming THEN {} ELSE down
  <2>1. /\ valid' = TRUE
        /\ armed' = (armed \/ arming)
        /\ \/ /\ enabled /\ ~armed /\ ~arming
              /\ neutralIdle' = FALSE
              /\ changed' = {}
              /\ UNCHANGED <<down, fitVars>>
           \/ /\ Skips(in)
              /\ down' = held
              /\ changed' = {}
              /\ UNCHANGED <<neutralIdle, fitVars>>
           \/ Detect(in, held)
    BY <1>4 DEF PerformanceFrame, RawFrame
  <2>2. armed \in BOOLEAN /\ arming \in BOOLEAN /\ armed' \in BOOLEAN
    BY <1>1, <2>1 DEF Arms, RawTypeOK
  <2>3. arming => ~armed /\ AllReleased(in)
    BY DEF Arms
  <2>4. CASE /\ enabled /\ ~armed /\ ~arming
             /\ neutralIdle' = FALSE
             /\ changed' = {}
             /\ UNCHANGED <<down, fitVars>>
    <3>1. ~armed'
      BY <2>1, <2>4
    <3>2. RawTypeOK'
      BY <1>1, <1>2, <2>1, <2>2, <2>4 DEF RawTypeOK, configVars, fitVars
    <3>3. RawInv'
      BY <1>1, <1>2, <2>4, <3>1, <3>2
         DEF RawInv, ThresholdsOrdered, SchmittSettled, configVars, fitVars
    <3> QED BY <2>4, <3>1, <3>3
  <2>5. CASE /\ Skips(in)
             /\ down' = held
             /\ changed' = {}
             /\ UNCHANGED <<neutralIdle, fitVars>>
    <3>1. AllReleased(in) /\ neutralIdle /\ NothingLeft
      BY <1>1, <1>2, <2>5 DEF Skips
    <3>2. down' = {} /\ NothingLeft'
      BY <2>5, <3>1 DEF NothingLeft, fitVars
    <3>3. RawTypeOK'
      BY <1>1, <1>2, <2>1, <2>2, <2>5, <3>2 DEF RawTypeOK, configVars, fitVars
    <3>4. \A k \in Keys : ~(in[k] <= release[k]) /\ ~(in[k] < press[k])
      BY <1>1, <3>1, ReleasedIsNotPressed DEF AllReleased
    <3>5. SchmittSettled'
      <4>1. \A k \in Keys : in[k] \in Nat /\ press[k] \in Nat
        BY <1>1, RawConstants DEF RawConstants, RawTypeOK, Readbacks
      <4>2. \A k \in Keys : in[k] >= press[k]
        BY <3>4, <4>1, SMT
      <4> QED BY <1>2, <3>2, <4>2 DEF SchmittSettled, NothingLeft, configVars
    <3>6. RawInv'
      BY <1>1, <1>2, <2>5, <3>2, <3>3, <3>5
         DEF RawInv, ThresholdsOrdered, NothingLeft, configVars, fitVars
    <3>7. armed => {k \in Keys : Pressed(in, k, k \in down)} = {}
      BY <3>1, <3>4 DEF Pressed, NothingLeft
    <3>8. pending = {}
      BY <3>1 DEF NothingLeft
    <3> QED BY <1>2, <2>5, <3>2, <3>6, <3>7, <3>8
  <2>6. CASE Detect(in, held)
    <3>1. held \in SUBSET Keys /\ (held = down \/ (held = {} /\ AllReleased(in)))
      BY <1>1, <2>3 DEF RawTypeOK
    <3>2. armed' => (armed /\ held = down) \/ (held = {} /\ AllReleased(in))
      BY <2>1, <2>2, <2>3
    <3>3. valid' \in BOOLEAN /\ observed' \in BOOLEAN
      BY <1>1, <1>2, <2>1 DEF RawTypeOK
    <3> HIDE DEF held
    <3>4. /\ RawInv'
          /\ down' = {k \in Keys : Pressed(in, k, k \in held)}
          /\ armed /\ held = down =>
                down' \ down \subseteq pending' /\ pending \ pending' \subseteq fitted'
          /\ held = {} /\ AllReleased(in) => changed' = {} /\ down' = {}
      BY <1>2, <2>2, <2>6, <3>1, <3>2, <3>3, DetectKeepsInv
    <3>5. armed => held = down
      BY <2>3 DEF held
    <3>6. ~armed /\ armed' => held = {} /\ AllReleased(in)
      BY <2>1, <2>3 DEF held
    <3> QED BY <1>2, <3>4, <3>5, <3>6
  <2> QED BY <2>1, <2>4, <2>5, <2>6
<1> QED BY <1>3, <1>4 DEF PerformanceFrame, RawFrame

-----------------------------------------------------------------------------
(* Configuration edits invalidate and keep the thresholds ordered.         *)
LEMMA CommandKeepsInv ==
    ASSUME RawInv, RawCommand
    PROVE  RawInv' /\ ~armed'
<1>1. RawTypeOK /\ ThresholdsOrdered
  BY DEF RawInv
<1> USE RawConstants
<1>2. ASSUME NEW b \in BOOLEAN, RawEnable(b) PROVE RawInv' /\ ~armed'
  <2>1. RawInvalidate /\ enabled' \in BOOLEAN /\ UNCHANGED <<press, release, raw, observed>>
    BY <1>2 DEF RawEnable
  <2> QED BY <1>1, <2>1, InvalidateKeepsInv DEF RawTypeOK, ThresholdsOrdered, RawInvalidate
<1>3. ASSUME NEW k \in Keys, NEW p \in Presses, NEW r \in Releases, RawSet(k, p, r)
      PROVE  RawInv' /\ ~armed'
  <2>1. RawInvalidate /\ UNCHANGED <<enabled, raw, observed>>
    BY <1>3 DEF RawSet
  <2>2. p \in Nat /\ r \in Nat /\ 0 < p /\ p < r /\ r < MaxSample
    BY <1>3, SMT DEF RawSet, Accepts, RawConstants
  <2>3. press' = [press EXCEPT ![k] = p] /\ release' = [release EXCEPT ![k] = r]
    BY <1>3 DEF RawSet
  <2>4. press' \in [Keys -> Nat] /\ release' \in [Keys -> Nat]
    BY <1>1, <2>2, <2>3 DEF RawTypeOK
  <2>5. ThresholdsOrdered'
    BY <1>1, <2>2, <2>3 DEF RawTypeOK, ThresholdsOrdered
  <2> QED BY <1>1, <2>1, <2>4, <2>5, InvalidateKeepsInv DEF RawTypeOK, RawInvalidate
<1>4. ASSUME NEW p \in Presses, NEW r \in Releases, RawSetAll(p, r)
      PROVE  RawInv' /\ ~armed'
  <2>1. RawInvalidate /\ UNCHANGED <<enabled, raw, observed>>
    BY <1>4 DEF RawSetAll
  <2>2. p \in Nat /\ r \in Nat /\ 0 < p /\ p < r /\ r < MaxSample
    BY <1>4, SMT DEF RawSetAll, Accepts, RawConstants
  <2>3. press' = [k \in Keys |-> p] /\ release' = [k \in Keys |-> r]
    BY <1>4 DEF RawSetAll
  <2>4. press' \in [Keys -> Nat] /\ release' \in [Keys -> Nat] /\ ThresholdsOrdered'
    BY <2>2, <2>3 DEF ThresholdsOrdered
  <2> QED BY <1>1, <2>1, <2>4, InvalidateKeepsInv DEF RawTypeOK, RawInvalidate
<1>5. ASSUME NEW p \in Presses, RawSetPressAll(p)
      PROVE  RawInv' /\ ~armed'
  <2>1. RawInvalidate /\ UNCHANGED <<enabled, release, raw, observed>>
    BY <1>5 DEF RawSetPressAll
  <2>2. press' = [k \in Keys |-> IF p < release[k] THEN p ELSE release[k] - 1]
    BY <1>5 DEF RawSetPressAll
  <2>3. \A k \in Keys : /\ release[k] \in Nat /\ release[k] >= 2 /\ release[k] < MaxSample
                       /\ p \in Nat /\ 0 < p
    BY <1>1, <1>5, SMT DEF RawSetPressAll, RawConstants, RawTypeOK
  <2>4. \A k \in Keys : press'[k] \in Nat /\ 0 < press'[k] /\ press'[k] < release[k]
    BY <2>2, <2>3, SMT
  <2>5. press' \in [Keys -> Nat]
    BY <2>2, <2>4
  <2>6. ThresholdsOrdered'
    BY <2>1, <2>3, <2>4 DEF ThresholdsOrdered
  <2> QED BY <1>1, <2>1, <2>5, <2>6, InvalidateKeepsInv DEF RawTypeOK, RawInvalidate
<1>6. ASSUME RawMap PROVE RawInv' /\ ~armed'
  <2>1. RawInvalidate /\ UNCHANGED <<enabled, press, release, raw, observed>>
    BY <1>6 DEF RawMap, configVars
  <2> QED BY <1>1, <2>1, InvalidateKeepsInv DEF RawTypeOK, ThresholdsOrdered, RawInvalidate
<1> QED BY <1>2, <1>3, <1>4, <1>5, <1>6 DEF RawCommand

(* The frames of a menu and the other disturbances of the input.           *)
LEMMA ObserveKeepsInv ==
    ASSUME RawInv, NEW in \in Readbacks, NEW ok \in BOOLEAN, ObserveFrame(in, ok)
    PROVE  RawInv' /\ ~armed'
<1>1. /\ RawTypeOK /\ ThresholdsOrdered /\ SchmittSettled
      /\ down \cup pending \cup (Keys \ ready) \subseteq velocityWork
      /\ \A k \in pending : count[k] >= 1
  BY DEF RawInv
<1>2. /\ raw' = in /\ UNCHANGED configVars /\ UNCHANGED observed /\ observed
      /\ in \in [Keys -> Samples \cup {0}]
  BY DEF ObserveFrame, RawObserve, Readbacks
<1>3. CASE ~Usable(in, ok) /\ RawInvalidate
  BY <1>1, <1>2, <1>3, InvalidateKeepsInv DEF RawTypeOK, ThresholdsOrdered, configVars, RawInvalidate
<1>4. CASE Usable(in, ok)
  <2>1. /\ armed' = FALSE /\ valid' = TRUE /\ changed' = {}
        /\ neutralIdle' = AllReleased(in)
        /\ \/ /\ velocityWork' = Keys /\ down' = {} /\ ready' = {}
              /\ fitted' = {} /\ pending' = {} /\ count' = [k \in Keys |-> 0]
           \/ UNCHANGED <<down, fitVars>>
    BY <1>4 DEF ObserveFrame, RawObserve
  <2>2. 0 \in 0 .. Window - 1 /\ AllReleased(in) \in BOOLEAN
    BY RawConstants, SMT DEF RawConstants, AllReleased
  <2>3. RawTypeOK'
    BY <1>1, <1>2, <2>1, <2>2 DEF RawTypeOK, configVars, fitVars
  <2>4. (down \cup pending \cup (Keys \ ready) \subseteq velocityWork)'
    BY <1>1, <2>1 DEF fitVars
  <2>5. (\A k \in pending : count[k] >= 1)'
    BY <1>1, <2>1 DEF fitVars
  <2> QED BY <1>1, <1>2, <2>1, <2>3, <2>4, <2>5
          DEF RawInv, ThresholdsOrdered, SchmittSettled, configVars
<1> QED BY <1>3, <1>4 DEF ObserveFrame, RawObserve

LEMMA ReleaseInputKeepsInv ==
    ASSUME RawInv, NEW in \in Readbacks, ReleaseInput(in)
    PROVE  RawInv' /\ ~armed'
BY InvalidateKeepsInv
   DEF RawInv, ReleaseInput, Readbacks, RawTypeOK, ThresholdsOrdered, configVars, RawInvalidate

LEMMA FaultKeepsInv ==
    ASSUME RawInv, InputFault
    PROVE  RawInv' /\ ~armed'
BY InvalidateKeepsInv
   DEF RawInv, InputFault, RawTypeOK, ThresholdsOrdered, configVars, RawInvalidate

LEMMA TakeInputKeepsInv ==
    ASSUME RawInv, TakeInput
    PROVE  RawInv' /\ (armed' => armed /\ UNCHANGED <<raw, edgeVars, fitVars, configVars>>)
<1>1. CASE RawInvalidate
  BY <1>1, InvalidateKeepsInv
     DEF RawInv, TakeInput, RawTypeOK, ThresholdsOrdered, configVars, RawInvalidate
<1>2. CASE UNCHANGED <<edgeVars, fitVars>>
  BY <1>2
     DEF RawInv, TakeInput, RawTypeOK, ThresholdsOrdered, SchmittSettled, NothingLeft,
         configVars, edgeVars, fitVars
<1> QED BY <1>1, <1>2 DEF TakeInput

(* While the keyboard is armed, a state already satisfies the Schmitt      *)
(* trigger: applying it again changes nothing.                             *)
LEMMA SettledIsFixed ==
    ASSUME RawInv, armed
    PROVE  down = {k \in Keys : Pressed(raw, k, k \in down)}
<1>1. /\ \A k \in down : raw[k] <= release[k]
      /\ \A k \in Keys \ down : raw[k] >= press[k]
      /\ down \in SUBSET Keys
  BY DEF RawInv, SchmittSettled, RawTypeOK
<1>2. \A k \in Keys : raw[k] \in Nat /\ press[k] \in Nat
  <2>1. raw \in [Keys -> Samples \cup {0}] /\ press \in [Keys -> Nat] /\ Samples \subseteq Nat
    BY RawConstants DEF RawConstants, RawInv, RawTypeOK
  <2>2. \A r \in Samples \cup {0} : r \in Nat
    BY <2>1
  <2> QED BY <2>1, <2>2
<1>3. \A k \in Keys : k \in down <=> Pressed(raw, k, k \in down)
  BY <1>1, <1>2, SMT DEF Pressed
<1> QED BY <1>1, <1>3

-----------------------------------------------------------------------------
LEMMA NextKeepsRawInv == RawInv /\ [RawNext]_rawVars => RawInv'
<1> SUFFICES ASSUME RawInv, [RawNext]_rawVars PROVE RawInv'
  OBVIOUS
<1>1. CASE UNCHANGED rawVars
  BY <1>1
     DEF RawInv, RawTypeOK, ThresholdsOrdered, SchmittSettled, NothingLeft,
         rawVars, configVars, edgeVars, fitVars
<1>2. CASE RawNext
  BY <1>2, FrameKeepsInv, ObserveKeepsInv, ReleaseInputKeepsInv, TakeInputKeepsInv,
     FaultKeepsInv, CommandKeepsInv DEF RawNext
<1> QED BY <1>1, <1>2

(* RawInv holds in every state of keyboard_raw.c.                          *)
THEOREM RawInvariant == RawSpec => []RawInv
BY InitRawInv, NextKeepsRawInv, PTL DEF RawSpec

(* Every variable of the acquisition keeps its type; in particular no fit  *)
(* ever counts a whole window.                                             *)
THEOREM RawTypeCorrect == RawSpec => []RawTypeOK
<1>1. RawInv => RawTypeOK
  BY DEF RawInv
<1> QED BY <1>1, RawInvariant, PTL

(* keyboard_raw_frame's worklist names every key with something left to do,*)
(* and the idle shortcut is taken only when nothing is.                    *)
THEOREM WorklistCorrect == RawSpec => []WorklistCovers
<1>1. RawInv => WorklistCovers
  BY DEF RawInv, WorklistCovers, NothingLeft
<1> QED BY <1>1, RawInvariant, PTL

(* No sequence of accepted edits inverts a Schmitt pair or puts a release  *)
(* threshold out of reach.                                                 *)
THEOREM ThresholdsCorrect == RawSpec => []ThresholdsOrdered
<1>1. RawInv => ThresholdsOrdered
  BY DEF RawInv
<1> QED BY <1>1, RawInvariant, PTL

(* What one step may do while armed, and when it arms.                     *)
LEMMA StepProperties ==
    ASSUME RawInv, [RawNext]_rawVars
    PROVE  /\ armed /\ armed' =>
                 /\ down' = {k \in Keys : Pressed(raw', k, k \in down)}
                 /\ down' \ down \subseteq pending'
                 /\ pending \ pending' \subseteq fitted'
           /\ ~armed /\ armed' => changed' = {} /\ down' = {}
<1> DEFINE Goal == /\ armed /\ armed' =>
                         /\ down' = {k \in Keys : Pressed(raw', k, k \in down)}
                         /\ down' \ down \subseteq pending'
                         /\ pending \ pending' \subseteq fitted'
                   /\ ~armed /\ armed' => changed' = {} /\ down' = {}
<1>1. ASSUME armed' => armed /\ UNCHANGED <<raw, edgeVars, fitVars, configVars>> PROVE Goal
  <2>1. armed' => UNCHANGED <<raw, armed, down, pending>> /\ armed
    BY <1>1 DEF edgeVars, fitVars
  <2>2. armed => down = {k \in Keys : Pressed(raw, k, k \in down)}
    BY SettledIsFixed
  <2> QED BY <2>1, <2>2
<1>2. ASSUME UNCHANGED rawVars PROVE Goal
  <2>1. armed' => armed /\ UNCHANGED <<raw, edgeVars, fitVars, configVars>>
    BY <1>2 DEF rawVars, edgeVars
  <2> QED BY <1>1, <2>1
<1>3. ASSUME NEW in \in Readbacks, NEW ok \in BOOLEAN, PerformanceFrame(in, ok) PROVE Goal
  BY <1>3, FrameKeepsInv
<1>4. ASSUME TakeInput PROVE Goal
  BY <1>1, <1>4, TakeInputKeepsInv
<1>5. ASSUME ~armed' PROVE Goal
  BY <1>5
<1>6. ASSUME NEW in \in Readbacks, NEW ok \in BOOLEAN, ObserveFrame(in, ok) PROVE Goal
  BY <1>5, <1>6, ObserveKeepsInv
<1>7. ASSUME NEW in \in Readbacks, ReleaseInput(in) PROVE Goal
  BY <1>5, <1>7, ReleaseInputKeepsInv
<1>8. ASSUME InputFault \/ RawCommand PROVE Goal
  BY <1>5, <1>8, FaultKeepsInv, CommandKeepsInv
<1>9. Goal
  <2> HIDE DEF Goal
  <2> QED BY <1>2, <1>3, <1>4, <1>6, <1>7, <1>8 DEF RawNext
<1> QED BY <1>9

(* The worklist and the idle shortcut are invisible: while output stays    *)
(* armed a frame finds what a full scan of the keyboard would have found.  *)
THEOREM FullScanCorrect == RawSpec => FullScanEquivalent
<1>1. RawInv /\ [RawNext]_rawVars =>
        [armed /\ armed' => down' = {k \in Keys : Pressed(raw', k, k \in down)}]_rawVars
  BY StepProperties
<1> QED BY <1>1, RawInvariant, PTL DEF RawSpec, FullScanEquivalent

(* Every strike opens a fit and every fit that closes has measured.        *)
THEOREM StrikesCorrect == RawSpec => StrikesAreMeasured
<1>1. RawInv /\ [RawNext]_rawVars =>
        [armed /\ armed' => /\ down' \ down \subseteq pending'
                           /\ pending \ pending' \subseteq fitted']_rawVars
  BY StepProperties
<1> QED BY <1>1, RawInvariant, PTL DEF RawSpec, StrikesAreMeasured

(* Arming never reports an edge.                                           *)
THEOREM ArmingCorrect == RawSpec => ArmingIsSilent
<1>1. RawInv /\ [RawNext]_rawVars =>
        [~armed /\ armed' => changed' = {} /\ down' = {}]_rawVars
  BY StepProperties
<1> QED BY <1>1, RawInvariant, PTL DEF RawSpec, ArmingIsSilent
=============================================================================
