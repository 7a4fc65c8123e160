------------------------ MODULE SessionRunnerProofs ------------------------
(***************************************************************************)
(* No phase of a session is skipped, for any number of phases and          *)
(* participants, whichever hooks fail and however the calls interleave.    *)
(* The runner holds its lock for one assignment at a time, so the argument *)
(* is about what each call in progress holds: Calls says that the phase a  *)
(* call is about to exit or enter has only exited phases before it.  That  *)
(* is preserved by the steps of other calls because a phase, once exited,  *)
(* stays exited.                                                           *)
(***************************************************************************)
EXTENDS SessionRunner, TLAPS

IInv == TypeOK /\ InOrder /\ Calls

\* Counting one more return keeps the counts of the other phases and makes this
\* phase's count positive.
LEMMA MoreFacts ==
  ASSUME NEW c \in [Phase -> 0 .. 2], NEW p \in Phase
  PROVE  /\ More(c, p) \in [Phase -> 0 .. 2]
         /\ More(c, p)[p] # 0
         /\ \A q \in Phase : q # p => More(c, p)[q] = c[q]
  BY DEF More

\* A new session has no phase before its first.
LEMMA BeginSessionPreserves ==
  ASSUME IInv, BeginSession
  PROVE  IInv'
  BY RunnerAssumption, MoreFacts DEF IInv, TypeOK, Label, InOrder, Calls, CallOK,
     Begun, Before, Phase, Actor, trackerVars, callVars, Goto, Return, Panic,
     MayCall, BeginSession

\* The first phase is entered or the session dropped.
LEMMA EnterFirstPreserves ==
  ASSUME IInv, EnterFirst
  PROVE  IInv'
<1>1. Trigger \in Actor
  BY DEF Actor
<1>2. TypeOK
  BY DEF IInv
<1>3. /\ entered' \in [Phase -> 0 .. 2] /\ exited' \in [Phase -> 0 .. 2]
      /\ \A q \in Phase : exited[q] # 0 => exited'[q] # 0
      /\ \A q \in Phase : entered'[q] # 0 => entered[q] # 0 \/ Before(q)
  <2>1. /\ entered \in [Phase -> 0 .. 2]
        /\ exited \in [Phase -> 0 .. 2] /\ exited' = exited
    BY <1>2 DEF TypeOK, EnterFirst
  <2>2. 1 \in Phase /\ Before(1)
    BY <1>1, RunnerAssumption DEF IInv, Calls, CallOK, Before, Phase, EnterFirst
  <2>3. entered' = entered \/ entered' = More(entered, 1)
    BY DEF EnterFirst
  <2>4. CASE entered' = entered
    BY <2>1, <2>4
  <2>5. CASE entered' = More(entered, 1)
    BY <2>1, <2>2, <2>5, MoreFacts
  <2> QED
    BY <2>3, <2>4, <2>5
<1>4. TypeOK'
  <2>1. pc' \in [Actor -> Label]
    BY <1>1, <1>2 DEF IInv, trackerVars, Goto, Return, EnterFirst, TypeOK, Label
  <2>2. at' \in [Actor -> 0 .. N]
    <3>1. at \in [Actor -> 0 .. N] /\ at[Trigger] \in 0 .. N /\ current \in 0 .. N
      BY <1>1, <1>2 DEF TypeOK
    <3>2. \/ at' = [at EXCEPT ![Trigger] = 1]
          \/ at' = [at EXCEPT ![Trigger] = 0]
      BY <1>1, <3>1, RunnerAssumption DEF IInv, trackerVars, Goto, Return,
         EnterFirst, Calls, CallOK, Phase
    <3> QED
      BY <1>1, <3>1, <3>2, RunnerAssumption DEF Phase
  <2>3. hop' \in [Actor -> 0 .. N + 1]
    <3>1. hop \in [Actor -> 0 .. N + 1] /\ hop[Trigger] \in 0 .. N + 1
      BY <1>1, <1>2 DEF TypeOK
    <3>2. \/ hop' = hop
          \/ hop' = [hop EXCEPT ![Trigger] = 0]
      BY <1>1, <3>1 DEF IInv, trackerVars, Goto, Return, EnterFirst, Calls, CallOK
    <3> QED
      BY <1>1, <3>1, <3>2, RunnerAssumption
  <2>4. /\ tracked' \in BOOLEAN /\ state' \in 0 .. N /\ current' \in 0 .. N
        /\ got' \in [Phase -> SUBSET Sender]
        /\ invited' \in BOOLEAN /\ crashed' \in BOOLEAN
    BY <1>1, <1>2, RunnerAssumption DEF IInv, trackerVars, Goto, Return, EnterFirst,
       TypeOK, Calls, CallOK, Phase
  <2> QED
    BY <1>3, <2>1, <2>2, <2>3, <2>4 DEF TypeOK
<1>5. InOrder'
  <2>1. \A q \in Phase : entered'[q] # 0 => Before(q)
    BY <1>3 DEF IInv, InOrder
  <2>2. \A q \in Phase : current' = q => Before(q)
    BY <1>1, <1>2, RunnerAssumption DEF IInv, trackerVars, Goto, Return, EnterFirst,
       TypeOK, InOrder, Calls, CallOK, Before, Phase
  <2>3. (Begun' /\ current' = 0) \/ crashed' => Before(N + 1)
    BY <1>1, <1>2, RunnerAssumption DEF IInv, trackerVars, Goto, Return, EnterFirst,
       TypeOK, InOrder, Calls, CallOK, Begun, Before, Phase, Actor
  <2>4. \A q : Before(q) => Before(q)'
    BY <1>3 DEF Before
  <2> QED
    BY <2>1, <2>2, <2>3, <2>4 DEF InOrder
<1>6. Calls'
  <2>1. ASSUME NEW b \in Actor, b # Trigger
        PROVE  pc'[b] = pc[b] /\ at'[b] = at[b] /\ hop'[b] = hop[b]
    BY <1>2, <2>1 DEF IInv, trackerVars, Goto, Return, EnterFirst, TypeOK
  <2>2. ASSUME NEW b \in Actor
        PROVE  CallOK(b)'
    <3>1. CASE b = Trigger
      BY <1>1, <1>2, <1>3, <3>1, RunnerAssumption DEF IInv, trackerVars, Goto,
         Return, EnterFirst, TypeOK, InOrder, Calls, CallOK, Begun, Before, Phase
    <3>2. CASE b # Trigger
      BY <1>2, <1>3, <2>1, <3>2 DEF IInv, TypeOK, Calls, CallOK, Before
    <3> QED
      BY <3>1, <3>2
  <2>3. Begun' \/ (~invited' /\ \A t \in Sender : pc'[t] = "idle")
    BY <1>1, <1>2, RunnerAssumption DEF IInv, trackerVars, Goto, Return, EnterFirst,
       TypeOK, Calls, CallOK, Begun, Actor
  <2> QED
    BY <2>2, <2>3 DEF Calls
<1> QED
  BY <1>4, <1>5, <1>6 DEF IInv

\* Inviting touches nothing in the runner.
LEMMA InvitePreserves ==
  ASSUME IInv, Invite
  PROVE  IInv'
  BY RunnerAssumption, MoreFacts DEF IInv, TypeOK, Label, InOrder, Calls, CallOK,
     Begun, Before, Phase, Actor, trackerVars, callVars, Goto, Return, Panic,
     MayCall, Invite

\* Starting the walk to the target.
LEMMA AdvanceToStatePreserves ==
  ASSUME IInv, AdvanceToState
  PROVE  IInv'
  BY RunnerAssumption, MoreFacts DEF IInv, TypeOK, Label, InOrder, Calls, CallOK,
     Begun, Before, Phase, Actor, trackerVars, callVars, Goto, Return, Panic,
     MayCall, AdvanceToState

\* Reading the state at the head of the walk.
LEMMA ReadStatePreserves ==
  ASSUME IInv, ReadState
  PROVE  IInv'
  BY RunnerAssumption, MoreFacts DEF IInv, TypeOK, Label, InOrder, Calls, CallOK,
     Begun, Before, Phase, Actor, trackerVars, callVars, Goto, Return, Panic,
     MayCall, ReadState

\* The phase to exit is the current one, so all before it were exited.
LEMMA ReadCurrentPreserves ==
  ASSUME IInv, ReadCurrent
  PROVE  IInv'
  BY RunnerAssumption, MoreFacts DEF IInv, TypeOK, Label, InOrder, Calls, CallOK,
     Begun, Before, Phase, Actor, trackerVars, callVars, Goto, Return, Panic,
     MayCall, ReadCurrent

\* The tracker is dropped; calls in progress go on with it.
LEMMA EndSessionPreserves ==
  ASSUME IInv, EndSession
  PROVE  IInv'
  BY RunnerAssumption, MoreFacts DEF IInv, TypeOK, Label, InOrder, Calls, CallOK,
     Begun, Before, Phase, Actor, trackerVars, callVars, Goto, Return, Panic,
     MayCall, EndSession

\* A message comes only after the invitation, so the session has begun.
LEMMA ReceivePreserves ==
  ASSUME IInv, NEW s \in Sender, NEW p \in Consuming, Receive(s, p)
  PROVE  IInv'
<1>1. s \in Actor
  BY DEF Actor
<1>2. TypeOK
  BY DEF IInv
<1>3. /\ entered' \in [Phase -> 0 .. 2] /\ exited' \in [Phase -> 0 .. 2]
      /\ \A q \in Phase : exited[q] # 0 => exited'[q] # 0
      /\ \A q \in Phase : entered'[q] # 0 => entered[q] # 0 \/ Before(q)
  BY <1>2 DEF TypeOK, Receive
<1>4. TypeOK'
  <2>1. pc' \in [Actor -> Label]
    BY <1>1, <1>2 DEF IInv, trackerVars, Goto, Receive, TypeOK, Label
  <2>2. at' \in [Actor -> 0 .. N]
    <3>1. at \in [Actor -> 0 .. N] /\ at[s] \in 0 .. N /\ current \in 0 .. N
      BY <1>1, <1>2 DEF TypeOK
    <3>2. at' = [at EXCEPT ![s] = p]
      BY <1>1, <3>1, RunnerAssumption DEF IInv, trackerVars, Goto, Receive, Calls,
         CallOK, Phase
    <3> QED
      BY <1>1, <3>1, <3>2, RunnerAssumption DEF Phase
  <2>3. hop' \in [Actor -> 0 .. N + 1]
    <3>1. hop \in [Actor -> 0 .. N + 1] /\ hop[s] \in 0 .. N + 1
      BY <1>1, <1>2 DEF TypeOK
    <3>2. hop' = hop
      BY <1>1, <3>1 DEF IInv, trackerVars, Goto, Receive, Calls, CallOK
    <3> QED
      BY <1>1, <3>1, <3>2, RunnerAssumption
  <2>4. /\ tracked' \in BOOLEAN /\ state' \in 0 .. N /\ current' \in 0 .. N
        /\ got' \in [Phase -> SUBSET Sender]
        /\ invited' \in BOOLEAN /\ crashed' \in BOOLEAN
    BY <1>1, <1>2, RunnerAssumption DEF IInv, trackerVars, Goto, Receive, TypeOK,
       Calls, CallOK, Phase
  <2> QED
    BY <1>3, <2>1, <2>2, <2>3, <2>4 DEF TypeOK
<1>5. InOrder'
  <2>1. \A q \in Phase : entered'[q] # 0 => Before(q)
    BY <1>3 DEF IInv, InOrder
  <2>2. \A q \in Phase : current' = q => Before(q)
    BY <1>1, <1>2, RunnerAssumption DEF IInv, trackerVars, Goto, Receive, TypeOK,
       InOrder, Calls, CallOK, Before, Phase
  <2>3. (Begun' /\ current' = 0) \/ crashed' => Before(N + 1)
    BY <1>1, <1>2, RunnerAssumption DEF IInv, trackerVars, Goto, Receive, TypeOK,
       InOrder, Calls, CallOK, Begun, Before, Phase, Actor
  <2>4. \A q : Before(q) => Before(q)'
    BY <1>3 DEF Before
  <2> QED
    BY <2>1, <2>2, <2>3, <2>4 DEF InOrder
<1>6. Calls'
  <2>1. ASSUME NEW b \in Actor, b # s
        PROVE  pc'[b] = pc[b] /\ at'[b] = at[b] /\ hop'[b] = hop[b]
    BY <1>2, <2>1 DEF IInv, trackerVars, Goto, Receive, TypeOK
  <2>2. ASSUME NEW b \in Actor
        PROVE  CallOK(b)'
    <3>1. CASE b = s
      BY <1>1, <1>2, <1>3, <3>1, RunnerAssumption DEF IInv, trackerVars, Goto,
         Receive, TypeOK, InOrder, Calls, CallOK, Begun, Before, Phase
    <3>2. CASE b # s
      BY <1>2, <1>3, <2>1, <3>2 DEF IInv, TypeOK, Calls, CallOK, Before
    <3> QED
      BY <3>1, <3>2
  <2>3. Begun' \/ (~invited' /\ \A t \in Sender : pc'[t] = "idle")
    BY <1>1, <1>2, RunnerAssumption DEF IInv, trackerVars, Goto, Receive, TypeOK,
       Calls, CallOK, Begun, Actor
  <2> QED
    BY <2>2, <2>3 DEF Calls
<1> QED
  BY <1>4, <1>5, <1>6 DEF IInv

\* A session without a current phase has exited all of them.
LEMMA DispatchPreserves ==
  ASSUME IInv, NEW s \in Sender, Dispatch(s)
  PROVE  IInv'
<1>1. s \in Actor
  BY DEF Actor
<1>2. TypeOK
  BY DEF IInv
<1>3. /\ entered' \in [Phase -> 0 .. 2] /\ exited' \in [Phase -> 0 .. 2]
      /\ \A q \in Phase : exited[q] # 0 => exited'[q] # 0
      /\ \A q \in Phase : entered'[q] # 0 => entered[q] # 0 \/ Before(q)
  BY <1>2 DEF TypeOK, Dispatch
<1>4. TypeOK'
  <2>1. pc' \in [Actor -> Label]
    BY <1>1, <1>2 DEF IInv, trackerVars, Goto, Return, Panic, callVars, Dispatch,
       TypeOK, Label
  <2>2. at' \in [Actor -> 0 .. N]
    <3>1. at \in [Actor -> 0 .. N] /\ at[s] \in 0 .. N /\ current \in 0 .. N
      BY <1>1, <1>2 DEF TypeOK
    <3>2. \/ at' = at
          \/ at' = [at EXCEPT ![s] = at[s]]
          \/ at' = [at EXCEPT ![s] = 0]
      BY <1>1, <3>1, RunnerAssumption DEF IInv, trackerVars, Goto, Return, Panic,
         callVars, Dispatch, Calls, CallOK, Phase
    <3> QED
      BY <1>1, <3>1, <3>2, RunnerAssumption DEF Phase
  <2>3. hop' \in [Actor -> 0 .. N + 1]
    <3>1. hop \in [Actor -> 0 .. N + 1] /\ hop[s] \in 0 .. N + 1
      BY <1>1, <1>2 DEF TypeOK
    <3>2. \/ hop' = hop
          \/ hop' = [hop EXCEPT ![s] = 0]
      BY <1>1, <3>1 DEF IInv, trackerVars, Goto, Return, Panic, callVars, Dispatch,
         Calls, CallOK
    <3> QED
      BY <1>1, <3>1, <3>2, RunnerAssumption
  <2>4. /\ tracked' \in BOOLEAN /\ state' \in 0 .. N /\ current' \in 0 .. N
        /\ got' \in [Phase -> SUBSET Sender]
        /\ invited' \in BOOLEAN /\ crashed' \in BOOLEAN
    BY <1>1, <1>2, RunnerAssumption DEF IInv, trackerVars, Goto, Return, Panic,
       callVars, Dispatch, TypeOK, Calls, CallOK, Phase
  <2> QED
    BY <1>3, <2>1, <2>2, <2>3, <2>4 DEF TypeOK
<1>5. InOrder'
  <2>1. \A q \in Phase : entered'[q] # 0 => Before(q)
    BY <1>3 DEF IInv, InOrder
  <2>2. \A q \in Phase : current' = q => Before(q)
    BY <1>1, <1>2, RunnerAssumption DEF IInv, trackerVars, Goto, Return, Panic,
       callVars, Dispatch, TypeOK, InOrder, Calls, CallOK, Before, Phase
  <2>3. (Begun' /\ current' = 0) \/ crashed' => Before(N + 1)
    BY <1>1, <1>2, RunnerAssumption DEF IInv, trackerVars, Goto, Return, Panic,
       callVars, Dispatch, TypeOK, InOrder, Calls, CallOK, Begun, Before, Phase,
       Actor
  <2>4. \A q : Before(q) => Before(q)'
    BY <1>3 DEF Before
  <2> QED
    BY <2>1, <2>2, <2>3, <2>4 DEF InOrder
<1>6. Calls'
  <2>1. ASSUME NEW b \in Actor, b # s
        PROVE  pc'[b] = pc[b] /\ at'[b] = at[b] /\ hop'[b] = hop[b]
    BY <1>2, <2>1 DEF IInv, trackerVars, Goto, Return, Panic, callVars, Dispatch,
       TypeOK
  <2>2. ASSUME NEW b \in Actor
        PROVE  CallOK(b)'
    <3>1. CASE b = s
      BY <1>1, <1>2, <1>3, <3>1, RunnerAssumption DEF IInv, trackerVars, Goto,
         Return, Panic, callVars, Dispatch, TypeOK, InOrder, Calls, CallOK, Begun,
         Before, Phase
    <3>2. CASE b # s
      BY <1>2, <1>3, <2>1, <3>2 DEF IInv, TypeOK, Calls, CallOK, Before
    <3> QED
      BY <3>1, <3>2
  <2>3. Begun' \/ (~invited' /\ \A t \in Sender : pc'[t] = "idle")
    BY <1>1, <1>2, RunnerAssumption DEF IInv, trackerVars, Goto, Return, Panic,
       callVars, Dispatch, TypeOK, Calls, CallOK, Begun, Actor
  <2> QED
    BY <2>2, <2>3 DEF Calls
<1> QED
  BY <1>4, <1>5, <1>6 DEF IInv

\* A message is accumulated.
LEMMA OnMessagePreserves ==
  ASSUME IInv, NEW s \in Sender, OnMessage(s)
  PROVE  IInv'
<1>1. s \in Actor
  BY DEF Actor
<1>2. TypeOK
  BY DEF IInv
<1>3. /\ entered' \in [Phase -> 0 .. 2] /\ exited' \in [Phase -> 0 .. 2]
      /\ \A q \in Phase : exited[q] # 0 => exited'[q] # 0
      /\ \A q \in Phase : entered'[q] # 0 => entered[q] # 0 \/ Before(q)
  BY <1>2 DEF TypeOK, OnMessage
<1>4. TypeOK'
  <2>1. pc' \in [Actor -> Label]
    BY <1>1, <1>2 DEF IInv, trackerVars, Goto, Return, OnMessage, TypeOK, Label
  <2>2. at' \in [Actor -> 0 .. N]
    <3>1. at \in [Actor -> 0 .. N] /\ at[s] \in 0 .. N /\ current \in 0 .. N
      BY <1>1, <1>2 DEF TypeOK
    <3>2. \/ at' = [at EXCEPT ![s] = at[s]]
          \/ at' = [at EXCEPT ![s] = 0]
      BY <1>1, <3>1, RunnerAssumption DEF IInv, trackerVars, Goto, Return,
         OnMessage, Calls, CallOK, Phase
    <3> QED
      BY <1>1, <3>1, <3>2, RunnerAssumption DEF Phase
  <2>3. hop' \in [Actor -> 0 .. N + 1]
    <3>1. hop \in [Actor -> 0 .. N + 1] /\ hop[s] \in 0 .. N + 1
      BY <1>1, <1>2 DEF TypeOK
    <3>2. \/ hop' = hop
          \/ hop' = [hop EXCEPT ![s] = 0]
      BY <1>1, <3>1 DEF IInv, trackerVars, Goto, Return, OnMessage, Calls, CallOK
    <3> QED
      BY <1>1, <3>1, <3>2, RunnerAssumption
  <2>4. got' \in [Phase -> SUBSET Sender]
    <3>1. got' = got \/ got' = [got EXCEPT ![at[s]] = @ \cup {s}]
      BY DEF OnMessage
    <3> QED
      BY <1>2, <3>1 DEF TypeOK
  <2>5. /\ tracked' \in BOOLEAN /\ state' \in 0 .. N /\ current' \in 0 .. N
        /\ invited' \in BOOLEAN /\ crashed' \in BOOLEAN
    BY <1>1, <1>2, RunnerAssumption DEF IInv, trackerVars, Goto, Return, OnMessage,
       TypeOK, Calls, CallOK, Phase
  <2> QED
    BY <1>3, <2>1, <2>2, <2>3, <2>4, <2>5 DEF TypeOK
<1>5. InOrder'
  <2>1. \A q \in Phase : entered'[q] # 0 => Before(q)
    BY <1>3 DEF IInv, InOrder
  <2>2. \A q \in Phase : current' = q => Before(q)
    BY <1>1, <1>2, RunnerAssumption DEF IInv, trackerVars, Goto, Return, OnMessage,
       TypeOK, InOrder, Calls, CallOK, Before, Phase
  <2>3. (Begun' /\ current' = 0) \/ crashed' => Before(N + 1)
    BY <1>1, <1>2, RunnerAssumption DEF IInv, trackerVars, Goto, Return, OnMessage,
       TypeOK, InOrder, Calls, CallOK, Begun, Before, Phase, Actor
  <2>4. \A q : Before(q) => Before(q)'
    BY <1>3 DEF Before
  <2> QED
    BY <2>1, <2>2, <2>3, <2>4 DEF InOrder
<1>6. Calls'
  <2>1. ASSUME NEW b \in Actor, b # s
        PROVE  pc'[b] = pc[b] /\ at'[b] = at[b] /\ hop'[b] = hop[b]
    BY <1>2, <2>1 DEF IInv, trackerVars, Goto, Return, OnMessage, TypeOK
  <2>2. ASSUME NEW b \in Actor
        PROVE  CallOK(b)'
    <3>1. CASE b = s
      BY <1>1, <1>2, <1>3, <3>1, RunnerAssumption DEF IInv, trackerVars, Goto,
         Return, OnMessage, TypeOK, InOrder, Calls, CallOK, Begun, Before, Phase
    <3>2. CASE b # s
      BY <1>2, <1>3, <2>1, <3>2 DEF IInv, TypeOK, Calls, CallOK, Before
    <3> QED
      BY <3>1, <3>2
  <2>3. Begun' \/ (~invited' /\ \A t \in Sender : pc'[t] = "idle")
    BY <1>1, <1>2, RunnerAssumption DEF IInv, trackerVars, Goto, Return, OnMessage,
       TypeOK, Calls, CallOK, Begun, Actor
  <2> QED
    BY <2>2, <2>3 DEF Calls
<1> QED
  BY <1>4, <1>5, <1>6 DEF IInv

\* A complete phase is advanced.
LEMMA CheckPreserves ==
  ASSUME IInv, NEW s \in Sender, Check(s)
  PROVE  IInv'
<1>1. s \in Actor
  BY DEF Actor
<1>2. TypeOK
  BY DEF IInv
<1>3. /\ entered' \in [Phase -> 0 .. 2] /\ exited' \in [Phase -> 0 .. 2]
      /\ \A q \in Phase : exited[q] # 0 => exited'[q] # 0
      /\ \A q \in Phase : entered'[q] # 0 => entered[q] # 0 \/ Before(q)
  BY <1>2 DEF TypeOK, Check
<1>4. TypeOK'
  <2>1. pc' \in [Actor -> Label]
    BY <1>1, <1>2 DEF IInv, trackerVars, Goto, Return, Check, TypeOK, Label
  <2>2. at' \in [Actor -> 0 .. N]
    <3>1. at \in [Actor -> 0 .. N] /\ at[s] \in 0 .. N /\ current \in 0 .. N
      BY <1>1, <1>2 DEF TypeOK
    <3>2. at' = [at EXCEPT ![s] = 0]
      BY <1>1, <3>1, RunnerAssumption DEF IInv, trackerVars, Goto, Return, Check,
         Calls, CallOK, Phase
    <3> QED
      BY <1>1, <3>1, <3>2, RunnerAssumption DEF Phase
  <2>3. hop' \in [Actor -> 0 .. N + 1]
    <3>1. hop \in [Actor -> 0 .. N + 1] /\ hop[s] \in 0 .. N + 1
      BY <1>1, <1>2 DEF TypeOK
    <3>2. \/ hop' = hop
          \/ hop' = [hop EXCEPT ![s] = 0]
      BY <1>1, <3>1 DEF IInv, trackerVars, Goto, Return, Check, Calls, CallOK
    <3> QED
      BY <1>1, <3>1, <3>2, RunnerAssumption
  <2>4. /\ tracked' \in BOOLEAN /\ state' \in 0 .. N /\ current' \in 0 .. N
        /\ got' \in [Phase -> SUBSET Sender]
        /\ invited' \in BOOLEAN /\ crashed' \in BOOLEAN
    BY <1>1, <1>2, RunnerAssumption DEF IInv, trackerVars, Goto, Return, Check,
       TypeOK, Calls, CallOK, Phase
  <2> QED
    BY <1>3, <2>1, <2>2, <2>3, <2>4 DEF TypeOK
<1>5. InOrder'
  <2>1. \A q \in Phase : entered'[q] # 0 => Before(q)
    BY <1>3 DEF IInv, InOrder
  <2>2. \A q \in Phase : current' = q => Before(q)
    BY <1>1, <1>2, RunnerAssumption DEF IInv, trackerVars, Goto, Return, Check,
       TypeOK, InOrder, Calls, CallOK, Before, Phase
  <2>3. (Begun' /\ current' = 0) \/ crashed' => Before(N + 1)
    BY <1>1, <1>2, RunnerAssumption DEF IInv, trackerVars, Goto, Return, Check,
       TypeOK, InOrder, Calls, CallOK, Begun, Before, Phase, Actor
  <2>4. \A q : Before(q) => Before(q)'
    BY <1>3 DEF Before
  <2> QED
    BY <2>1, <2>2, <2>3, <2>4 DEF InOrder
<1>6. Calls'
  <2>1. ASSUME NEW b \in Actor, b # s
        PROVE  pc'[b] = pc[b] /\ at'[b] = at[b] /\ hop'[b] = hop[b]
    BY <1>2, <2>1 DEF IInv, trackerVars, Goto, Return, Check, TypeOK
  <2>2. ASSUME NEW b \in Actor
        PROVE  CallOK(b)'
    <3>1. CASE b = s
      BY <1>1, <1>2, <1>3, <3>1, RunnerAssumption DEF IInv, trackerVars, Goto,
         Return, Check, TypeOK, InOrder, Calls, CallOK, Begun, Before, Phase
    <3>2. CASE b # s
      BY <1>2, <1>3, <2>1, <3>2 DEF IInv, TypeOK, Calls, CallOK, Before
    <3> QED
      BY <3>1, <3>2
  <2>3. Begun' \/ (~invited' /\ \A t \in Sender : pc'[t] = "idle")
    BY <1>1, <1>2, RunnerAssumption DEF IInv, trackerVars, Goto, Return, Check,
       TypeOK, Calls, CallOK, Begun, Actor
  <2> QED
    BY <2>2, <2>3 DEF Calls
<1> QED
  BY <1>4, <1>5, <1>6 DEF IInv

\* The phase to exit is read again, or there is none.
LEMMA AdvancePreserves ==
  ASSUME IInv, NEW s \in Sender, Advance(s)
  PROVE  IInv'
<1>1. s \in Actor
  BY DEF Actor
<1>2. TypeOK
  BY DEF IInv
<1>3. /\ entered' \in [Phase -> 0 .. 2] /\ exited' \in [Phase -> 0 .. 2]
      /\ \A q \in Phase : exited[q] # 0 => exited'[q] # 0
      /\ \A q \in Phase : entered'[q] # 0 => entered[q] # 0 \/ Before(q)
  BY <1>2 DEF TypeOK, Advance
<1>4. TypeOK'
  <2>1. pc' \in [Actor -> Label]
    BY <1>1, <1>2 DEF IInv, trackerVars, Goto, Return, Panic, callVars, Advance,
       TypeOK, Label
  <2>2. at' \in [Actor -> 0 .. N]
    <3>1. at \in [Actor -> 0 .. N] /\ at[s] \in 0 .. N /\ current \in 0 .. N
      BY <1>1, <1>2 DEF TypeOK
    <3>2. \/ at' = at
          \/ at' = [at EXCEPT ![s] = 0]
          \/ at' = [at EXCEPT ![s] = current]
      BY <1>1, <3>1, RunnerAssumption DEF IInv, trackerVars, Goto, Return, Panic,
         callVars, Advance, Calls, CallOK, Phase
    <3> QED
      BY <1>1, <3>1, <3>2, RunnerAssumption DEF Phase
  <2>3. hop' \in [Actor -> 0 .. N + 1]
    <3>1. hop \in [Actor -> 0 .. N + 1] /\ hop[s] \in 0 .. N + 1
      BY <1>1, <1>2 DEF TypeOK
    <3>2. \/ hop' = hop
          \/ hop' = [hop EXCEPT ![s] = 0]
      BY <1>1, <3>1 DEF IInv, trackerVars, Goto, Return, Panic, callVars, Advance,
         Calls, CallOK
    <3> QED
      BY <1>1, <3>1, <3>2, RunnerAssumption
  <2>4. /\ tracked' \in BOOLEAN /\ state' \in 0 .. N /\ current' \in 0 .. N
        /\ got' \in [Phase -> SUBSET Sender]
        /\ invited' \in BOOLEAN /\ crashed' \in BOOLEAN
    BY <1>1, <1>2, RunnerAssumption DEF IInv, trackerVars, Goto, Return, Panic,
       callVars, Advance, TypeOK, Calls, CallOK, Phase
  <2> QED
    BY <1>3, <2>1, <2>2, <2>3, <2>4 DEF TypeOK
<1>5. InOrder'
  <2>1. \A q \in Phase : entered'[q] # 0 => Before(q)
    BY <1>3 DEF IInv, InOrder
  <2>2. \A q \in Phase : current' = q => Before(q)
    BY <1>1, <1>2, RunnerAssumption DEF IInv, trackerVars, Goto, Return, Panic,
       callVars, Advance, TypeOK, InOrder, Calls, CallOK, Before, Phase
  <2>3. (Begun' /\ current' = 0) \/ crashed' => Before(N + 1)
    BY <1>1, <1>2, RunnerAssumption DEF IInv, trackerVars, Goto, Return, Panic,
       callVars, Advance, TypeOK, InOrder, Calls, CallOK, Begun, Before, Phase,
       Actor
  <2>4. \A q : Before(q) => Before(q)'
    BY <1>3 DEF Before
  <2> QED
    BY <2>1, <2>2, <2>3, <2>4 DEF InOrder
<1>6. Calls'
  <2>1. ASSUME NEW b \in Actor, b # s
        PROVE  pc'[b] = pc[b] /\ at'[b] = at[b] /\ hop'[b] = hop[b]
    BY <1>2, <2>1 DEF IInv, trackerVars, Goto, Return, Panic, callVars, Advance,
       TypeOK
  <2>2. ASSUME NEW b \in Actor
        PROVE  CallOK(b)'
    <3>1. CASE b = s
      BY <1>1, <1>2, <1>3, <3>1, RunnerAssumption DEF IInv, trackerVars, Goto,
         Return, Panic, callVars, Advance, TypeOK, InOrder, Calls, CallOK, Begun,
         Before, Phase
    <3>2. CASE b # s
      BY <1>2, <1>3, <2>1, <3>2 DEF IInv, TypeOK, Calls, CallOK, Before
    <3> QED
      BY <3>1, <3>2
  <2>3. Begun' \/ (~invited' /\ \A t \in Sender : pc'[t] = "idle")
    BY <1>1, <1>2, RunnerAssumption DEF IInv, trackerVars, Goto, Return, Panic,
       callVars, Advance, TypeOK, Calls, CallOK, Begun, Actor
  <2> QED
    BY <2>2, <2>3 DEF Calls
<1> QED
  BY <1>4, <1>5, <1>6 DEF IInv

\* Exit adds to the exited phases: with those before it, this one.
LEMMA ExitPreserves ==
  ASSUME IInv, NEW a \in Actor, Exit(a)
  PROVE  IInv'
<1>1. a \in Actor
  BY DEF Actor
<1>2. TypeOK
  BY DEF IInv
<1>3. /\ entered' \in [Phase -> 0 .. 2] /\ exited' \in [Phase -> 0 .. 2]
      /\ \A q \in Phase : exited[q] # 0 => exited'[q] # 0
      /\ \A q \in Phase : entered'[q] # 0 => entered[q] # 0 \/ Before(q)
  <2>1. /\ exited \in [Phase -> 0 .. 2]
        /\ entered \in [Phase -> 0 .. 2] /\ entered' = entered
    BY <1>2 DEF TypeOK, Exit
  <2>2. at[a] \in Phase /\ Before(at[a])
    BY <1>1, RunnerAssumption DEF IInv, Calls, CallOK, Before, Phase, Exit
  <2>3. exited' = exited \/ exited' = More(exited, at[a])
    BY DEF Exit
  <2>4. CASE exited' = exited
    BY <2>1, <2>4
  <2>5. CASE exited' = More(exited, at[a])
    BY <2>1, <2>2, <2>5, MoreFacts
  <2> QED
    BY <2>3, <2>4, <2>5
<1>4. TypeOK'
  <2>1. pc' \in [Actor -> Label]
    BY <1>1, <1>2 DEF IInv, trackerVars, Goto, Return, Exit, TypeOK, Label
  <2>2. at' \in [Actor -> 0 .. N]
    <3>1. at \in [Actor -> 0 .. N] /\ at[a] \in 0 .. N /\ current \in 0 .. N
      BY <1>1, <1>2 DEF TypeOK
    <3>2. \/ at' = [at EXCEPT ![a] = at[a]]
          \/ at' = [at EXCEPT ![a] = 0]
      BY <1>1, <3>1, RunnerAssumption DEF IInv, trackerVars, Goto, Return, Exit,
         Calls, CallOK, Phase
    <3> QED
      BY <1>1, <3>1, <3>2, RunnerAssumption DEF Phase
  <2>3. hop' \in [Actor -> 0 .. N + 1]
    <3>1. hop \in [Actor -> 0 .. N + 1] /\ hop[a] \in 0 .. N + 1
      BY <1>1, <1>2 DEF TypeOK
    <3>2. \/ hop' = hop
          \/ hop' = [hop EXCEPT ![a] = 0]
      BY <1>1, <3>1 DEF IInv, trackerVars, Goto, Return, Exit, Calls, CallOK
    <3> QED
      BY <1>1, <3>1, <3>2, RunnerAssumption
  <2>4. /\ tracked' \in BOOLEAN /\ state' \in 0 .. N /\ current' \in 0 .. N
        /\ got' \in [Phase -> SUBSET Sender]
        /\ invited' \in BOOLEAN /\ crashed' \in BOOLEAN
    BY <1>1, <1>2, RunnerAssumption DEF IInv, trackerVars, Goto, Return, Exit,
       TypeOK, Calls, CallOK, Phase
  <2> QED
    BY <1>3, <2>1, <2>2, <2>3, <2>4 DEF TypeOK
<1>5. InOrder'
  <2>1. \A q \in Phase : entered'[q] # 0 => Before(q)
    BY <1>3 DEF IInv, InOrder
  <2>2. \A q \in Phase : current' = q => Before(q)
    BY <1>1, <1>2, RunnerAssumption DEF IInv, trackerVars, Goto, Return, Exit,
       TypeOK, InOrder, Calls, CallOK, Before, Phase
  <2>3. (Begun' /\ current' = 0) \/ crashed' => Before(N + 1)
    BY <1>1, <1>2, RunnerAssumption DEF IInv, trackerVars, Goto, Return, Exit,
       TypeOK, InOrder, Calls, CallOK, Begun, Before, Phase, Actor
  <2>4. \A q : Before(q) => Before(q)'
    BY <1>3 DEF Before
  <2> QED
    BY <2>1, <2>2, <2>3, <2>4 DEF InOrder
<1>6. Calls'
  <2>1. ASSUME NEW b \in Actor, b # a
        PROVE  pc'[b] = pc[b] /\ at'[b] = at[b] /\ hop'[b] = hop[b]
    BY <1>2, <2>1 DEF IInv, trackerVars, Goto, Return, Exit, TypeOK
  <2>2. ASSUME NEW b \in Actor
        PROVE  CallOK(b)'
    <3>1. CASE b = a
      BY <1>1, <1>2, <1>3, <3>1, RunnerAssumption, MoreFacts DEF IInv, trackerVars,
         Goto, Return, Exit, TypeOK, InOrder, Calls, CallOK, Begun, Before, Phase
    <3>2. CASE b # a
      BY <1>2, <1>3, <2>1, <3>2 DEF IInv, TypeOK, Calls, CallOK, Before
    <3> QED
      BY <3>1, <3>2
  <2>3. Begun' \/ (~invited' /\ \A t \in Sender : pc'[t] = "idle")
    BY <1>1, <1>2, RunnerAssumption DEF IInv, trackerVars, Goto, Return, Exit,
       TypeOK, Calls, CallOK, Begun, Actor
  <2> QED
    BY <2>2, <2>3 DEF Calls
<1> QED
  BY <1>4, <1>5, <1>6 DEF IInv

\* The next phase becomes current only after the one before it was exited.
LEMMA StepPreserves ==
  ASSUME IInv, NEW a \in Actor, Step(a)
  PROVE  IInv'
<1>1. a \in Actor
  BY DEF Actor
<1>2. TypeOK
  BY DEF IInv
<1>3. /\ entered' \in [Phase -> 0 .. 2] /\ exited' \in [Phase -> 0 .. 2]
      /\ \A q \in Phase : exited[q] # 0 => exited'[q] # 0
      /\ \A q \in Phase : entered'[q] # 0 => entered[q] # 0 \/ Before(q)
  BY <1>2 DEF TypeOK, Step
<1>4. TypeOK'
  <2>1. pc' \in [Actor -> Label]
    BY <1>1, <1>2 DEF IInv, trackerVars, Goto, Return, Step, TypeOK, Label
  <2>2. at' \in [Actor -> 0 .. N]
    <3>1. at \in [Actor -> 0 .. N] /\ at[a] \in 0 .. N /\ current \in 0 .. N
      BY <1>1, <1>2 DEF TypeOK
    <3>2. \/ at' = [at EXCEPT ![a] = 0]
          \/ at' = [at EXCEPT ![a] = at[a] + 1] /\ at[a] < N
      BY <1>1, <3>1, RunnerAssumption DEF IInv, trackerVars, Goto, Return, Step,
         Calls, CallOK, Phase
    <3> QED
      BY <1>1, <3>1, <3>2, RunnerAssumption DEF Phase
  <2>3. hop' \in [Actor -> 0 .. N + 1]
    <3>1. hop \in [Actor -> 0 .. N + 1] /\ hop[a] \in 0 .. N + 1
      BY <1>1, <1>2 DEF TypeOK
    <3>2. \/ hop' = hop
          \/ hop' = [hop EXCEPT ![a] = 0]
      BY <1>1, <3>1 DEF IInv, trackerVars, Goto, Return, Step, Calls, CallOK
    <3> QED
      BY <1>1, <3>1, <3>2, RunnerAssumption
  <2>4. /\ tracked' \in BOOLEAN /\ state' \in 0 .. N /\ current' \in 0 .. N
        /\ got' \in [Phase -> SUBSET Sender]
        /\ invited' \in BOOLEAN /\ crashed' \in BOOLEAN
    BY <1>1, <1>2, RunnerAssumption DEF IInv, trackerVars, Goto, Return, Step,
       TypeOK, Calls, CallOK, Phase
  <2> QED
    BY <1>3, <2>1, <2>2, <2>3, <2>4 DEF TypeOK
<1>5. InOrder'
  <2>1. \A q \in Phase : entered'[q] # 0 => Before(q)
    BY <1>3 DEF IInv, InOrder
  <2>2. \A q \in Phase : current' = q => Before(q)
    BY <1>1, <1>2, RunnerAssumption DEF IInv, trackerVars, Goto, Return, Step,
       TypeOK, InOrder, Calls, CallOK, Before, Phase
  <2>3. (Begun' /\ current' = 0) \/ crashed' => Before(N + 1)
    BY <1>1, <1>2, RunnerAssumption DEF IInv, trackerVars, Goto, Return, Step,
       TypeOK, InOrder, Calls, CallOK, Begun, Before, Phase, Actor
  <2>4. \A q : Before(q) => Before(q)'
    BY <1>3 DEF Before
  <2> QED
    BY <2>1, <2>2, <2>3, <2>4 DEF InOrder
<1>6. Calls'
  <2>1. ASSUME NEW b \in Actor, b # a
        PROVE  pc'[b] = pc[b] /\ at'[b] = at[b] /\ hop'[b] = hop[b]
    BY <1>2, <2>1 DEF IInv, trackerVars, Goto, Return, Step, TypeOK
  <2>2. ASSUME NEW b \in Actor
        PROVE  CallOK(b)'
    <3>1. CASE b = a
      BY <1>1, <1>2, <1>3, <3>1, RunnerAssumption DEF IInv, trackerVars, Goto,
         Return, Step, TypeOK, InOrder, Calls, CallOK, Begun, Before, Phase
    <3>2. CASE b # a
      BY <1>2, <1>3, <2>1, <3>2 DEF IInv, TypeOK, Calls, CallOK, Before
    <3> QED
      BY <3>1, <3>2
  <2>3. Begun' \/ (~invited' /\ \A t \in Sender : pc'[t] = "idle")
    BY <1>1, <1>2, RunnerAssumption DEF IInv, trackerVars, Goto, Return, Step,
       TypeOK, Calls, CallOK, Begun, Actor
  <2> QED
    BY <2>2, <2>3 DEF Calls
<1> QED
  BY <1>4, <1>5, <1>6 DEF IInv

\* The phase entered is the one stepped to.
LEMMA EnterPreserves ==
  ASSUME IInv, NEW a \in Actor, Enter(a)
  PROVE  IInv'
<1>1. a \in Actor
  BY DEF Actor
<1>2. TypeOK
  BY DEF IInv
<1>3. /\ entered' \in [Phase -> 0 .. 2] /\ exited' \in [Phase -> 0 .. 2]
      /\ \A q \in Phase : exited[q] # 0 => exited'[q] # 0
      /\ \A q \in Phase : entered'[q] # 0 => entered[q] # 0 \/ Before(q)
  <2>1. /\ entered \in [Phase -> 0 .. 2]
        /\ exited \in [Phase -> 0 .. 2] /\ exited' = exited
    BY <1>2 DEF TypeOK, Enter
  <2>2. at[a] \in Phase /\ Before(at[a])
    BY <1>1, RunnerAssumption DEF IInv, Calls, CallOK, Before, Phase, Enter
  <2>3. entered' = entered \/ entered' = More(entered, at[a])
    BY DEF Enter
  <2>4. CASE entered' = entered
    BY <2>1, <2>4
  <2>5. CASE entered' = More(entered, at[a])
    BY <2>1, <2>2, <2>5, MoreFacts
  <2> QED
    BY <2>3, <2>4, <2>5
<1>4. TypeOK'
  <2>1. pc' \in [Actor -> Label]
    BY <1>1, <1>2 DEF IInv, trackerVars, Goto, Return, Enter, TypeOK, Label
  <2>2. at' \in [Actor -> 0 .. N]
    <3>1. at \in [Actor -> 0 .. N] /\ at[a] \in 0 .. N /\ current \in 0 .. N
      BY <1>1, <1>2 DEF TypeOK
    <3>2. \/ at' = [at EXCEPT ![a] = at[a]]
          \/ at' = [at EXCEPT ![a] = 0]
      BY <1>1, <3>1, RunnerAssumption DEF IInv, trackerVars, Goto, Return, Enter,
         Calls, CallOK, Phase
    <3> QED
      BY <1>1, <3>1, <3>2, RunnerAssumption DEF Phase
  <2>3. hop' \in [Actor -> 0 .. N + 1]
    <3>1. hop \in [Actor -> 0 .. N + 1] /\ hop[a] \in 0 .. N + 1
      BY <1>1, <1>2 DEF TypeOK
    <3>2. \/ hop' = hop
          \/ hop' = [hop EXCEPT ![a] = 0]
      BY <1>1, <3>1 DEF IInv, trackerVars, Goto, Return, Enter, Calls, CallOK
    <3> QED
      BY <1>1, <3>1, <3>2, RunnerAssumption
  <2>4. /\ tracked' \in BOOLEAN /\ state' \in 0 .. N /\ current' \in 0 .. N
        /\ got' \in [Phase -> SUBSET Sender]
        /\ invited' \in BOOLEAN /\ crashed' \in BOOLEAN
    BY <1>1, <1>2, RunnerAssumption DEF IInv, trackerVars, Goto, Return, Enter,
       TypeOK, Calls, CallOK, Phase
  <2> QED
    BY <1>3, <2>1, <2>2, <2>3, <2>4 DEF TypeOK
<1>5. InOrder'
  <2>1. \A q \in Phase : entered'[q] # 0 => Before(q)
    BY <1>3 DEF IInv, InOrder
  <2>2. \A q \in Phase : current' = q => Before(q)
    BY <1>1, <1>2, RunnerAssumption DEF IInv, trackerVars, Goto, Return, Enter,
       TypeOK, InOrder, Calls, CallOK, Before, Phase
  <2>3. (Begun' /\ current' = 0) \/ crashed' => Before(N + 1)
    BY <1>1, <1>2, RunnerAssumption DEF IInv, trackerVars, Goto, Return, Enter,
       TypeOK, InOrder, Calls, CallOK, Begun, Before, Phase, Actor
  <2>4. \A q : Before(q) => Before(q)'
    BY <1>3 DEF Before
  <2> QED
    BY <2>1, <2>2, <2>3, <2>4 DEF InOrder
<1>6. Calls'
  <2>1. ASSUME NEW b \in Actor, b # a
        PROVE  pc'[b] = pc[b] /\ at'[b] = at[b] /\ hop'[b] = hop[b]
    BY <1>2, <2>1 DEF IInv, trackerVars, Goto, Return, Enter, TypeOK
  <2>2. ASSUME NEW b \in Actor
        PROVE  CallOK(b)'
    <3>1. CASE b = a
      BY <1>1, <1>2, <1>3, <3>1, RunnerAssumption DEF IInv, trackerVars, Goto,
         Return, Enter, TypeOK, InOrder, Calls, CallOK, Begun, Before, Phase
    <3>2. CASE b # a
      BY <1>2, <1>3, <2>1, <3>2 DEF IInv, TypeOK, Calls, CallOK, Before
    <3> QED
      BY <3>1, <3>2
  <2>3. Begun' \/ (~invited' /\ \A t \in Sender : pc'[t] = "idle")
    BY <1>1, <1>2, RunnerAssumption DEF IInv, trackerVars, Goto, Return, Enter,
       TypeOK, Calls, CallOK, Begun, Actor
  <2> QED
    BY <2>2, <2>3 DEF Calls
<1> QED
  BY <1>4, <1>5, <1>6 DEF IInv

\* Stopping, or the next round of the loop.
LEMMA CascadePreserves ==
  ASSUME IInv, NEW a \in Actor, Cascade(a)
  PROVE  IInv'
<1>1. a \in Actor
  BY DEF Actor
<1>2. TypeOK
  BY DEF IInv
<1>3. /\ entered' \in [Phase -> 0 .. 2] /\ exited' \in [Phase -> 0 .. 2]
      /\ \A q \in Phase : exited[q] # 0 => exited'[q] # 0
      /\ \A q \in Phase : entered'[q] # 0 => entered[q] # 0 \/ Before(q)
  BY <1>2 DEF TypeOK, Cascade
<1>4. TypeOK'
  <2>1. pc' \in [Actor -> Label]
    BY <1>1, <1>2 DEF IInv, trackerVars, Goto, Return, Cascade, TypeOK, Label
  <2>2. at' \in [Actor -> 0 .. N]
    <3>1. at \in [Actor -> 0 .. N] /\ at[a] \in 0 .. N /\ current \in 0 .. N
      BY <1>1, <1>2 DEF TypeOK
    <3>2. at' = [at EXCEPT ![a] = 0]
      BY <1>1, <3>1, RunnerAssumption DEF IInv, trackerVars, Goto, Return, Cascade,
         Calls, CallOK, Phase
    <3> QED
      BY <1>1, <3>1, <3>2, RunnerAssumption DEF Phase
  <2>3. hop' \in [Actor -> 0 .. N + 1]
    <3>1. hop \in [Actor -> 0 .. N + 1] /\ hop[a] \in 0 .. N + 1
      BY <1>1, <1>2 DEF TypeOK
    <3>2. \/ hop' = [hop EXCEPT ![a] = 0]
          \/ hop' = [hop EXCEPT ![a] = hop[a] + 1] /\ hop[a] <= N
      BY <1>1, <3>1 DEF IInv, trackerVars, Goto, Return, Cascade, Calls, CallOK
    <3> QED
      BY <1>1, <3>1, <3>2, RunnerAssumption
  <2>4. /\ tracked' \in BOOLEAN /\ state' \in 0 .. N /\ current' \in 0 .. N
        /\ got' \in [Phase -> SUBSET Sender]
        /\ invited' \in BOOLEAN /\ crashed' \in BOOLEAN
    BY <1>1, <1>2, RunnerAssumption DEF IInv, trackerVars, Goto, Return, Cascade,
       TypeOK, Calls, CallOK, Phase
  <2> QED
    BY <1>3, <2>1, <2>2, <2>3, <2>4 DEF TypeOK
<1>5. InOrder'
  <2>1. \A q \in Phase : entered'[q] # 0 => Before(q)
    BY <1>3 DEF IInv, InOrder
  <2>2. \A q \in Phase : current' = q => Before(q)
    BY <1>1, <1>2, RunnerAssumption DEF IInv, trackerVars, Goto, Return, Cascade,
       TypeOK, InOrder, Calls, CallOK, Before, Phase
  <2>3. (Begun' /\ current' = 0) \/ crashed' => Before(N + 1)
    BY <1>1, <1>2, RunnerAssumption DEF IInv, trackerVars, Goto, Return, Cascade,
       TypeOK, InOrder, Calls, CallOK, Begun, Before, Phase, Actor
  <2>4. \A q : Before(q) => Before(q)'
    BY <1>3 DEF Before
  <2> QED
    BY <2>1, <2>2, <2>3, <2>4 DEF InOrder
<1>6. Calls'
  <2>1. ASSUME NEW b \in Actor, b # a
        PROVE  pc'[b] = pc[b] /\ at'[b] = at[b] /\ hop'[b] = hop[b]
    BY <1>2, <2>1 DEF IInv, trackerVars, Goto, Return, Cascade, TypeOK
  <2>2. ASSUME NEW b \in Actor
        PROVE  CallOK(b)'
    <3>1. CASE b = a
      BY <1>1, <1>2, <1>3, <3>1, RunnerAssumption DEF IInv, trackerVars, Goto,
         Return, Cascade, TypeOK, InOrder, Calls, CallOK, Begun, Before, Phase
    <3>2. CASE b # a
      BY <1>2, <1>3, <2>1, <3>2 DEF IInv, TypeOK, Calls, CallOK, Before
    <3> QED
      BY <3>1, <3>2
  <2>3. Begun' \/ (~invited' /\ \A t \in Sender : pc'[t] = "idle")
    BY <1>1, <1>2, RunnerAssumption DEF IInv, trackerVars, Goto, Return, Cascade,
       TypeOK, Calls, CallOK, Begun, Actor
  <2> QED
    BY <2>2, <2>3 DEF Calls
<1> QED
  BY <1>4, <1>5, <1>6 DEF IInv

-----------------------------------------------------------------------------
\* Before a session is begun nothing was called.
LEMMA InitInvariant == Init => IInv
<1> SUFFICES ASSUME Init PROVE IInv
  OBVIOUS
<1>1. /\ pc = [a \in Actor |-> "idle"] /\ at = [a \in Actor |-> 0]
      /\ hop = [a \in Actor |-> 0]
  BY DEF Init
<1>2. TypeOK
  <2>1. /\ got \in [Phase -> SUBSET Sender]
        /\ entered \in [Phase -> 0 .. 2] /\ exited \in [Phase -> 0 .. 2]
    BY DEF Init
  <2>2. /\ pc \in [Actor -> Label]
        /\ at \in [Actor -> 0 .. N] /\ hop \in [Actor -> 0 .. N + 1]
    BY <1>1, RunnerAssumption DEF Label
  <2>3. tracked \in BOOLEAN /\ invited \in BOOLEAN /\ crashed \in BOOLEAN
    BY DEF Init
  <2>4. state \in 0 .. N /\ current \in 0 .. N
    BY RunnerAssumption DEF Init
  <2> QED
    BY <2>1, <2>2, <2>3, <2>4 DEF TypeOK
<1>3. InOrder
  <2>1. pc[Trigger] = "idle"
    BY <1>1 DEF Actor
  <2> QED
    BY <2>1, RunnerAssumption DEF Init, InOrder, Begun, Phase
<1>4. Calls
  BY <1>1 DEF Init, Calls, CallOK, Actor
<1> QED
  BY <1>2, <1>3, <1>4 DEF IInv

\* Every step of every goroutine preserves the invariant.
LEMMA NextInvariant == IInv /\ [Next]_srVars => IInv'
<1> SUFFICES ASSUME IInv, [Next]_srVars PROVE IInv'
  OBVIOUS
<1>1. CASE Starting
  BY <1>1, BeginSessionPreserves, EnterFirstPreserves, InvitePreserves,
     AdvanceToStatePreserves, ReadStatePreserves, ReadCurrentPreserves DEF Starting
<1>2. CASE EndSession
  BY <1>2, EndSessionPreserves
<1>3. ASSUME NEW s \in Sender, Handling(s)
      PROVE  IInv'
  BY <1>3, DispatchPreserves, OnMessagePreserves, CheckPreserves, AdvancePreserves
     DEF Handling
<1>4. ASSUME NEW s \in Sender, NEW p \in Consuming, Receive(s, p)
      PROVE  IInv'
  BY <1>4, ReceivePreserves
<1>5. ASSUME NEW a \in Actor, Loop(a)
      PROVE  IInv'
  BY <1>5, ExitPreserves, StepPreserves, EnterPreserves, CascadePreserves DEF Loop
<1>6. CASE UNCHANGED srVars
  BY <1>6 DEF srVars, trackerVars, callVars, IInv, TypeOK, InOrder, Calls, CallOK,
     Begun, Before
<1> QED
  BY <1>1, <1>2, <1>3, <1>4, <1>5, <1>6 DEF Next

\* The invariant holds throughout.
LEMMA Invariance == Spec => []IInv
  BY InitInvariant, NextInvariant, PTL DEF Spec

\* For every pipeline and any participants, with messages handled concurrently
\* and hooks failing at will, no phase of a session is skipped: a phase is entered
\* only when all before it were exited, and a session that has ended, or whose
\* process panicked in advance, has exited all of them.
THEOREM PhasesInOrder == Spec => []InOrder
<1>1. IInv => InOrder
  BY DEF IInv
<1> QED
  BY Invariance, <1>1, PTL

\* Every reachable state of a session and of the calls into it is well typed; the
\* hop counters stay within the limit of advance and AdvanceToState.
THEOREM RunnerTypeCorrect == Spec => []TypeOK
<1>1. IInv => TypeOK
  BY DEF IInv
<1> QED
  BY Invariance, <1>1, PTL
=============================================================================
