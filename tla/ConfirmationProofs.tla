------------------------- MODULE ConfirmationProofs -------------------------
(***************************************************************************)
(* Theorems about Confirmation, for any set of calls and shells and any    *)
(* bounds: type correctness, the agreement of pending_confirms with the    *)
(* handlers, the activity file, and that a signature answers a tap on a    *)
(* prompt with its id.                                                     *)
(***************************************************************************)
EXTENDS Confirmation, FiniteSetTheorems, TLAPS

(* Appending to a queue or taking its head off keeps it a queue.           *)
LEMMA QueueType ==
  ASSUME NEW S, NEW q \in Seq(S)
  PROVE  /\ \A x \in S : Append(q, x) \in Seq(S)
         /\ q # << >> => Head(q) \in S /\ Tail(q) \in Seq(S)
  OBVIOUS

(* The newest entries of a list are a list.                                *)
LEMMA CappedType ==
  ASSUME NEW list \in Seq(Requests), Len(list) > 0
  PROVE  Capped(list) \in Seq(Requests)
  <1>1. Len(list) \in Nat /\ ActivityCap \in Nat \ {0}
    BY ConstantsAssumption
  <1>. DEFINE m == IF Len(list) > ActivityCap THEN Len(list) - ActivityCap + 1 ELSE 1
  <1>2. m \in 1..Len(list)
    BY <1>1
  <1>3. \A i \in m..Len(list) : list[i] \in Requests
    BY <1>2
  <1>. HIDE DEF m
  <1>4. SubSeq(list, m, Len(list)) \in Seq(Requests)
    BY <1>1, <1>2, <1>3
  <1>. QED
    BY <1>4 DEF Capped, Newest, m

(* push_event keeps every shell's queue a queue of events.                 *)
LEMMA PushType ==
  ASSUME TypeOK, NEW r \in Requests,
         NEW kind \in {"confirmRequest", "confirmCancelled", "activity"},
         PushEvent(kind, r)
  PROVE  events' \in [Shells -> Seq(Events)]
  <1>. DEFINE e == [kind |-> kind, prompt |-> PromptOf(r)]
  <1>1. e \in Events
    BY DEF TypeOK, Events, Prompts, PromptOf
  <1>2. \A s \in Shells : events[s] \in Seq(Events)
    BY DEF TypeOK
  <1>. HIDE DEF e
  <1>3. \A s \in Shells : Append(events[s], e) \in Seq(Events)
    BY <1>1, <1>2, QueueType
  <1>. QED
    BY <1>2, <1>3 DEF PushEvent, e

(* Every variable keeps its type.                                          *)
THEOREM TypeCorrect == Spec => []TypeOK
  <1>. USE DEF Key!TypeOK
  <1>1. Init => TypeOK
    <2>. SUFFICES ASSUME Init PROVE TypeOK
      OBVIOUS
    <2>1. key \in BOOLEAN
      BY Zenon DEF Init, Loaded
    <2>2. Key!TypeOK
      BY <2>1 DEF Init, Loaded
    <2>3. << >> \in Seq(Requests) /\ << >> \in Seq(Events) /\ "idle" \in PCs
      BY DEF PCs
    <2>4. /\ pc \in [Requests -> PCs] /\ reqId \in [Requests -> Nat]
          /\ slot \in [Requests -> {"empty", "yes", "no", "closed"}]
          /\ bytes \in [Requests -> Seq(Requests)]
          /\ events \in [Shells -> Seq(Events)]
          /\ confirming \in [Shells -> Prompts \cup {NoPrompt}]
      BY <2>3 DEF Init
    <2>5. drops \in 0..MaxDrops /\ restarts \in 0..MaxRestarts
      BY ConstantsAssumption DEF Init
    <2>6. /\ activity \in Seq(Requests) /\ file \in Seq(Requests) \cup {Torn}
          /\ saved \in Seq(Requests) /\ behind \in BOOLEAN
      BY <2>3 DEF Init
    <2>7. /\ pending \subseteq Requests /\ conn \subseteq Shells
          /\ lingering \subseteq Shells /\ answers \subseteq Taps
          /\ shown \subseteq Requests /\ taps \subseteq Taps
          /\ orphaned \subseteq Requests /\ signatures \subseteq Prompts
      BY DEF Init
    <2>8. nextId \in Nat \ {0} /\ writer \in Requests \cup {NoRequest}
      BY DEF Init
    <2>. QED
      BY <2>2, <2>4, <2>5, <2>6, <2>7, <2>8 DEF TypeOK
  <1>2. TypeOK /\ [Next]_vars => TypeOK'
    <2>. SUFFICES ASSUME TypeOK, [Next]_vars PROVE TypeOK'
      OBVIOUS
    <2>. USE DEF vars, daemon, shellIO, journal, wallet, history
    <2>1. ASSUME NEW r \in Requests, SignInvalid(r) PROVE TypeOK'
      BY <2>1 DEF TypeOK, SignInvalid, Goto, PCs, Refusals
    <2>2. ASSUME NEW r \in Requests, SignTransaction(r) PROVE TypeOK'
      BY <2>2 DEF TypeOK, SignTransaction, Goto, PCs, Refusals, Running
    <2>3. ASSUME NEW r \in Requests, Register(r) PROVE TypeOK'
      BY <2>3 DEF TypeOK, Register, Goto, PCs, Running
    <2>4. ASSUME NEW r \in Requests, Ask(r) PROVE TypeOK'
      <3>1. events' \in [Shells -> Seq(Events)]
        BY <2>4, PushType DEF Ask
      <3>. QED
        BY <2>4, <3>1 DEF TypeOK, Ask, Goto, PCs, Running
    <2>5. ASSUME NEW r \in Requests, ReceiveAnswer(r) PROVE TypeOK'
      BY <2>5 DEF TypeOK, ReceiveAnswer, Goto, PCs, Running, Refusals
    <2>6. ASSUME NEW r \in Requests, Expire(r) PROVE TypeOK'
      BY <2>6 DEF TypeOK, Expire, TimeOut, Goto, PCs, Running
    <2>7. ASSUME NEW r \in Requests, Withdraw(r) PROVE TypeOK'
      <3>1. events' \in [Shells -> Seq(Events)]
        BY <2>7, PushType DEF Withdraw
      <3>. QED
        BY <2>7, <3>1 DEF TypeOK, Withdraw, DropReceiver, Goto, PCs, Refusals
    <2>8. ASSUME NEW r \in Requests, Sign(r) PROVE TypeOK'
      <3>1. PromptOf(r) \in Prompts
        BY DEF PromptOf, Prompts, TypeOK
      <3>. QED
        BY <2>8, <3>1 DEF TypeOK, Sign, Goto, PCs, Running, Refusals
    <2>9. ASSUME NEW r \in Requests, BeginRecord(r) PROVE TypeOK'
      <3>1. Append(activity, r) \in Seq(Requests) /\ Len(Append(activity, r)) > 0
        BY DEF TypeOK
      <3>2. Capped(Append(activity, r)) \in Seq(Requests)
        BY <3>1, CappedType
      <3>3. /\ bytes' \in [Requests -> Seq(Requests)] /\ saved' \in Seq(Requests)
            /\ file' \in Seq(Requests) \cup {Torn} /\ behind' \in BOOLEAN
        BY <2>9, <3>2, Zenon DEF TypeOK, BeginRecord, AddEntry
      <3>4. pc' \in [Requests -> PCs] /\ nextId' \in Nat \ {0}
        BY <2>9 DEF TypeOK, BeginRecord, AddEntry, Goto, PCs, Running
      <3>5. activity' \in Seq(Requests) /\ writer' \in Requests \cup {NoRequest}
        BY <2>9, <3>2 DEF BeginRecord, AddEntry
      <3>6. UNCHANGED <<reqId, pending, slot, shellIO, wallet, history, signatures>>
        BY <2>9 DEF BeginRecord, AddEntry
      <3>. QED
        BY <3>3, <3>4, <3>5, <3>6 DEF TypeOK
    <2>10. ASSUME NEW r \in Requests, EndRecord(r) PROVE TypeOK'
      <3>1. events' \in [Shells -> Seq(Events)]
        BY <2>10, PushType DEF EndRecord
      <3>2. << >> \in Seq(Requests)
        OBVIOUS
      <3>. QED
        BY <2>10, <3>1, <3>2 DEF TypeOK, EndRecord, Goto, PCs, Signing
    <2>11. ASSUME NEW s \in Shells, Connect(s) PROVE TypeOK'
      BY <2>11 DEF TypeOK, Connect
    <2>12. ASSUME NEW s \in Shells, Disconnect(s) \/ ReloadPage(s) PROVE TypeOK'
      <3>1. Lose(s) /\ confirming' \in [Shells -> Prompts \cup {NoPrompt}]
        BY <2>12 DEF TypeOK, Disconnect, ReloadPage
      <3>2. << >> \in Seq(Events)
        OBVIOUS
      <3>3. events' \in [Shells -> Seq(Events)]
        BY <3>1, <3>2 DEF Lose, TypeOK
      <3>4. drops' \in 0..MaxDrops
        BY <3>1, ConstantsAssumption DEF Lose, TypeOK
      <3>. QED
        BY <3>1, <3>3, <3>4 DEF TypeOK, Lose
    <2>13. ASSUME NEW s \in Shells, WriterEnds(s) PROVE TypeOK'
      BY <2>13 DEF TypeOK, WriterEnds
    <2>14. ASSUME NEW s \in Shells, HandleEvent(s) PROVE TypeOK'
      <3>. DEFINE e == Head(events[s])
      <3>1. e \in Events /\ Tail(events[s]) \in Seq(Events)
        BY <2>14, QueueType DEF HandleEvent, TypeOK
      <3>2. e.prompt \in Prompts /\ e.prompt.req \in Requests
        BY <3>1 DEF Events, Prompts
      <3>3. events' \in [Shells -> Seq(Events)]
        BY <2>14, <3>1 DEF HandleEvent, TypeOK
      <3>4. confirming' \in [Shells -> Prompts \cup {NoPrompt}]
        BY <2>14, <3>2 DEF HandleEvent, TypeOK
      <3>5. shown' \subseteq Requests
        BY <2>14, <3>2 DEF HandleEvent, TypeOK
      <3>. QED
        BY <2>14, <3>3, <3>4, <3>5 DEF TypeOK, HandleEvent
    <2>15. ASSUME NEW s \in Shells, NEW approved \in BOOLEAN, Answer(s, approved)
           PROVE  TypeOK'
      <3>1. [shell |-> s, prompt |-> confirming[s], approved |-> approved] \in Taps
        BY <2>15 DEF Answer, TypeOK, Taps
      <3>. QED
        BY <2>15, <3>1 DEF TypeOK, Answer
    <2>16. ASSUME NEW a \in answers, ResolveConfirmation(a) PROVE TypeOK'
      BY <2>16 DEF TypeOK, ResolveConfirmation, Deliver
    <2>17. ASSUME WalletStep PROVE TypeOK'
      BY <2>17 DEF TypeOK, WalletStep, Key!Call, Key!Publish, Key!Lock, Key!Replace,
                   Key!Unlock
    <2>18. ASSUME Restart PROVE TypeOK'
      <3>1. pc' \in [Requests -> PCs]
        BY <2>18 DEF Restart, TypeOK, PCs
      <3>2. << >> \in Seq(Requests) /\ << >> \in Seq(Events)
        OBVIOUS
      <3>3. activity' \in Seq(Requests) /\ bytes' \in [Requests -> Seq(Requests)]
        BY <2>18, <3>2 DEF Restart, TypeOK
      <3>4. events' \in [Shells -> Seq(Events)]
        BY <2>18, <3>2 DEF Restart
      <3>5. restarts' \in 0..MaxRestarts
        BY <2>18, ConstantsAssumption DEF Restart, TypeOK
      <3>6. Key!TypeOK'
        <4>1. Key!Reload
          BY <2>18 DEF Restart
        <4>2. key' \in BOOLEAN
          BY <4>1, Zenon DEF Key!Reload
        <4>. QED
          BY <4>1, <4>2 DEF TypeOK, Key!Reload
      <3>7. saved' \in Seq(Requests) /\ behind' \in BOOLEAN
        BY <2>18, <3>3 DEF Restart
      <3>. HIDE DEF Key!TypeOK
      <3>. QED
        BY <2>18, <3>1, <3>3, <3>4, <3>5, <3>6, <3>7 DEF Restart, TypeOK
    <2>19. CASE UNCHANGED vars
      BY <2>19 DEF TypeOK
    <2>. QED
      BY <2>1, <2>2, <2>3, <2>4, <2>5, <2>6, <2>7, <2>8, <2>9, <2>10, <2>11,
         <2>12, <2>13, <2>14, <2>15, <2>16, <2>17, <2>18, <2>19
         DEF Next, Handler, Shell
  <1>. QED
    BY <1>1, <1>2, PTL DEF Spec

-----------------------------------------------------------------------------
(* push_event adds the prompt of a call that has an id, so a queue of      *)
(* truthful prompts stays one.                                             *)
LEMMA PushTruthful ==
  ASSUME ConfirmInv, NEW r \in Requests,
         NEW kind \in {"confirmRequest", "confirmCancelled", "activity"},
         PushEvent(kind, r), reqId[r] # 0
  PROVE  \A s \in Shells : \A i \in DOMAIN events'[s] :
            Truthful(events'[s][i].prompt)
  <1>. DEFINE e == [kind |-> kind, prompt |-> PromptOf(r)]
  <1>. SUFFICES ASSUME NEW s \in Shells, NEW i \in DOMAIN events'[s]
                PROVE  Truthful(events'[s][i].prompt)
    OBVIOUS
  <1>1. events[s] \in Seq(Events) /\ restarts \in Nat
    BY DEF ConfirmInv, TypeOK
  <1>2. Truthful(e.prompt)
    BY <1>1 DEF Truthful, PromptOf
  <1>3. \A j \in DOMAIN events[s] : Truthful(events[s][j].prompt)
    BY DEF ConfirmInv, PromptsAreTruthful
  <1>4. events'[s] = events[s] \/ events'[s] = Append(events[s], e)
    BY DEF PushEvent
  <1>. HIDE DEF e
  <1>5. CASE events'[s] = events[s]
    BY <1>3, <1>5
  <1>6. CASE events'[s] = Append(events[s], e)
    <2>1. i \in 1..(Len(events[s]) + 1)
      BY <1>1, <1>6
    <2>2. events'[s][i] = IF i = Len(events[s]) + 1 THEN e ELSE events[s][i]
      BY <1>1, <1>6, <2>1
    <2>. QED
      BY <1>1, <1>2, <1>3, <2>1, <2>2
  <1>. QED
    BY <1>4, <1>5, <1>6

(* Every step of the daemon, the sockets, the screens and the user keeps   *)
(* the inductive invariant.                                                *)
LEMMA ConfirmInvStep == ConfirmInv /\ TypeOK' /\ [Next]_vars => ConfirmInv'
  <1>. SUFFICES ASSUME ConfirmInv, TypeOK', [Next]_vars PROVE ConfirmInv'
    OBVIOUS
  <1>. USE DEF vars, daemon, shellIO, journal, history
  <1>1. TypeOK
    BY DEF ConfirmInv
  <1>2. /\ pending \subseteq Requests
        /\ pc \in [Requests -> PCs] /\ reqId \in [Requests -> Nat]
        /\ slot \in [Requests -> {"empty", "yes", "no", "closed"}]
    BY <1>1 DEF TypeOK
  <1>3. ASSUME NEW r \in Requests, SignInvalid(r) \/ SignTransaction(r)
        PROVE  ConfirmInv'
    <2>1. pc[r] = "idle" /\ pc' \in [Requests -> PCs]
          /\ \A q \in Requests : q # r => pc'[q] = pc[q]
      BY <1>3 DEF SignInvalid, SignTransaction, Goto, TypeOK
    <2>2. pc'[r] \in {"invalid", "unavailable", "checked"}
      BY <1>3, <1>1 DEF SignInvalid, SignTransaction, Goto, TypeOK
    <2>3. UNCHANGED <<reqId, pending, slot, nextId, shellIO, history, signatures>>
      BY <1>3 DEF SignInvalid, SignTransaction
    <2>4. IdsAreFresh'
      BY <2>1, <2>2, <2>3 DEF ConfirmInv, IdsAreFresh, Running
    <2>5. PendingIsAnswerable'
      BY <1>2, <2>1, <2>2, <2>3 DEF ConfirmInv, PendingIsAnswerable
    <2>6. PromptsAreTruthful'
      BY <2>3 DEF ConfirmInv, PromptsAreTruthful, Truthful
    <2>7. YesAnswersTap' /\ SignatureAnswersTap'
      BY <2>1, <2>2, <2>3 DEF ConfirmInv, YesAnswersTap, SignatureAnswersTap,
                              Approves, PromptOf
    <2>. QED
      BY <2>4, <2>5, <2>6, <2>7 DEF ConfirmInv
  <1>4. ASSUME NEW r \in Requests, Register(r) PROVE ConfirmInv'
    <2>1. pc[r] = "checked" /\ reqId[r] = 0 /\ slot[r] = "empty"
      BY <1>4 DEF Register, Goto, ConfirmInv, IdsAreFresh
    <2>2. IdsAreFresh'
      BY <1>4, <1>1, <2>1 DEF Register, Goto, ConfirmInv,
                              IdsAreFresh, TypeOK, Running
    <2>3. PendingIsAnswerable'
      BY <1>4, <1>1, <2>1 DEF Register, Goto, ConfirmInv, TypeOK,
                              PendingIsAnswerable, IdsAreFresh
    <2>4. \A q \in Prompts : Truthful(q) => Truthful(q)'
      BY <1>4, <1>1, <2>1 DEF Register, Truthful, TypeOK, Prompts
    <2>5. PromptsAreTruthful'
      <3>1. \A s \in Shells : \A i \in DOMAIN events[s] :
              events[s][i].prompt \in Prompts
        <4>. SUFFICES ASSUME NEW s \in Shells, NEW i \in DOMAIN events[s]
                      PROVE  events[s][i].prompt \in Prompts
          OBVIOUS
        <4>1. events[s] \in Seq(Events)
          BY <1>1 DEF TypeOK
        <4>2. events[s][i] \in Events
          BY <4>1
        <4>. QED
          BY <4>2 DEF Events
      <3>2. \A s \in Shells : confirming[s] # NoPrompt => confirming[s] \in Prompts
        BY <1>1 DEF TypeOK
      <3>3. \A tap \in taps : tap.prompt \in Prompts
        BY <1>1 DEF TypeOK, Taps
      <3>. QED
        BY <1>4, <2>4, <3>1, <3>2, <3>3 DEF Register, ConfirmInv,
                                            PromptsAreTruthful
    <2>6. YesAnswersTap' /\ SignatureAnswersTap'
      <3>1. \A q \in Requests : q # r => /\ pc'[q] = pc[q]
                                        /\ reqId'[q] = reqId[q]
        BY <1>4, <1>1 DEF Register, Goto, TypeOK
      <3>2. pc'[r] = "registered"
        BY <1>4, <1>1 DEF Register, Goto, TypeOK
      <3>3. UNCHANGED <<slot, taps, restarts, signatures>>
        BY <1>4 DEF Register
      <3>. QED
        BY <2>1, <3>1, <3>2, <3>3 DEF ConfirmInv, YesAnswersTap,
             SignatureAnswersTap, Approves, PromptOf
    <2>. QED
      BY <2>2, <2>3, <2>5, <2>6 DEF ConfirmInv
  <1>5. ASSUME NEW r \in Requests, Ask(r) PROVE ConfirmInv'
    <2>1. reqId[r] # 0
      BY <1>5 DEF Ask, Goto, ConfirmInv, IdsAreFresh, Running
    <2>2. IdsAreFresh' /\ PendingIsAnswerable'
      BY <1>5, <1>1 DEF Ask, Goto, ConfirmInv, IdsAreFresh, TypeOK, Running,
                        PendingIsAnswerable
    <2>3. PromptsAreTruthful'
      BY <1>5, <2>1, PushTruthful DEF Ask, ConfirmInv, PromptsAreTruthful, Truthful
    <2>4. YesAnswersTap' /\ SignatureAnswersTap'
      BY <1>5, <1>1 DEF Ask, Goto, ConfirmInv, TypeOK, YesAnswersTap,
                        SignatureAnswersTap, Approves, PromptOf
    <2>. QED
      BY <2>2, <2>3, <2>4 DEF ConfirmInv
  <1>6. ASSUME NEW r \in Requests, ReceiveAnswer(r) PROVE ConfirmInv'
    <2>1. IdsAreFresh' /\ PendingIsAnswerable'
      BY <1>6, <1>2 DEF ReceiveAnswer, Goto, ConfirmInv, IdsAreFresh, Running,
                        PendingIsAnswerable
    <2>2. PromptsAreTruthful'
      BY <1>6 DEF ReceiveAnswer, ConfirmInv, PromptsAreTruthful, Truthful
    <2>3. YesAnswersTap' /\ SignatureAnswersTap'
      <3>1. \A q \in Requests : pc'[q] = "approved" =>
              pc[q] = "approved" \/ slot[q] = "yes"
        BY <1>6, <1>1 DEF ReceiveAnswer, Goto, TypeOK
      <3>2. UNCHANGED <<slot, reqId, taps, restarts, signatures>>
        BY <1>6 DEF ReceiveAnswer
      <3>. QED
        BY <3>1, <3>2 DEF ConfirmInv, YesAnswersTap, SignatureAnswersTap,
                          Approves, PromptOf
    <2>. QED
      BY <2>1, <2>2, <2>3 DEF ConfirmInv
  <1>7. ASSUME NEW r \in Requests, Expire(r) PROVE ConfirmInv'
    <2>1. IdsAreFresh' /\ PendingIsAnswerable'
      BY <1>7, <1>1 DEF Expire, TimeOut, Goto, ConfirmInv, IdsAreFresh, TypeOK,
                        Running, PendingIsAnswerable
    <2>2. PromptsAreTruthful'
      BY <1>7 DEF Expire, TimeOut, ConfirmInv, PromptsAreTruthful, Truthful
    <2>3. YesAnswersTap' /\ SignatureAnswersTap'
      BY <1>7, <1>1 DEF Expire, TimeOut, Goto, ConfirmInv, TypeOK, YesAnswersTap,
                        SignatureAnswersTap, Approves, PromptOf
    <2>. QED
      BY <2>1, <2>2, <2>3 DEF ConfirmInv
  <1>8. ASSUME NEW r \in Requests, Withdraw(r) PROVE ConfirmInv'
    <2>1. reqId[r] # 0
      BY <1>8 DEF Withdraw, DropReceiver, Goto, ConfirmInv, IdsAreFresh, Running
    <2>2. IdsAreFresh' /\ PendingIsAnswerable'
      BY <1>8, <1>1 DEF Withdraw, DropReceiver, Goto, ConfirmInv, IdsAreFresh,
                        TypeOK, Running, PendingIsAnswerable
    <2>3. PromptsAreTruthful'
      BY <1>8, <2>1, PushTruthful DEF Withdraw, DropReceiver, ConfirmInv,
                                      PromptsAreTruthful, Truthful
    <2>4. YesAnswersTap' /\ SignatureAnswersTap'
      BY <1>8, <1>1 DEF Withdraw, DropReceiver, Goto, ConfirmInv, TypeOK,
           YesAnswersTap, SignatureAnswersTap, Approves, PromptOf
    <2>. QED
      BY <2>2, <2>3, <2>4 DEF ConfirmInv
  <1>9. ASSUME NEW r \in Requests, Sign(r) PROVE ConfirmInv'
    <2>. USE DEF Sign, Goto
    <2>1. /\ pc[r] = "approved"
          /\ pc'[r] \in {"signed", "walletLocked"}
          /\ \A q \in Requests : q # r => pc'[q] = pc[q]
      BY <1>9, <1>1 DEF TypeOK
    <2>2. UNCHANGED <<reqId, pending, slot, nextId, shellIO, history>>
      BY <1>9
    <2>3. /\ IdsAreFresh'
          /\ PendingIsAnswerable'
          /\ PromptsAreTruthful'
          /\ YesAnswersTap'
      <3>1. IdsAreFresh'
        BY <2>1, <2>2 DEF ConfirmInv, IdsAreFresh, Running
      <3>2. PendingIsAnswerable'
        BY <1>2, <2>1, <2>2 DEF ConfirmInv, PendingIsAnswerable
      <3>3. PromptsAreTruthful'
        BY <2>2 DEF ConfirmInv, PromptsAreTruthful, Truthful
      <3>4. YesAnswersTap'
        BY <2>1, <2>2 DEF ConfirmInv, YesAnswersTap, Approves, PromptOf
      <3>. QED
        BY <3>1, <3>2, <3>3, <3>4
    <2>4. \E tap \in taps : Approves(tap, PromptOf(r))
      BY <1>9 DEF ConfirmInv, YesAnswersTap
    <2>5. SignatureAnswersTap'
      BY <1>9, <2>4 DEF ConfirmInv, SignatureAnswersTap
    <2>. QED
      BY <2>3, <2>5 DEF ConfirmInv
  <1>10. ASSUME NEW r \in Requests, BeginRecord(r) PROVE ConfirmInv'
    <2>0. /\ UNCHANGED <<reqId, pending, slot>> /\ nextId' = nextId + 1
          /\ pc[r] = "signed" /\ pc' = [pc EXCEPT ![r] = "recording"]
          /\ nextId \in Nat
      BY <1>10, <1>1 DEF BeginRecord, AddEntry, Goto, TypeOK, ConfirmInv
    <2>1. IdsAreFresh' /\ PendingIsAnswerable'
      BY <2>0, <1>2 DEF ConfirmInv, IdsAreFresh, Running, PendingIsAnswerable
    <2>2. PromptsAreTruthful'
      BY <1>10 DEF BeginRecord, AddEntry, ConfirmInv, PromptsAreTruthful, Truthful
    <2>3. YesAnswersTap' /\ SignatureAnswersTap'
      BY <1>10, <1>1 DEF BeginRecord, AddEntry, Goto, ConfirmInv, TypeOK,
           YesAnswersTap, SignatureAnswersTap, Approves, PromptOf
    <2>. QED
      BY <2>1, <2>2, <2>3 DEF ConfirmInv
  <1>11. ASSUME NEW r \in Requests, EndRecord(r) PROVE ConfirmInv'
    <2>1. reqId[r] # 0
      BY <1>11 DEF EndRecord, Goto, ConfirmInv, IdsAreFresh, Running
    <2>2. IdsAreFresh' /\ PendingIsAnswerable'
      BY <1>11, <1>1 DEF EndRecord, Goto, ConfirmInv, IdsAreFresh, TypeOK,
                        Running, PendingIsAnswerable
    <2>3. PromptsAreTruthful'
      BY <1>11, <2>1, PushTruthful DEF EndRecord, ConfirmInv, PromptsAreTruthful,
                                      Truthful
    <2>4. YesAnswersTap' /\ SignatureAnswersTap'
      BY <1>11, <1>2 DEF EndRecord, Goto, ConfirmInv, YesAnswersTap,
                         SignatureAnswersTap, Approves, PromptOf
    <2>. QED
      BY <2>2, <2>3, <2>4 DEF ConfirmInv
  <1>12. ASSUME NEW s \in Shells, Connect(s) \/ WriterEnds(s) PROVE ConfirmInv'
    BY <1>12 DEF Connect, WriterEnds, ConfirmInv, IdsAreFresh,
         PendingIsAnswerable, PromptsAreTruthful, Truthful, YesAnswersTap,
         SignatureAnswersTap, Approves, PromptOf
  <1>13. ASSUME NEW s \in Shells, Disconnect(s) \/ ReloadPage(s)
         PROVE  ConfirmInv'
    <2>1. Lose(s) /\ \A q \in Shells : \/ confirming'[q] = confirming[q]
                                       \/ confirming'[q] = NoPrompt
      BY <1>13, <1>1 DEF Disconnect, ReloadPage, TypeOK
    <2>2. \A q \in Shells : events'[q] = events[q] \/ events'[q] = << >>
      BY <2>1, <1>1 DEF Lose, TypeOK
    <2>3. PromptsAreTruthful'
      BY <2>1, <2>2 DEF Lose, ConfirmInv, PromptsAreTruthful, Truthful
    <2>4. /\ IdsAreFresh'
          /\ PendingIsAnswerable'
          /\ YesAnswersTap'
          /\ SignatureAnswersTap'
      BY <2>1 DEF Lose, ConfirmInv, IdsAreFresh, PendingIsAnswerable,
                  YesAnswersTap, SignatureAnswersTap, Approves, PromptOf
    <2>. QED
      BY <2>3, <2>4 DEF ConfirmInv
  <1>14. ASSUME NEW s \in Shells, HandleEvent(s) PROVE ConfirmInv'
    <2>. DEFINE e == Head(events[s])
    <2>1. events[s] \in Seq(Events) /\ events[s] # << >>
      BY <1>14, <1>1 DEF HandleEvent, TypeOK
    <2>2. Truthful(e.prompt)
      BY <2>1 DEF ConfirmInv, PromptsAreTruthful
    <2>3. \A q \in Shells : \/ confirming'[q] = confirming[q]
                            \/ confirming'[q] = NoPrompt
                            \/ confirming'[q] = e.prompt
      BY <1>14, <1>1 DEF HandleEvent, TypeOK
    <2>4. UNCHANGED <<daemon, answers, taps, restarts, signatures>>
      BY <1>14 DEF HandleEvent
    <2>5. \A q \in Shells : q # s => events'[q] = events[q]
      BY <1>14, <1>1 DEF HandleEvent, TypeOK
    <2>6. events'[s] = Tail(events[s])
      BY <1>14, <1>1 DEF HandleEvent, TypeOK
    <2>7. \A i \in DOMAIN Tail(events[s]) :
            /\ i + 1 \in DOMAIN events[s]
            /\ Tail(events[s])[i] = events[s][i + 1]
      BY <2>1
    <2>8. \A q \in Shells : \A i \in DOMAIN events'[q] :
            Truthful(events'[q][i].prompt)
      <3>1. \A q \in Shells : \A i \in DOMAIN events[q] :
              Truthful(events[q][i].prompt)
        BY DEF ConfirmInv, PromptsAreTruthful
      <3>2. \A i \in DOMAIN events'[s] : Truthful(events'[s][i].prompt)
        BY <2>6, <2>7, <3>1
      <3>. QED
        BY <2>5, <3>1, <3>2
    <2>. HIDE DEF e
    <2>9. PromptsAreTruthful'
      BY <2>2, <2>3, <2>4, <2>8 DEF ConfirmInv, PromptsAreTruthful, Truthful
    <2>10. /\ IdsAreFresh'
           /\ PendingIsAnswerable'
           /\ YesAnswersTap'
           /\ SignatureAnswersTap'
      BY <2>4 DEF ConfirmInv, IdsAreFresh, PendingIsAnswerable, YesAnswersTap,
                  SignatureAnswersTap, Approves, PromptOf
    <2>. QED
      BY <2>9, <2>10 DEF ConfirmInv
  <1>15. ASSUME NEW s \in Shells, NEW approved \in BOOLEAN, Answer(s, approved)
         PROVE  ConfirmInv'
    <2>. DEFINE tap == [shell |-> s, prompt |-> confirming[s],
                        approved |-> approved]
    <2>1. Truthful(tap.prompt)
      BY <1>15 DEF Answer, ConfirmInv, PromptsAreTruthful
    <2>2. taps' = taps \cup {tap} /\ answers' \subseteq answers \cup {tap}
      BY <1>15 DEF Answer
    <2>3. UNCHANGED <<daemon, events, restarts, signatures>>
      BY <1>15 DEF Answer
    <2>4. \A q \in Shells : confirming'[q] = confirming[q] \/ confirming'[q] = NoPrompt
      BY <1>15, <1>1 DEF Answer, TypeOK
    <2>. HIDE DEF tap
    <2>5. PromptsAreTruthful'
      BY <2>1, <2>2, <2>3, <2>4 DEF ConfirmInv, PromptsAreTruthful, Truthful
    <2>6. IdsAreFresh' /\ PendingIsAnswerable'
      BY <2>3 DEF ConfirmInv, IdsAreFresh, PendingIsAnswerable
    <2>7. YesAnswersTap' /\ SignatureAnswersTap'
      BY <2>2, <2>3 DEF ConfirmInv, YesAnswersTap, SignatureAnswersTap,
                        Approves, PromptOf
    <2>. QED
      BY <2>5, <2>6, <2>7 DEF ConfirmInv
  <1>16. ASSUME NEW a \in answers, ResolveConfirmation(a) PROVE ConfirmInv'
    <2>1. a \in taps /\ Truthful(a.prompt) /\ a.prompt.req \in Requests
      BY <1>1 DEF ConfirmInv, PromptsAreTruthful, TypeOK, Taps, Prompts
    <2>2. \A r \in Waiters(a) :
            /\ r \in Requests
            /\ pc[r] \in {"registered", "waiting", "expired"}
            /\ a.approved => Approves(a, PromptOf(r))
      <3>. SUFFICES ASSUME NEW r \in Waiters(a)
                    PROVE  /\ r \in Requests
                           /\ pc[r] \in {"registered", "waiting", "expired"}
                           /\ a.prompt.life = restarts => a.prompt.req = r
        BY DEF Waiters, Approves, PromptOf
      <3>1. r \in pending /\ r \in Requests /\ reqId[r] = a.prompt.id
        BY <1>1 DEF Waiters, TypeOK
      <3>2. pc[r] \in {"registered", "waiting", "expired"}
        BY <3>1 DEF ConfirmInv, PendingIsAnswerable
      <3>3. a.prompt.life = restarts => a.prompt.req = r
        BY <2>1, <3>1 DEF ConfirmInv, IdsAreFresh, Truthful
      <3>. QED
        BY <3>1, <3>2, <3>3
    <2>3. UNCHANGED <<pc, reqId, nextId, events, confirming, taps, restarts,
                      signatures>>
      BY <1>16 DEF ResolveConfirmation, Deliver
    <2>4. \A r \in Requests :
            \/ slot'[r] = slot[r]
            \/ /\ r \in Waiters(a)
               /\ slot'[r] = IF a.approved THEN "yes" ELSE "no"
      BY <1>16 DEF ResolveConfirmation, Deliver
    <2>5. pending' = pending \ Waiters(a) /\ answers' \subseteq answers
      BY <1>16 DEF ResolveConfirmation, Deliver
    <2>6. IdsAreFresh'
      BY <2>2, <2>3, <2>4 DEF ConfirmInv, IdsAreFresh
    <2>7. PendingIsAnswerable'
      BY <1>1, <2>3, <2>4, <2>5 DEF ConfirmInv, PendingIsAnswerable, TypeOK
    <2>8. PromptsAreTruthful'
      BY <2>3, <2>5 DEF ConfirmInv, PromptsAreTruthful, Truthful
    <2>9. YesAnswersTap'
      <3>. SUFFICES ASSUME NEW r \in Requests, slot'[r] = "yes" \/ pc[r] = "approved"
                    PROVE  \E tap \in taps : Approves(tap, PromptOf(r))
        BY <2>3 DEF YesAnswersTap, PromptOf, Approves
      <3>1. CASE r \in Waiters(a)
        <4>1. pc[r] # "approved"
          BY <2>2, <3>1
        <4>2. CASE slot'[r] = slot[r]
          BY <4>1, <4>2 DEF ConfirmInv, YesAnswersTap
        <4>3. CASE slot'[r] # slot[r]
          BY <2>1, <2>2, <2>4, <3>1, <4>1, <4>3
        <4>. QED
          BY <4>2, <4>3
      <3>2. CASE r \notin Waiters(a)
        BY <2>4, <3>2 DEF ConfirmInv, YesAnswersTap
      <3>. QED
        BY <3>1, <3>2
    <2>10. SignatureAnswersTap'
      BY <2>3 DEF ConfirmInv, SignatureAnswersTap, Approves
    <2>. QED
      BY <2>6, <2>7, <2>8, <2>9, <2>10 DEF ConfirmInv
  <1>17. ASSUME WalletStep PROVE ConfirmInv'
    BY <1>17 DEF WalletStep, ConfirmInv, IdsAreFresh, PendingIsAnswerable,
         PromptsAreTruthful, Truthful, YesAnswersTap, SignatureAnswersTap,
         Approves, PromptOf
  <1>18. ASSUME Restart PROVE ConfirmInv'
    <2>. USE <1>18 DEF Restart
    <2>1. \A r \in Requests : pc'[r] \notin Running
      BY <1>1 DEF TypeOK, PCs, Running, Refusals, Signing
    <2>2. IdsAreFresh'
      BY <2>1 DEF IdsAreFresh
    <2>3. PendingIsAnswerable'
      BY DEF PendingIsAnswerable
    <2>4. \A q \in Prompts : Truthful(q) => Truthful(q)'
      BY <1>1 DEF Truthful, TypeOK, Prompts
    <2>5. PromptsAreTruthful'
      <3>1. \A s \in Shells : confirming[s] # NoPrompt => confirming[s] \in Prompts
        BY <1>1 DEF TypeOK
      <3>2. \A tap \in taps : tap.prompt \in Prompts
        BY <1>1 DEF TypeOK, Taps
      <3>. QED
        BY <2>4, <3>1, <3>2 DEF ConfirmInv, PromptsAreTruthful
    <2>6. YesAnswersTap' /\ SignatureAnswersTap'
      BY <2>1 DEF ConfirmInv, YesAnswersTap, SignatureAnswersTap, Approves, Running
    <2>. QED
      BY <2>2, <2>3, <2>5, <2>6 DEF ConfirmInv
  <1>19. CASE UNCHANGED vars
    BY <1>19 DEF ConfirmInv, IdsAreFresh, PendingIsAnswerable,
         PromptsAreTruthful, Truthful, YesAnswersTap, SignatureAnswersTap,
         Approves, PromptOf
  <1>. QED
    BY <1>3, <1>4, <1>5, <1>6, <1>7, <1>8, <1>9, <1>10, <1>11, <1>12, <1>13,
       <1>14, <1>15, <1>16, <1>17, <1>18, <1>19 DEF Next, Handler, Shell

(* The inductive invariant holds throughout.                               *)
THEOREM ConfirmInvariant == Spec => []ConfirmInv
  <1>1. Init => ConfirmInv \/ ~TypeOK
    BY DEF Init, ConfirmInv, IdsAreFresh, PendingIsAnswerable, Running,
           PromptsAreTruthful, YesAnswersTap, SignatureAnswersTap
  <1>. QED
    BY <1>1, TypeCorrect, ConfirmInvStep, PTL DEF Spec

(* sign_transaction / resolve_confirmation: every signature answers an     *)
(* approving tap on a prompt with its request id, and never one of another *)
(* call's prompt raised by the same daemon.                                *)
THEOREM SignatureNeedsTap == Spec => []SignatureAnswersTap
  <1>1. ConfirmInv => SignatureAnswersTap
    BY DEF ConfirmInv
  <1>. QED
    BY <1>1, ConfirmInvariant, PTL

(* pending_confirms never keeps an entry nobody listens to, and never two  *)
(* calls under one id.                                                     *)
THEOREM PendingSound == Spec => []PendingIsAnswerable
  <1>1. ConfirmInv => PendingIsAnswerable
    BY DEF ConfirmInv
  <1>. QED
    BY <1>1, ConfirmInvariant, PTL

-----------------------------------------------------------------------------
(* record_wallet_activity: when wallet-activity.json can be read, it is    *)
(* the list in memory or, if newer entries could not open it, the list of  *)
(* the last write that could; the mutex is held until the write is over.   *)
THEOREM DiskSound == Spec => []DiskIsTornOrCurrent
  <1>. DEFINE Inv == RecorderHoldsLock /\ DiskIsTornOrCurrent
  <1>1. Init => Inv
    BY DEF Init, RecorderHoldsLock, DiskIsTornOrCurrent
  <1>2. TypeOK /\ Inv /\ [Next]_vars => Inv'
    <2>. SUFFICES ASSUME TypeOK, Inv, [Next]_vars PROVE Inv'
      OBVIOUS
    <2>. USE DEF vars, daemon, shellIO, journal, history, RecorderHoldsLock,
                 DiskIsTornOrCurrent
    <2>1. pc \in [Requests -> PCs] /\ bytes \in [Requests -> Seq(Requests)]
      BY DEF TypeOK
    <2>2. ASSUME NEW r \in Requests, BeginRecord(r) PROVE Inv'
      <3>1. /\ \A q \in Requests : q # r => pc[q] # "recording" /\ pc'[q] = pc[q]
            /\ pc[r] # "recording" /\ pc'[r] = "recording"
        BY <2>1, <2>2, ConstantsAssumption DEF BeginRecord, AddEntry, Goto
      <3>2. CASE behind' = FALSE
        <4>1. bytes' = [bytes EXCEPT ![r] = activity'] /\ saved' = activity'
              /\ file' = Torn /\ writer' = r
          BY <2>2, <3>2 DEF BeginRecord, AddEntry
        <4>. QED
          BY <2>1, <3>1, <3>2, <4>1
      <3>3. CASE behind' = TRUE
        <4>1. bytes' = bytes /\ saved' = saved /\ file' = file /\ writer' = r
              /\ bytes[r] = << >>
          BY <2>2, <3>3 DEF BeginRecord, AddEntry, Goto
        <4>. QED
          BY <2>1, <3>1, <3>3, <4>1
      <3>. QED
        BY <2>2, <3>2, <3>3 DEF BeginRecord, AddEntry
    <2>3. ASSUME NEW r \in Requests, EndRecord(r) PROVE Inv'
      <3>1. \A q \in Requests : pc'[q] # "recording"
        BY <2>1, <2>3 DEF EndRecord, Goto
      <3>. QED
        BY <2>1, <2>3, <3>1 DEF EndRecord, Goto
    <2>4. ASSUME NEW r \in Requests, Handler(r),
                 ~BeginRecord(r), ~EndRecord(r)
          PROVE  Inv'
      <3>1. UNCHANGED journal
        BY <2>4 DEF Handler, SignInvalid, SignTransaction, Register, Ask, ReceiveAnswer, Expire, TimeOut, Withdraw, DropReceiver, Sign
      <3>2. \A q \in Requests : pc'[q] = "recording" <=> pc[q] = "recording"
        BY <2>1, <2>4 DEF Handler, SignInvalid, SignTransaction, Register,
             Ask, ReceiveAnswer, Expire, TimeOut, Withdraw,
             DropReceiver, Sign, Goto
      <3>. QED
        BY <3>1, <3>2
    <2>5. ASSUME NEW s \in Shells, Shell(s) PROVE Inv'
      <3>1. UNCHANGED <<pc, journal>>
        BY <2>5 DEF Shell, Connect, Disconnect, ReloadPage, Lose, WriterEnds,
                    HandleEvent, Answer
      <3>. QED
        BY <3>1
    <2>6. ASSUME NEW a \in answers, ResolveConfirmation(a) PROVE Inv'
      BY <2>6 DEF ResolveConfirmation, Deliver
    <2>7. CASE WalletStep
      BY <2>7 DEF WalletStep
    <2>8. CASE Restart
      BY <2>1, <2>8 DEF Restart, Running
    <2>9. CASE UNCHANGED vars
      BY <2>9
    <2>. QED
      BY <2>2, <2>3, <2>4, <2>5, <2>6, <2>7, <2>8, <2>9 DEF Next
  <1>3. Inv => DiskIsTornOrCurrent
    OBVIOUS
  <1>. QED
    BY <1>1, <1>2, <1>3, TypeCorrect, PTL DEF Spec

-----------------------------------------------------------------------------
(* Adding an entry and capping the list keeps the newest k + 1, as long as *)
(* the cap allows that many.                                               *)
LEMMA CappedKeepsNewest ==
  ASSUME NEW list \in Seq(Requests), NEW r \in Requests,
         NEW k \in Nat, k < ActivityCap, k <= Len(list)
  PROVE  LET new == Capped(Append(list, r))
             n   == Len(list)
             m   == Len(new)
         IN  /\ k + 1 <= m
             /\ {new[i] : i \in (m - k)..m} =
                  {list[i] : i \in (n - k + 1)..n} \cup {r}
  <1>. DEFINE long == Append(list, r)
              n    == Len(list)
              d    == IF n + 1 > ActivityCap THEN n + 1 - ActivityCap ELSE 0
              new  == Capped(long)
              m    == Len(new)
  <1>1. n \in Nat /\ ActivityCap \in Nat \ {0}
    BY ConstantsAssumption
  <1>2. /\ Len(long) = n + 1
        /\ \A i \in 1..n : long[i] = list[i]
        /\ long[n + 1] = r
    BY <1>1
  <1>3. d \in Nat /\ d + k <= n /\ new = SubSeq(long, d + 1, n + 1)
    BY <1>1, <1>2 DEF Capped, Newest
  <1>4. long \in Seq(Requests)
    OBVIOUS
  <1>. HIDE DEF long, d
  <1>5. /\ m = n + 1 - d
        /\ \A i \in 1..m : new[i] = long[d + i]
    BY <1>1, <1>2, <1>3, <1>4
  <1>. HIDE DEF new
  <1>6. k + 1 <= m /\ m - k >= 1
    BY <1>1, <1>3, <1>5
  <1>. HIDE DEF m, n
  <1>7. m \in Nat
    BY <1>1, <1>3, <1>5
  <1>8. \A i \in (m - k)..m : \/ i = m /\ new[i] = r
                              \/ /\ d + i \in (n - k + 1)..n
                                 /\ new[i] = list[d + i]
    <2>. SUFFICES ASSUME NEW i \in (m - k)..m
                  PROVE  \/ i = m /\ new[i] = r
                         \/ /\ d + i \in (n - k + 1)..n
                            /\ new[i] = list[d + i]
      OBVIOUS
    <2>1. i \in 1..m /\ i \in Nat
      BY <1>6, <1>7
    <2>2. new[i] = long[d + i]
      BY <1>5, <2>1
    <2>3. CASE i = m
      BY <1>1, <1>2, <1>3, <1>5, <2>2, <2>3
    <2>4. CASE i # m
      <3>1. d + i \in (n - k + 1)..n /\ d + i \in 1..n
        BY <1>1, <1>3, <1>5, <1>6, <2>1, <2>4
      <3>. QED
        BY <1>2, <2>2, <3>1
    <2>. QED
      BY <2>3, <2>4
  <1>9. \A j \in (n - k + 1)..n : /\ j - d \in (m - k)..m
                                  /\ new[j - d] = list[j]
    <2>. SUFFICES ASSUME NEW j \in (n - k + 1)..n
                  PROVE  j - d \in (m - k)..m /\ new[j - d] = list[j]
      OBVIOUS
    <2>0. k <= n
      BY DEF n
    <2>1. j - d \in (m - k)..m /\ j - d \in 1..m /\ j \in 1..n /\ d + (j - d) = j
      BY <1>1, <1>3, <1>5, <1>6, <2>0
    <2>. QED
      BY <1>2, <1>5, <2>1
  <1>10. m \in (m - k)..m
    BY <1>6, <1>7
  <1>11. new[m] = r
    <2>1. m \in 1..m /\ d + m = n + 1
      BY <1>1, <1>3, <1>5, <1>6, <1>7
    <2>. QED
      BY <1>2, <1>5, <2>1
  <1>12. {new[i] : i \in (m - k)..m} = {list[i] : i \in (n - k + 1)..n} \cup {r}
    BY <1>8, <1>9, <1>10, <1>11
  <1>. QED
    BY <1>6, <1>12 DEF new, m, n, long

(* Every step keeps the calls recorded in this life the newest entries.    *)
LEMMA NewestStep ==
  ConfirmInv /\ NewestAreRecorded /\ [Next]_vars => NewestAreRecorded'
  <1>. SUFFICES ASSUME ConfirmInv, NewestAreRecorded, [Next]_vars
                PROVE  NewestAreRecorded'
    OBVIOUS
  <1>. USE DEF vars, daemon, shellIO, journal, history
  <1>1. /\ pc \in [Requests -> PCs]
        /\ reqId \in [Requests -> Nat]
        /\ activity \in Seq(Requests)
        /\ ActivityCap \in Nat
    BY ConstantsAssumption DEF ConfirmInv, TypeOK
  <1>2. ASSUME UNCHANGED activity, Recorded' = Recorded PROVE NewestAreRecorded'
    BY <1>2 DEF NewestAreRecorded
  <1>3. ASSUME NEW r \in Requests, BeginRecord(r) PROVE NewestAreRecorded'
    <2>. DEFINE k == Cardinality(Recorded)
                n == Len(activity)
                m == Len(activity')
    <2>1. /\ pc[r] = "signed" /\ pc' = [pc EXCEPT ![r] = "recording"]
          /\ reqId' = reqId
          /\ activity' = Capped(Append(activity, r))
      BY <1>3 DEF BeginRecord, AddEntry, Goto
    <2>2. reqId[r] # 0
      BY <2>1 DEF ConfirmInv, IdsAreFresh, Running
    <2>3. r \notin Recorded /\ Recorded' = Recorded \cup {r}
      BY <1>1, <2>1, <2>2 DEF Recorded
    <2>4. IsFiniteSet(Recorded) /\ k \in Nat
      BY FS_CardinalityType DEF NewestAreRecorded
    <2>5. IsFiniteSet(Recorded') /\ Cardinality(Recorded') = k + 1
      BY <2>3, <2>4, FS_AddElement
    <2>6. ASSUME k + 1 <= ActivityCap
          PROVE  k + 1 <= m /\ Recorded' = {activity'[i] : i \in (m - (k + 1) + 1)..m}
      <3>1. k < ActivityCap /\ k <= n /\ Recorded = {activity[i] : i \in (n - k + 1)..n}
        BY <1>1, <2>4, <2>6 DEF NewestAreRecorded
      <3>. HIDE DEF k
      <3>2. /\ k + 1 <= m
            /\ {activity'[i] : i \in (m - k)..m} =
                 {activity[i] : i \in (n - k + 1)..n} \cup {r}
        <4>1. activity \in Seq(Requests)
          BY <1>1
        <4>2. k \in Nat /\ k < ActivityCap /\ k <= Len(activity)
          BY <2>4, <3>1
        <4>. DEFINE new == Capped(Append(activity, r))
        <4>3. /\ k + 1 <= Len(new)
              /\ {new[i] : i \in (Len(new) - k)..Len(new)} =
                   {activity[i] : i \in (Len(activity) - k + 1)..Len(activity)} \cup {r}
          BY <4>1, <4>2, CappedKeepsNewest
        <4>. HIDE DEF new
        <4>4. activity' = new
          BY <2>1 DEF new
        <4>. QED
          BY <4>3, <4>4
      <3>3. m \in Nat
        <4>1. Append(activity, r) \in Seq(Requests) /\ Len(Append(activity, r)) > 0
          BY <1>1
        <4>2. activity' \in Seq(Requests)
          BY <2>1, <4>1, CappedType
        <4>. QED
          BY <4>2
      <3>4. m - (k + 1) + 1 = m - k
        BY <2>4, <3>3
      <3>. QED
        BY <2>3, <3>1, <3>2, <3>4
    <2>. QED
      BY <2>5, <2>6 DEF NewestAreRecorded
  <1>4. ASSUME NEW r \in Requests, Handler(r), ~BeginRecord(r)
        PROVE  NewestAreRecorded'
    <2>1. UNCHANGED activity
      BY <1>4 DEF Handler, SignInvalid, SignTransaction, Register, Ask,
         ReceiveAnswer, Expire, TimeOut, Withdraw, DropReceiver, Sign, EndRecord
    <2>2. \A q \in Requests :
            /\ pc'[q] \in {"recording", "done"} <=> pc[q] \in {"recording", "done"}
            /\ pc[q] \in {"recording", "done"} => reqId'[q] = reqId[q]
      BY <1>4, <1>1 DEF Handler, SignInvalid, SignTransaction, Register, Ask,
         ReceiveAnswer, Expire, TimeOut, Withdraw, DropReceiver, Sign, EndRecord,
         Goto
    <2>. QED
      BY <1>2, <2>1, <2>2 DEF Recorded
  <1>5. ASSUME NEW s \in Shells, Shell(s) PROVE NewestAreRecorded'
    <2>1. UNCHANGED <<pc, reqId, activity>>
      BY <1>5 DEF Shell, Connect, Disconnect, ReloadPage, Lose, WriterEnds,
         HandleEvent, Answer
    <2>. QED
      BY <1>2, <2>1 DEF Recorded
  <1>6. ASSUME NEW a \in answers, ResolveConfirmation(a) PROVE NewestAreRecorded'
    BY <1>2, <1>6 DEF ResolveConfirmation, Deliver, Recorded
  <1>7. CASE WalletStep
    BY <1>2, <1>7 DEF WalletStep, Recorded
  <1>8. CASE Restart
    <2>1. Recorded' = {}
      BY <1>8 DEF Restart, Recorded
    <2>2. activity' \in Seq(Requests)
      <3>1. TypeOK
        BY DEF ConfirmInv
      <3>2. << >> \in Seq(Requests)
        OBVIOUS
      <3>. QED
        BY <1>8, <3>1, <3>2 DEF Restart, TypeOK
    <2>3. Len(activity') \in Nat
      BY <2>2
    <2>4. IsFiniteSet(Recorded') /\ Cardinality(Recorded') = 0
      BY <2>1, FS_EmptySet
    <2>5. (Len(activity') - 0 + 1)..Len(activity') = {}
      BY <2>3
    <2>. QED
      BY <2>1, <2>3, <2>4, <2>5 DEF NewestAreRecorded
  <1>9. CASE UNCHANGED vars
    BY <1>2, <1>9 DEF Recorded
  <1>. QED
    BY <1>3, <1>4, <1>5, <1>6, <1>7, <1>8, <1>9 DEF Next

(* record_wallet_activity runs before the reply: a signature its caller    *)
(* has been given in this life is in the activity list, unless more than   *)
(* ActivityCap have been recorded since.                                   *)
THEOREM ReleasedSound == Spec => []ReleasedIsRecorded
  <1>1. Init => NewestAreRecorded
    <2>. SUFFICES ASSUME Init PROVE NewestAreRecorded
      OBVIOUS
    <2>1. Recorded = {} /\ activity = << >>
      BY DEF Init, Recorded
    <2>2. IsFiniteSet(Recorded) /\ Cardinality(Recorded) = 0
      BY <2>1, FS_EmptySet
    <2>3. Len(activity) = 0 /\ (0 - 0 + 1)..0 = {}
      BY <2>1
    <2>. QED
      BY <2>1, <2>2, <2>3 DEF NewestAreRecorded
  <1>2. TypeOK /\ NewestAreRecorded => ReleasedIsRecorded
    <2>. SUFFICES ASSUME TypeOK, NewestAreRecorded PROVE ReleasedIsRecorded
      OBVIOUS
    <2>0. Cardinality(Recorded) \in Nat /\ ActivityCap \in Nat
      BY FS_CardinalityType, ConstantsAssumption DEF NewestAreRecorded
    <2>. SUFFICES ASSUME NEW r \in Recorded, Cardinality(Recorded) <= ActivityCap
                  PROVE  \E i \in DOMAIN activity : activity[i] = r
      BY <2>0 DEF ReleasedIsRecorded
    <2>. DEFINE k == Cardinality(Recorded)
                n == Len(activity)
    <2>1. k \in Nat /\ k <= n /\ n \in Nat /\ DOMAIN activity = 1..n
      BY FS_CardinalityType DEF NewestAreRecorded, TypeOK
    <2>2. PICK i \in (n - k + 1)..n : activity[i] = r
      BY DEF NewestAreRecorded
    <2>. HIDE DEF k, n
    <2>3. i \in 1..n
      BY <2>1, <2>2
    <2>. QED
      BY <2>1, <2>2, <2>3
  <1>. QED
    BY <1>1, <1>2, NewestStep, ConfirmInvariant, TypeCorrect, PTL DEF Spec

-----------------------------------------------------------------------------
(* What the refinement needs besides ConfirmInv is an invariant too.       *)
LEMMA RefinementInvariant == Spec => [](ScreensAreShown /\ SignersArePast)
  <1>. DEFINE Inv == ScreensAreShown /\ SignersArePast
  <1>1. Init => Inv
    BY DEF Init, ScreensAreShown, SignersArePast
  <1>2. TypeOK /\ Inv /\ [Next]_vars => Inv'
    <2>. SUFFICES ASSUME TypeOK, Inv, [Next]_vars PROVE Inv'
      OBVIOUS
    <2>. USE DEF vars, daemon, shellIO, journal, history
    <2>1. /\ pc \in [Requests -> PCs]
          /\ confirming \in [Shells -> Prompts \cup {NoPrompt}]
      BY DEF TypeOK
    <2>2. \A g \in signatures : g.req \in Requests
      BY DEF TypeOK, Prompts
    <2>3. ASSUME NEW r \in Requests, Handler(r) PROVE Inv'
      <3>1. ScreensAreShown'
        BY <2>3 DEF ScreensAreShown, Handler, SignInvalid, SignTransaction,
             Register, Ask, ReceiveAnswer, Expire, TimeOut, Withdraw,
             DropReceiver, Sign, BeginRecord, AddEntry, EndRecord
      <3>2. CASE Sign(r)
        <4>1. pc' \in [Requests -> PCs] /\ pc[r] = "approved"
              /\ \A q \in Requests : q # r => pc'[q] = pc[q]
          BY <2>1, <3>2 DEF Sign, Goto, PCs, Running, Refusals
        <4>2. \A g \in signatures : g.req # r
          BY <2>2, <4>1 DEF SignersArePast, Signing
        <4>3. ASSUME signatures' = signatures PROVE SignersArePast'
          BY <2>2, <4>1, <4>2, <4>3 DEF SignersArePast
        <4>4. ASSUME pc'[r] = "signed", signatures' = signatures \cup {PromptOf(r)}
              PROVE  SignersArePast'
          <5>1. PromptOf(r).req = r /\ "signed" \in Signing
            BY DEF PromptOf, Signing
          <5>. QED
            BY <2>2, <4>1, <4>2, <4>4, <5>1 DEF SignersArePast
        <4>5. \/ signatures' = signatures
              \/ pc'[r] = "signed" /\ signatures' = signatures \cup {PromptOf(r)}
          BY <2>1, <3>2 DEF Sign, Goto
        <4>. QED
          BY <3>1, <4>3, <4>4, <4>5
      <3>3. CASE ~Sign(r)
        <4>1. signatures' = signatures
          BY <2>3, <3>3 DEF Handler, SignInvalid, SignTransaction, Register,
               Ask, ReceiveAnswer, Expire, TimeOut, Withdraw,
               DropReceiver, BeginRecord, AddEntry, EndRecord
        <4>2. \A q \in Requests : pc[q] \in Signing \cup {"crashed"}
                => pc'[q] \in Signing \cup {"crashed"}
          BY <2>1, <2>3, <3>3 DEF Handler, SignInvalid, SignTransaction,
               Register, Ask, ReceiveAnswer, Expire, TimeOut,
               Withdraw, DropReceiver, BeginRecord, AddEntry, EndRecord, Goto,
               Signing
        <4>. QED
          BY <2>2, <3>1, <4>1, <4>2 DEF SignersArePast
      <3>. QED
        BY <3>2, <3>3
    <2>4. ASSUME NEW s \in Shells, HandleEvent(s) PROVE Inv'
      BY <2>1, <2>4 DEF HandleEvent, ScreensAreShown, SignersArePast
    <2>5. ASSUME NEW s \in Shells, NEW approved \in BOOLEAN, Answer(s, approved)
          PROVE  Inv'
      BY <2>1, <2>5 DEF Answer, ScreensAreShown, SignersArePast
    <2>6. ASSUME NEW s \in Shells, Connect(s) \/ WriterEnds(s) PROVE Inv'
      BY <2>6 DEF Connect, WriterEnds, ScreensAreShown, SignersArePast
    <2>7. ASSUME NEW s \in Shells, Disconnect(s) \/ ReloadPage(s) PROVE Inv'
      BY <2>1, <2>7 DEF Disconnect, ReloadPage, Lose, ScreensAreShown,
                        SignersArePast
    <2>8. ASSUME NEW a \in answers, ResolveConfirmation(a) PROVE Inv'
      BY <2>8 DEF ResolveConfirmation, Deliver, ScreensAreShown, SignersArePast
    <2>9. CASE WalletStep
      BY <2>9 DEF WalletStep, ScreensAreShown, SignersArePast
    <2>10. CASE Restart
      <3>1. \A q \in Requests : pc[q] \in Signing \cup {"crashed"}
              => pc'[q] \in Signing \cup {"crashed"}
        BY <2>1, <2>10 DEF Restart, Signing, Running
      <3>. QED
        BY <2>2, <2>10, <3>1 DEF Restart, ScreensAreShown,
                                 SignersArePast
    <2>11. CASE UNCHANGED vars
      BY <2>11 DEF ScreensAreShown, SignersArePast
    <2>. QED
      BY <2>3, <2>4, <2>5, <2>6, <2>7, <2>8, <2>9, <2>10, <2>11 DEF Next, Shell
  <1>. QED
    BY <1>1, <1>2, TypeCorrect, PTL DEF Spec

(* The calls some signature is for.                                        *)
Signers == {g.req : g \in signatures}

(* While the first daemon runs, signing is what SigningConsent promises: a *)
(* call is signed at most once, after its own prompt was on a screen and a *)
(* user approved that prompt, and a refusal is final.                      *)
THEOREM ConsentRefinement == Spec => ImplementsConsent
  <1>. USE DEF vars, daemon, shellIO, journal, history
  <1>1. Init => Consent!Init
    BY DEF Init, Consent!Init, Verdict, Refusals
  <1>2. ConfirmInv /\ ScreensAreShown /\ SignersArePast /\ [Next]_vars
          => [restarts' = 0 => Consent!Next \/ UNCHANGED Consent!vars]_vars
    <2>. SUFFICES ASSUME ConfirmInv, ScreensAreShown, SignersArePast, Next,
                         restarts' = 0
                  PROVE  Consent!Next \/ UNCHANGED Consent!vars
      OBVIOUS
    <2>. DEFINE C == {tap.prompt.req : tap \in {t \in taps : t.approved}}
    <2>1. /\ pc \in [Requests -> PCs]
          /\ confirming \in [Shells -> Prompts \cup {NoPrompt}]
      BY DEF ConfirmInv, TypeOK
    <2>2. ~Restart /\ restarts = 0
      <3>1. restarts \in Nat
        BY ConstantsAssumption DEF ConfirmInv, TypeOK
      <3>2. ~Restart
        BY <3>1 DEF Restart
      <3>3. restarts' = restarts
        BY <3>2 DEF Next, Handler, SignInvalid, SignTransaction, Register,
             Ask, ReceiveAnswer, Expire, TimeOut, Withdraw,
             DropReceiver, Sign, BeginRecord, AddEntry, EndRecord, Shell,
             Connect, Disconnect, ReloadPage, Lose, WriterEnds, HandleEvent,
             Answer, ResolveConfirmation, Deliver, WalletStep
      <3>. QED
        BY <3>2, <3>3
    <2>3. \A r \in Requests : r \in Signers => pc[r] \in Signing \cup {"crashed"}
      BY DEF SignersArePast, Signers
    <2>4. ASSUME NEW r \in Requests, shown' = shown, taps' = taps,
                 signatures' = signatures,
                 pc[r] \notin Refusals \cup Signing \cup {"crashed"},
                 pc'[r] \in Refusals,
                 \A q \in Requests : q # r => pc'[q] = pc[q]
          PROVE  Consent!Next
      <3>1. Verdict(r) = "open" /\ Verdict(r)' = "refused"
        BY <2>3, <2>4 DEF Verdict, Signers
      <3>2. \A q \in Requests : q # r => Verdict(q)' = Verdict(q)
        BY <2>4 DEF Verdict
      <3>3. Consent!Refuse(r)
        BY <2>4, <3>1, <3>2 DEF Consent!Refuse
      <3>. QED
        BY <3>3 DEF Consent!Next
    <2>5. ASSUME shown' = shown, taps' = taps, signatures' = signatures,
                 \A q \in Requests : pc'[q] \in Refusals <=> pc[q] \in Refusals
          PROVE  UNCHANGED Consent!vars
      <3>1. \A q \in Requests : Verdict(q)' = Verdict(q)
        BY <2>5 DEF Verdict
      <3>. QED
        BY <2>5, <3>1 DEF Consent!vars
    <2>6. ASSUME NEW r \in Requests, Sign(r)
          PROVE  Consent!Next \/ UNCHANGED Consent!vars
      <3>1. pc[r] = "approved" /\ shown' = shown /\ taps' = taps
            /\ \A q \in Requests : q # r => pc'[q] = pc[q]
        BY <2>1, <2>6 DEF Sign, Goto
      <3>2. CASE pc'[r] = "walletLocked" /\ signatures' = signatures
        BY <2>4, <3>1, <3>2 DEF Refusals, Signing
      <3>3. CASE pc'[r] = "signed" /\ signatures' = signatures \cup {PromptOf(r)}
        <4>1. PICK tap \in taps : Approves(tap, PromptOf(r))
          BY <3>1 DEF ConfirmInv, YesAnswersTap
        <4>2. tap.prompt.life = restarts
          BY <2>2 DEF ConfirmInv, PromptsAreTruthful, Truthful, TypeOK, Taps,
                      Prompts
        <4>3. r \in C
          BY <4>1, <4>2 DEF Approves, PromptOf
        <4>4. r \notin Signers /\ Signers' = Signers \cup {r}
          <5>1. PromptOf(r).req = r
            BY DEF PromptOf
          <5>2. r \notin Signers
            BY <2>3, <3>1 DEF Signing
          <5>. QED
            BY <3>3, <5>1, <5>2 DEF Signers
        <4>5. Verdict(r) = "open" /\ Verdict(r)' = "signed"
          <5>1. pc[r] \notin Refusals
            BY <3>1 DEF Refusals
          <5>2. Verdict(r) = "open"
            BY <4>4, <5>1 DEF Verdict, Signers
          <5>3. r \in Signers' /\ pc'[r] \notin Refusals
            BY <3>3, <4>4 DEF Refusals
          <5>4. Verdict(r)' = "signed"
            BY <5>3 DEF Verdict, Signers
          <5>. QED
            BY <5>2, <5>4
        <4>6. \A q \in Requests : q # r => Verdict(q)' = Verdict(q)
          BY <3>1, <4>4 DEF Verdict, Signers
        <4>7. Consent!Sign(r)
          BY <3>1, <4>3, <4>5, <4>6 DEF Consent!Sign
        <4>. QED
          BY <4>7 DEF Consent!Next
      <3>4. \/ pc'[r] = "walletLocked" /\ signatures' = signatures
            \/ pc'[r] = "signed" /\ signatures' = signatures \cup {PromptOf(r)}
        BY <2>1, <2>6 DEF Sign, Goto
      <3>. QED
        BY <3>2, <3>3, <3>4
    <2>7. ASSUME NEW r \in Requests,
                 SignInvalid(r) \/ SignTransaction(r) \/ ReceiveAnswer(r) \/ Withdraw(r)
          PROVE  Consent!Next \/ UNCHANGED Consent!vars
      <3>1. /\ shown' = shown /\ taps' = taps /\ signatures' = signatures
            /\ pc[r] \in {"idle", "waiting", "expired"}
            /\ pc'[r] \in Refusals \cup {"checked", "approved"}
            /\ \A q \in Requests : q # r => pc'[q] = pc[q]
        BY <2>1, <2>7 DEF SignInvalid, SignTransaction, ReceiveAnswer, Withdraw,
                          DropReceiver, Goto, Refusals
      <3>2. CASE pc'[r] \in Refusals
        BY <2>4, <3>1, <3>2 DEF Refusals, Signing
      <3>3. CASE pc'[r] \notin Refusals
        BY <2>5, <3>1, <3>3 DEF Refusals
      <3>. QED
        BY <3>2, <3>3
    <2>8. ASSUME NEW r \in Requests,
                 Register(r) \/ Ask(r) \/ Expire(r) \/ BeginRecord(r) \/ EndRecord(r)
          PROVE  UNCHANGED Consent!vars
      <3>1. /\ shown' = shown /\ taps' = taps /\ signatures' = signatures
            /\ pc[r] \notin Refusals /\ pc'[r] \notin Refusals
            /\ \A q \in Requests : q # r => pc'[q] = pc[q]
        BY <2>1, <2>8 DEF Register, Ask, Expire, TimeOut, BeginRecord,
                          AddEntry, EndRecord, Goto, Refusals
      <3>. QED
        BY <2>5, <3>1
    <2>9. ASSUME NEW s \in Shells, HandleEvent(s)
          PROVE  Consent!Next \/ UNCHANGED Consent!vars
      <3>. DEFINE req == Head(events[s]).prompt.req
      <3>1. events[s] \in Seq(Events) /\ events[s] # << >>
        BY <2>9 DEF HandleEvent, ConfirmInv, TypeOK
      <3>2. req \in Requests
        <4>1. Head(events[s]) \in Events
          BY <3>1, QueueType
        <4>. QED
          BY <4>1 DEF Events, Prompts
      <3>3. /\ pc' = pc /\ taps' = taps /\ signatures' = signatures
            /\ shown' = shown \/ shown' = shown \cup {req}
        BY <2>9 DEF HandleEvent
      <3>4. \A q \in Requests : Verdict(q)' = Verdict(q)
        BY <3>3 DEF Verdict
      <3>5. CASE shown' = shown
        BY <3>3, <3>4, <3>5 DEF Consent!vars
      <3>6. CASE shown' = shown \cup {req}
        <4>1. Consent!Show(req)
          BY <3>3, <3>4, <3>6 DEF Consent!Show
        <4>. QED
          BY <3>2, <4>1 DEF Consent!Next
      <3>. QED
        BY <3>3, <3>5, <3>6
    <2>10. ASSUME NEW s \in Shells, NEW approved \in BOOLEAN, Answer(s, approved)
          PROVE  Consent!Next \/ UNCHANGED Consent!vars
      <3>. DEFINE tap == [shell |-> s, prompt |-> confirming[s],
                          approved |-> approved]
      <3>0. confirming[s].req \in Requests /\ confirming[s].req \in shown
        BY <2>1, <2>10 DEF Answer, ScreensAreShown, Prompts
      <3>1. PICK req \in Requests : req = confirming[s].req
        BY <3>0
      <3>2. /\ pc' = pc /\ shown' = shown /\ signatures' = signatures
            /\ taps' = taps \cup {tap}
        BY <2>10 DEF Answer
      <3>3. \A q \in Requests : Verdict(q)' = Verdict(q)
        BY <3>2 DEF Verdict
      <3>4. CASE approved
        <4>1. C' = C \cup {req}
          <5>1. tap.approved /\ tap.prompt.req = req
            BY <3>1, <3>4
          <5>. HIDE DEF tap
          <5>. QED
            BY <3>2, <5>1
        <4>2. Consent!Approve(req)
          BY <3>0, <3>1, <3>2, <3>3, <4>1 DEF Consent!Approve
        <4>. QED
          BY <4>2 DEF Consent!Next
      <3>5. CASE ~approved
        <4>1. C' = C
          BY <3>2, <3>5
        <4>. QED
          BY <3>2, <3>3, <4>1 DEF Consent!vars
      <3>. QED
        BY <3>4, <3>5
    <2>11. ASSUME NEW s \in Shells,
                  Connect(s) \/ WriterEnds(s) \/ Disconnect(s) \/ ReloadPage(s)
           PROVE  UNCHANGED Consent!vars
      BY <2>5, <2>11 DEF Connect, WriterEnds, Disconnect, ReloadPage, Lose
    <2>12. ASSUME NEW a \in answers, ResolveConfirmation(a)
           PROVE  UNCHANGED Consent!vars
      BY <2>5, <2>12 DEF ResolveConfirmation, Deliver
    <2>13. CASE WalletStep
      BY <2>5, <2>13 DEF WalletStep
    <2>. QED
      BY <2>2, <2>6, <2>7, <2>8, <2>9, <2>10, <2>11, <2>12, <2>13
         DEF Next, Handler, Shell
  <1>. QED
    BY <1>1, <1>2, ConfirmInvariant, RefinementInvariant, PTL
       DEF Spec, ImplementsConsent

=============================================================================
