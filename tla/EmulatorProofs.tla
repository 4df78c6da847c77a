--------------------------- MODULE EmulatorProofs ---------------------------
(***************************************************************************)
(* Proofs about what a developer has at the host.                          *)
(*                                                                         *)
(* EmulatorSigning, for any calls, windows and clients and any bounds:     *)
(* what the emulator's map of confirmations holds, and that signing in the *)
(* emulator is what SigningConsent promises, to every call but those that  *)
(* an answer ended which the emulator, as it ran then, had asked nobody    *)
(* for.                                                                    *)
(*                                                                         *)
(* DevLoop, for any windows, profiles and levels and any bounds: dist is   *)
(* made of the source, and a window shows what the emulator has.           *)
(***************************************************************************)
EXTENDS EmulatorSigning, DevLoop, WellFoundedInduction, TLAPS

-----------------------------------------------------------------------------

(* What is on its way to the emulator, and to a client.                    *)
Coming(k) == ToSet(inbox[k])
Going(k)  == ToSet(outbox[k])

(* Each connection is in the server's set once.  A client that knows it    *)
(* has none has nothing left to handle, and a call is only waiting over a  *)
(* connection that is there.                                               *)
Connected ==
  /\ \A i, j \in 1..Len(sockets) : sockets[i] = sockets[j] => i = j
  /\ \A k \in Clients : Alive(k) => up[k]
  /\ \A k \in Clients : ~up[k] => outbox[k] = << >> /\ Free(k)
  /\ \A c \in Calls : pending[c] = "open" => Alive(Maker[c])

(* A call is made once, by its maker, and arrives once.                    *)
CallsAreNew ==
  /\ \A c \in Calls : pending[c] = "unmade" => verdict[c] = "none"
  /\ \A k \in Clients, m \in ToServer :
       m \in Coming(k) /\ m.type = "sign" =>
         k = Maker[m.call] /\ verdict[m.call] = "none" /\ pending[m.call] # "unmade"
  /\ \A k \in Clients : \A i, j \in 1..Len(inbox[k]) :
       inbox[k][i] = inbox[k][j] /\ inbox[k][i].type = "sign" => i = j

(* Each call has one confirmation.                                         *)
OneConfirmation == \A e, f \in confirmations : e.call = f.call => e = f

(* A prompt of an earlier start of the emulator, or one with an id that it *)
(* has given out since this one, to the prompt's call if to one that still *)
(* waits.                                                                  *)
Known(prompt, boot, next, waiting) ==
  /\ prompt.boot <= boot
  /\ prompt.boot = boot =>
       prompt.id < next /\ \A e \in waiting : e.id = prompt.id => e = prompt

InOrder(prompt) == Known(prompt, restarts, nextConfirmId, confirmations)

(* An answer that a prompt drew.                                           *)
FromPrompt(m) == m.type = "answer" /\ m.seen # NoPrompt

(* Ids are used again when the emulator has been started again; among the  *)
(* prompts of one start no two have one.  An answer carries the id of the  *)
(* prompt that drew it.                                                    *)
PromptsAreKnown ==
  /\ \A p \in Pages : asking[p] # NoPrompt => InOrder(asking[p])
  /\ \A k \in Clients, m \in ToClient :
       m \in Going(k) /\ m.type = "confirmRequest" => InOrder(m.prompt)
  /\ \A k \in Clients, m \in ToServer :
       m \in Coming(k) /\ FromPrompt(m) => m.id = m.seen.id /\ InOrder(m.seen)

(* Who is asked has seen the prompt, and a yes to a prompt is a user's.    *)
AnswersAreMeant ==
  /\ approved \subseteq shown
  /\ \A p \in Pages : asking[p] # NoPrompt => asking[p].call \in shown
  /\ \A k \in Clients, m \in ToServer :
       m \in Coming(k) /\ FromPrompt(m) /\ m.approved => m.seen.call \in approved

SigningInv ==
  /\ TypeOK
  /\ Connected
  /\ CallsAreNew
  /\ ConfirmationsAreWaiting /\ OneConfirmation
  /\ PromptsAreKnown
  /\ AnswersAreMeant

-----------------------------------------------------------------------------
(* What is in a queue when a message is added.                             *)
LEMMA Added ==
  ASSUME NEW S, NEW q \in Seq(S), NEW x \in S
  PROVE  /\ Append(q, x) \in Seq(S)
         /\ ToSet(Append(q, x)) = ToSet(q) \cup {x}
<1>1. /\ Append(q, x) \in Seq(S) /\ Len(Append(q, x)) = Len(q) + 1
      /\ DOMAIN Append(q, x) = 1..Len(q) + 1 /\ DOMAIN q = 1..Len(q)
      /\ \A i \in 1..Len(q) : Append(q, x)[i] = q[i]
      /\ Append(q, x)[Len(q) + 1] = x /\ Len(q) \in Nat
  OBVIOUS
<1>2. ToSet(q) \cup {x} \subseteq ToSet(Append(q, x))
  BY <1>1 DEF ToSet
<1>3. ASSUME NEW i \in 1..Len(q) + 1
      PROVE  Append(q, x)[i] \in ToSet(q) \cup {x}
  <2>1. i \in 1..Len(q) \/ i = Len(q) + 1
    BY <1>1
  <2> QED BY <1>1, <2>1 DEF ToSet
<1> QED BY <1>1, <1>2, <1>3 DEF ToSet

(* What is in a queue when the first message is taken.                     *)
LEMMA Taken ==
  ASSUME NEW S, NEW q \in Seq(S), q # << >>
  PROVE  /\ Head(q) \in S /\ Tail(q) \in Seq(S)
         /\ Head(q) \in ToSet(q) /\ ToSet(Tail(q)) \subseteq ToSet(q)
         /\ Head(q) \in ToSet(Tail(q)) => \E i \in 1..Len(q) : i # 1 /\ q[i] = q[1]
         /\ 1 \in 1..Len(q) /\ Head(q) = q[1]
         /\ Len(Tail(q)) = Len(q) - 1
         /\ \A i \in 1..Len(q) - 1 : Tail(q)[i] = q[i + 1] /\ i + 1 \in 1..Len(q)
<1>1. /\ Head(q) \in S /\ Tail(q) \in Seq(S) /\ Head(q) = q[1] /\ 1 \in 1..Len(q)
      /\ DOMAIN q = 1..Len(q) /\ Len(Tail(q)) = Len(q) - 1
      /\ DOMAIN Tail(q) = 1..Len(q) - 1
      /\ \A i \in 1..Len(q) - 1 : Tail(q)[i] = q[i + 1] /\ i + 1 \in 1..Len(q) /\ i + 1 # 1
  OBVIOUS
<1>2. Head(q) \in ToSet(q)
  BY <1>1 DEF ToSet
<1>3. ASSUME NEW y \in ToSet(Tail(q))
      PROVE  \E j \in 1..Len(q) : j # 1 /\ q[j] = y
  BY <1>1, <1>3 DEF ToSet
<1>4. ToSet(Tail(q)) \subseteq ToSet(q)
  BY <1>1, <1>3 DEF ToSet
<1> QED BY <1>1, <1>2, <1>3, <1>4

(* What is in the front of a queue, or in an empty one.                    *)
LEMMA Kept ==
  ASSUME NEW S, NEW q \in Seq(S), NEW n \in 0..Len(q)
  PROVE  SubSeq(q, 1, n) \in Seq(S) /\ ToSet(SubSeq(q, 1, n)) \subseteq ToSet(q)
<1>1. /\ SubSeq(q, 1, n) \in Seq(S) /\ Len(SubSeq(q, 1, n)) = n
      /\ DOMAIN SubSeq(q, 1, n) = 1..n /\ DOMAIN q = 1..Len(q)
      /\ \A i \in 1..n : SubSeq(q, 1, n)[i] = q[i] /\ i \in 1..Len(q)
  OBVIOUS
<1> QED BY <1>1 DEF ToSet

LEMMA NothingIn == \A S : << >> \in Seq(S) /\ ToSet(<< >>) = {} /\ Len(<< >>) = 0
BY DEF ToSet

(* What is before it, and what is behind it, stays in its order.           *)
LEMMA RemovedAt ==
  ASSUME NEW S, NEW q \in Seq(S), NEW at \in 1..Len(q)
  PROVE  /\ RemoveAt(q, at) \in Seq(S)
         /\ Len(RemoveAt(q, at)) = Len(q) - 1
         /\ \A i \in 1..Len(q) - 1 :
              RemoveAt(q, at)[i] = IF i < at THEN q[i] ELSE q[i + 1]
<1> DEFINE front == SubSeq(q, 1, at - 1)
           back  == SubSeq(q, at + 1, Len(q))
<1>1. at \in Nat /\ Len(q) \in Nat /\ 1 <= at /\ at <= Len(q)
  OBVIOUS
<1>2. /\ front \in Seq(S) /\ Len(front) = at - 1
      /\ \A i \in 1..at - 1 : front[i] = q[i]
  BY <1>1
<1>3. /\ back \in Seq(S) /\ Len(back) = Len(q) - at
      /\ \A i \in 1..Len(q) - at : back[i] = q[at + i]
  BY <1>1
<1> HIDE DEF front, back
<1>4. (front \o back) \in Seq(S) /\ Len(front \o back) = Len(front) + Len(back)
  <2>1. front \in Seq(S) /\ back \in Seq(S)
    BY <1>2, <1>3
  <2> HIDE <1>1
  <2>2. (front \o back) \in Seq(S)
    BY <2>1
  <2>3. Len(front \o back) = Len(front) + Len(back)
    BY <2>1
  <2> QED BY <2>2, <2>3
<1>5. Len(front \o back) = Len(q) - 1
  BY <1>1, <1>2, <1>3, <1>4
<1>6. ASSUME NEW i \in 1..Len(q) - 1
      PROVE  (front \o back)[i] = IF i < at THEN q[i] ELSE q[i + 1]
  <2>1. CASE i < at
    BY <1>1, <1>2, <1>3, <2>1
  <2>2. CASE ~(i < at)
    <3>1. (front \o back)[i] = back[i - Len(front)]
      BY <1>1, <1>2, <1>3, <2>2
    <3>2. i - (at - 1) \in 1..Len(q) - at /\ at + (i - (at - 1)) = i + 1
      BY <1>1, <2>2
    <3>3. back[i - (at - 1)] = q[at + (i - (at - 1))]
      BY <1>3, <3>2
    <3> QED BY <1>2, <2>2, <3>1, <3>2, <3>3
  <2> QED BY <2>1, <2>2
<1> QED BY <1>4, <1>5, <1>6 DEF RemoveAt, front, back

(* What is left of a sequence without repetitions.                         *)
LEMMA Removed ==
  ASSUME NEW S, NEW q \in Seq(S), NEW at \in 1..Len(q),
         \A i, j \in 1..Len(q) : q[i] = q[j] => i = j
  PROVE  /\ RemoveAt(q, at) \in Seq(S)
         /\ ToSet(RemoveAt(q, at)) = ToSet(q) \ {q[at]}
         /\ \A i, j \in 1..Len(RemoveAt(q, at)) :
              RemoveAt(q, at)[i] = RemoveAt(q, at)[j] => i = j
<1> DEFINE rest    == RemoveAt(q, at)
           from(i) == IF i < at THEN i ELSE i + 1
<1>1. at \in Nat /\ Len(q) \in Nat /\ 1 <= at /\ at <= Len(q) /\ DOMAIN q = 1..Len(q)
  OBVIOUS
<1>2. /\ rest \in Seq(S) /\ Len(rest) = Len(q) - 1
      /\ \A i \in 1..Len(q) - 1 : rest[i] = IF i < at THEN q[i] ELSE q[i + 1]
  BY RemovedAt
<1> HIDE DEF rest
<1>3. DOMAIN rest = 1..Len(q) - 1
  BY <1>2
<1>4. ASSUME NEW i \in 1..Len(q) - 1
      PROVE  from(i) \in 1..Len(q) /\ from(i) # at /\ rest[i] = q[from(i)]
  BY <1>1, <1>2
<1>5. ASSUME NEW j \in 1..Len(q), j # at
      PROVE  \E i \in 1..Len(q) - 1 : from(i) = j
  <2>1. CASE j < at
    BY <1>1, <2>1
  <2>2. CASE j > at
    <3>1. j - 1 \in 1..Len(q) - 1 /\ from(j - 1) = j
      BY <1>1, <2>2
    <3> QED BY <3>1
  <2> QED BY <1>1, <1>5, <2>1, <2>2
<1>6. ASSUME NEW i \in 1..Len(q) - 1, NEW j \in 1..Len(q) - 1, rest[i] = rest[j]
      PROVE  i = j
  <2>1. q[from(i)] = q[from(j)] /\ from(i) \in 1..Len(q) /\ from(j) \in 1..Len(q)
    BY <1>4, <1>6
  <2>2. from(i) = from(j)
    BY <2>1
  <2> QED BY <1>1, <2>2
<1> HIDE DEF from
<1>7. ASSUME NEW x \in ToSet(rest) PROVE x \in ToSet(q) \ {q[at]}
  <2>1. PICK i \in 1..Len(q) - 1 : x = rest[i]
    BY <1>3, <1>7 DEF ToSet
  <2>2. x = q[from(i)] /\ from(i) \in 1..Len(q) /\ from(i) # at
    BY <1>4, <2>1
  <2> QED BY <1>1, <2>2 DEF ToSet
<1>8. ASSUME NEW x \in ToSet(q) \ {q[at]} PROVE x \in ToSet(rest)
  <2>1. PICK j \in 1..Len(q) : x = q[j] /\ j # at
    BY <1>1, <1>8 DEF ToSet
  <2>2. PICK i \in 1..Len(q) - 1 : from(i) = j
    BY <1>5, <2>1
  <2>3. x = rest[i]
    BY <1>4, <2>1, <2>2
  <2> QED BY <1>3, <2>3 DEF ToSet
<1> QED BY <1>2, <1>6, <1>7, <1>8 DEF rest

(* sockets.delete.                                                         *)
LEMMA WithoutOne ==
  ASSUME TypeOK, Connected, NEW k \in Clients
  PROVE  /\ Without(k) \in Seq(Clients)
         /\ ToSet(Without(k)) = ToSet(sockets) \ {k}
         /\ \A i, j \in 1..Len(Without(k)) : Without(k)[i] = Without(k)[j] => i = j
<1>1. sockets \in Seq(Clients) /\ DOMAIN sockets = 1..Len(sockets)
  BY DEF TypeOK
<1>2. CASE ~Alive(k)
  BY <1>1, <1>2 DEF Without, Alive, Connected
<1>3. CASE Alive(k)
  <2> DEFINE at == CHOOSE i \in DOMAIN sockets : sockets[i] = k
  <2>1. at \in 1..Len(sockets) /\ sockets[at] = k
    BY <1>1, <1>3 DEF Alive, ToSet
  <2>2. Without(k) = RemoveAt(sockets, at)
    BY <1>3 DEF Without
  <2> HIDE DEF at
  <2>3. \A i, j \in 1..Len(sockets) : sockets[i] = sockets[j] => i = j
    BY DEF Connected
  <2>4. /\ RemoveAt(sockets, at) \in Seq(Clients)
        /\ ToSet(RemoveAt(sockets, at)) = ToSet(sockets) \ {sockets[at]}
        /\ \A i, j \in 1..Len(RemoveAt(sockets, at)) :
             RemoveAt(sockets, at)[i] = RemoveAt(sockets, at)[j] => i = j
    BY <1>1, <2>1, <2>3, Removed
  <2> QED BY <2>1, <2>2, <2>4
<1> QED BY <1>2, <1>3

(* The first shell is one that is connected.                               *)
LEMMA FirstShell ==
  ASSUME TypeOK, ShellSockets # {}
  PROVE  sockets[Min(ShellSockets)] \in Pages /\ Alive(sockets[Min(ShellSockets)])
<1> DEFINE R == OpToRel(<, Nat)
<1>1. ShellSockets \subseteq Nat /\ ShellSockets \subseteq DOMAIN sockets
  BY DEF ShellSockets, TypeOK
<1>2. IsWellFoundedOn(R, Nat)
  BY NatLessThanWellFounded
<1>3. \A x, y \in Nat : y < x => <<y, x>> \in R
  BY DEF OpToRel
<1> HIDE DEF R
<1>4. \E x \in ShellSockets : \A y \in ShellSockets : ~(<<y, x>> \in R)
  BY <1>1, <1>2, WFMin
<1>5. \A x, y \in ShellSockets : ~(<<y, x>> \in R) => x <= y
  BY <1>1, <1>3
<1>6. Min(ShellSockets) \in ShellSockets
  BY <1>4, <1>5 DEF Min
<1> QED BY <1>1, <1>6 DEF ShellSockets, Alive, ToSet


-----------------------------------------------------------------------------
(* The emulator takes a message, or a timer fires: the cases of a step.    *)
Reads(k, m) ==
  /\ inbox[k] # << >> /\ m = Head(inbox[k])
  /\ inbox' = [inbox EXCEPT ![k] = Tail(@)]

RefusesAtOnce(c) ==
  /\ End(c, FALSE, outbox)
  /\ UNCHANGED <<confirmations, nextConfirmId>>

Asks(c) ==
  /\ ShellSockets # {}
  /\ nextConfirmId' = nextConfirmId + 1
  /\ confirmations' = confirmations \cup {[id |-> nextConfirmId, call |-> c, boot |-> restarts]}
  /\ verdict' = [verdict EXCEPT ![c] = "waiting"]
  /\ outbox' = Prompted([id |-> nextConfirmId, call |-> c, boot |-> restarts])

Ignores == UNCHANGED <<confirmations, nextConfirmId, verdict, outbox>>

Finishes(e, yes) ==
  /\ confirmations' = confirmations \ {e}
  /\ End(e.call, yes, outbox)
  /\ UNCHANGED nextConfirmId

Rest == UNCHANGED <<sockets, wallet, client, shown, approved, bounds>>

Asked == UNCHANGED unasked

Answered(m) ==
  unasked' = IF Drawn(m) THEN unasked
             ELSE unasked \cup {c \in Calls : verdict'[c] # verdict[c]}

WalletStep ==
  /\ UNCHANGED <<server, inbox, outbox, client, ghost, bounds>>
  /\ locked' \in BOOLEAN /\ protected' \in BOOLEAN

LEMMA MessageCases ==
  ASSUME TypeOK, NEW k \in Clients, OnMessage(k)
  PROVE  /\ Rest
         /\ \E m \in ToServer :
              /\ Reads(k, m)
              /\ \/ m.type = "sign" /\ m.call \in Calls /\ Asked
                    /\ (RefusesAtOnce(m.call) \/ Asks(m.call))
                 \/ m.type = "answer" /\ m.approved \in BOOLEAN /\ Answered(m)
                    /\ (Ignores \/ \E e \in confirmations :
                                     e.id = m.id /\ Finishes(e, m.approved))
<1> DEFINE m == Head(inbox[k])
<1>1. inbox[k] \in Seq(ToServer) /\ inbox[k] # << >>
  BY DEF TypeOK, OnMessage
<1>2. m \in ToServer
  BY <1>1, Taken
<1>3. Rest /\ Reads(k, m)
  BY DEF OnMessage, Rest, Reads
<1>4. \/ m.type = "sign" /\ SignTransaction(m.call) /\ Asked
      \/ m.type = "answer" /\ ResolveConfirmation(m.id, m.approved)
         /\ UNCHANGED nextConfirmId /\ Answered(m)
  BY DEF OnMessage, Asked, Answered
<1> HIDE DEF m
<1>5. CASE m.type = "sign" /\ SignTransaction(m.call) /\ Asked
  <2>1. m.call \in Calls
    BY <1>2, <1>5 DEF ToServer
  <2>2. RefusesAtOnce(m.call) \/ Asks(m.call)
    BY <1>5 DEF SignTransaction, RefusesAtOnce, Asks
  <2> QED BY <1>2, <1>3, <1>5, <2>1, <2>2
<1>6. CASE /\ m.type = "answer" /\ ResolveConfirmation(m.id, m.approved)
           /\ UNCHANGED nextConfirmId /\ Answered(m)
  <2>1. m.approved \in BOOLEAN
    BY <1>2, <1>6 DEF ToServer
  <2>2. \/ Ignores
        \/ \E e \in confirmations : e.id = m.id /\ Finishes(e, m.approved)
    BY <1>6 DEF ResolveConfirmation, Ignores, Finishes
  <2> QED BY <1>2, <1>3, <1>6, <2>1, <2>2
<1> QED BY <1>4, <1>5, <1>6

(* The answer to a call goes to its maker, over a connection that is there. *)
LEMMA Responded ==
  ASSUME TypeOK, Connected, NEW c \in Calls
  PROVE  /\ Respond(outbox, c) \in [Clients -> Seq(ToClient)]
         /\ \A k \in Clients :
              /\ Respond(outbox, c)[k] # outbox[k] => Alive(k)
              /\ ToSet(Respond(outbox, c)[k])
                   \subseteq ToSet(outbox[k]) \cup {[type |-> "response", call |-> c]}
<1> DEFINE told == [type |-> "response", call |-> c]
<1>1. outbox \in [Clients -> Seq(ToClient)] /\ told \in ToClient
  BY DEF TypeOK, ToClient
<1>2. Maker[c] \in Clients
  BY EmulatorAssumption DEF Clients
<1>3. CASE pending[c] # "open"
  BY <1>1, <1>3 DEF Respond
<1>4. CASE pending[c] = "open"
  <2>1. Respond(outbox, c) = [outbox EXCEPT ![Maker[c]] = Append(@, told)]
    BY <1>4 DEF Respond
  <2>2. Alive(Maker[c])
    BY <1>4 DEF Connected
  <2> HIDE DEF told
  <2>3. /\ Append(outbox[Maker[c]], told) \in Seq(ToClient)
        /\ ToSet(Append(outbox[Maker[c]], told)) = ToSet(outbox[Maker[c]]) \cup {told}
    BY <1>1, <1>2, Added
  <2> QED BY <1>1, <1>2, <2>1, <2>2, <2>3 DEF told
<1> QED BY <1>3, <1>4

(* A prompt goes to a page whose connection is there.                      *)
LEMMA PromptSent ==
  ASSUME TypeOK, NEW prompt \in Prompts, ShellSockets # {}
  PROVE  /\ Prompted(prompt) \in [Clients -> Seq(ToClient)]
         /\ \A k \in Clients :
              /\ Prompted(prompt)[k] # outbox[k] => Alive(k)
              /\ ToSet(Prompted(prompt)[k])
                   \subseteq ToSet(outbox[k])
                               \cup {[type |-> "confirmRequest", prompt |-> prompt]}
<1> DEFINE ask  == [type |-> "confirmRequest", prompt |-> prompt]
           top  == sockets[Min(ShellSockets)]
<1>1. outbox \in [Clients -> Seq(ToClient)] /\ ask \in ToClient
  BY DEF TypeOK, ToClient
<1>2. top \in Clients /\ Alive(top)
  BY FirstShell DEF Clients
<1>3. Prompted(prompt) = [outbox EXCEPT ![top] = Append(@, ask)]
  BY DEF Prompted
<1> HIDE DEF ask, top
<1>4. /\ Append(outbox[top], ask) \in Seq(ToClient)
      /\ ToSet(Append(outbox[top], ask)) = ToSet(outbox[top]) \cup {ask}
  BY <1>1, <1>2, Added
<1> QED BY <1>1, <1>2, <1>3, <1>4 DEF ask

(* What a client sends, if its connection is there.                        *)
LEMMA SentTo ==
  ASSUME TypeOK, NEW k \in Clients, NEW m \in ToServer
  PROVE  /\ SendTo(k, m) \in [Clients -> Seq(ToServer)]
         /\ SendTo(k, m)[k] \in {inbox[k], Append(inbox[k], m)}
         /\ ToSet(SendTo(k, m)[k]) \subseteq ToSet(inbox[k]) \cup {m}
         /\ \A j \in Clients : j # k => SendTo(k, m)[j] = inbox[j]
<1>1. inbox \in [Clients -> Seq(ToServer)]
  BY DEF TypeOK
<1>2. /\ Append(inbox[k], m) \in Seq(ToServer)
      /\ ToSet(Append(inbox[k], m)) = ToSet(inbox[k]) \cup {m}
  BY <1>1, Added
<1> QED BY <1>1, <1>2 DEF SendTo

(* A queue loses its first message.                                        *)
LEMMA ReadOne ==
  ASSUME TypeOK, NEW k \in Clients, NEW m, Reads(k, m)
  PROVE  /\ m \in ToServer /\ m \in Coming(k)
         /\ inbox' \in [Clients -> Seq(ToServer)]
         /\ inbox'[k] = Tail(inbox[k])
         /\ \A j \in Clients : j # k => inbox'[j] = inbox[j]
         /\ \A j \in Clients : Coming(j)' \subseteq Coming(j)
<1>1. inbox \in [Clients -> Seq(ToServer)] /\ inbox[k] # << >> /\ m = Head(inbox[k])
  BY DEF TypeOK, Reads
<1>2. inbox' = [inbox EXCEPT ![k] = Tail(@)]
  BY DEF Reads
<1>3. /\ m \in ToServer /\ m \in ToSet(inbox[k]) /\ Tail(inbox[k]) \in Seq(ToServer)
      /\ ToSet(Tail(inbox[k])) \subseteq ToSet(inbox[k])
  BY <1>1, Taken
<1> QED BY <1>1, <1>2, <1>3 DEF Coming

LEMMA HandledOne ==
  ASSUME TypeOK, NEW k \in Clients, Handle(k)
  PROVE  /\ outbox' \in [Clients -> Seq(ToClient)]
         /\ \A j \in Clients : Going(j)' \subseteq Going(j)
         /\ \A j \in Clients : outbox[j] = << >> => outbox'[j] = << >>
         /\ \E m \in ToClient :
              /\ m \in Going(k)
              /\ \/ /\ m.type = "confirmRequest" /\ m.prompt \in Prompts /\ k \in Pages
                    /\ asking' = [asking EXCEPT ![k] = m.prompt]
                    /\ shown' = shown \cup {m.prompt.call}
                    /\ pending' = pending
                 \/ /\ m.type = "response" /\ m.call \in Calls
                    /\ pending' = [pending EXCEPT ![m.call] = "settled"]
                    /\ asking' = asking /\ shown' = shown
<1> DEFINE m == Head(outbox[k])
<1>1. outbox \in [Clients -> Seq(ToClient)] /\ outbox[k] # << >>
  BY DEF TypeOK, Handle
<1>2. /\ m \in ToClient /\ m \in ToSet(outbox[k]) /\ Tail(outbox[k]) \in Seq(ToClient)
      /\ ToSet(Tail(outbox[k])) \subseteq ToSet(outbox[k])
  BY <1>1, Taken
<1>3. outbox' = [outbox EXCEPT ![k] = Tail(@)]
  BY DEF Handle
<1>4. \/ /\ m.type = "confirmRequest" /\ k \in Pages
         /\ asking' = [asking EXCEPT ![k] = m.prompt]
         /\ shown' = shown \cup {m.prompt.call}
         /\ pending' = pending
      \/ /\ m.type = "response"
         /\ pending' = [pending EXCEPT ![m.call] = "settled"]
         /\ asking' = asking /\ shown' = shown
  BY DEF Handle
<1> HIDE DEF m
<1>5. /\ m.type = "confirmRequest" => m.prompt \in Prompts
      /\ m.type = "response" => m.call \in Calls
  BY <1>2 DEF ToClient
<1> QED BY <1>1, <1>2, <1>3, <1>4, <1>5 DEF Going

(* A connection is gone, with what had not arrived.                        *)
LEMMA Gone ==
  ASSUME TypeOK, Connected, NEW k \in Clients,
         Lose(k) \/ (k \in Pages /\ Reload(k))
  PROVE  /\ sockets' \in Seq(Clients)
         /\ \A j \in Clients : Alive(j)' <=> Alive(j) /\ j # k
         /\ \A i, j \in 1..Len(sockets') : sockets'[i] = sockets'[j] => i = j
         /\ inbox' \in [Clients -> Seq(ToServer)]
         /\ outbox' \in [Clients -> Seq(ToClient)]
         /\ \A j \in Clients : /\ Coming(j)' \subseteq Coming(j)
                               /\ Going(j)' \subseteq Going(j)
                               /\ j # k => inbox'[j] = inbox[j] /\ outbox'[j] = outbox[j]
         /\ inbox'[k] = << >> /\ (outbox[k] = << >> => outbox'[k] = << >>)
         /\ Reload(k) => outbox'[k] = << >>
         /\ pending' \in [Calls -> {"unmade", "open", "lost", "settled"}]
         /\ \A c \in Calls : /\ pending'[c] = "unmade" <=> pending[c] = "unmade"
                             /\ pending'[c] = "open" => pending[c] = "open" /\ Maker[c] # k
<1>1. /\ inbox \in [Clients -> Seq(ToServer)] /\ outbox \in [Clients -> Seq(ToClient)]
      /\ pending \in [Calls -> {"unmade", "open", "lost", "settled"}]
  BY DEF TypeOK
<1>2. /\ sockets' = Without(k) /\ inbox' = [inbox EXCEPT ![k] = << >>]
      /\ pending' = Orphaned({k})
  BY DEF Lose, Reload
<1>3. \E n \in 0..Len(outbox[k]) : outbox' = [outbox EXCEPT ![k] = SubSeq(@, 1, n)]
  <2>1. CASE Lose(k)
    BY <2>1 DEF Lose
  <2>2. CASE Reload(k)
    <3>1. outbox' = [outbox EXCEPT ![k] = << >>]
      BY <2>2 DEF Reload
    <3>2. SubSeq(outbox[k], 1, 0) = << >> /\ 0 \in 0..Len(outbox[k])
      BY <1>1
    <3> QED BY <1>1, <3>1, <3>2
  <2> QED BY <2>1, <2>2
<1>4. PICK n \in 0..Len(outbox[k]) : outbox' = [outbox EXCEPT ![k] = SubSeq(@, 1, n)]
  BY <1>3
<1>5. /\ SubSeq(outbox[k], 1, n) \in Seq(ToClient)
      /\ ToSet(SubSeq(outbox[k], 1, n)) \subseteq ToSet(outbox[k])
      /\ outbox[k] = << >> => SubSeq(outbox[k], 1, n) = << >>
  <2>1. outbox[k] \in Seq(ToClient)
    BY <1>1
  <2> QED BY <2>1, Kept
<1>6. /\ outbox' \in [Clients -> Seq(ToClient)]
      /\ \A j \in Clients : /\ Going(j)' \subseteq Going(j)
                            /\ j # k => outbox'[j] = outbox[j]
      /\ outbox[k] = << >> => outbox'[k] = << >>
  BY <1>1, <1>4, <1>5 DEF Going
<1>7. /\ inbox' \in [Clients -> Seq(ToServer)] /\ inbox'[k] = << >>
      /\ \A j \in Clients : /\ Coming(j)' \subseteq Coming(j)
                            /\ j # k => inbox'[j] = inbox[j]
  BY <1>1, <1>2, NothingIn DEF Coming
<1>8. Reload(k) => outbox'[k] = << >>
  BY <1>1 DEF Reload
<1>9. /\ sockets' \in Seq(Clients)
      /\ \A j \in Clients : Alive(j)' <=> Alive(j) /\ j # k
      /\ \A i, j \in 1..Len(sockets') : sockets'[i] = sockets'[j] => i = j
  BY <1>2, WithoutOne DEF Alive
<1>10. /\ pending' \in [Calls -> {"unmade", "open", "lost", "settled"}]
       /\ \A c \in Calls : /\ pending'[c] = "unmade" <=> pending[c] = "unmade"
                           /\ pending'[c] = "open" => pending[c] = "open" /\ Maker[c] # k
  BY <1>1, <1>2 DEF Orphaned
<1> QED BY <1>6, <1>7, <1>8, <1>9, <1>10

-----------------------------------------------------------------------------
(* The cases of a step that the lemmas below go through.                   *)
Step ==
  \/ UNCHANGED vars \/ WalletStep
  \/ \E k \in Clients : Connect(k) \/ HandleClose(k) \/ Handle(k)
  \/ \E k \in Clients : Lose(k) \/ (k \in Pages /\ Reload(k))
  \/ Restart
  \/ \E c \in Calls : Request(c) \/ GiveUp(c)
  \/ \E p \in Pages, yes \in BOOLEAN : Answer(p, yes)
  \/ \E k \in Tools, id \in Ids, yes \in BOOLEAN : Volunteer(k, id, yes)
  \/ \E k \in Clients, m \in ToServer :
       /\ Rest /\ Reads(k, m)
       /\ \/ m.type = "sign" /\ m.call \in Calls /\ Asked
             /\ (RefusesAtOnce(m.call) \/ Asks(m.call))
          \/ m.type = "answer" /\ m.approved \in BOOLEAN /\ Answered(m)
             /\ (Ignores \/ \E e \in confirmations :
                              e.id = m.id /\ Finishes(e, m.approved))
  \/ \E e \in confirmations : Rest /\ Asked /\ inbox' = inbox /\ Finishes(e, FALSE)

LEMMA StepCases == ASSUME TypeOK, [Next]_vars PROVE Step
<1>1. CASE UNCHANGED vars
  BY <1>1 DEF Step
<1>2. ASSUME NEW k \in Clients, OnMessage(k) PROVE Step
  <2>1. PICK m \in ToServer :
          /\ Rest /\ Reads(k, m)
          /\ \/ m.type = "sign" /\ m.call \in Calls /\ Asked
                /\ (RefusesAtOnce(m.call) \/ Asks(m.call))
             \/ m.type = "answer" /\ m.approved \in BOOLEAN /\ Answered(m)
                /\ (Ignores \/ \E e \in confirmations :
                                 e.id = m.id /\ Finishes(e, m.approved))
    BY <1>2, MessageCases
  <2> QED BY <2>1 DEF Step
<1>3. ASSUME NEW e \in confirmations, Expire(e) PROVE Step
  <2>1. Rest /\ Asked /\ inbox' = inbox /\ Finishes(e, FALSE)
    BY <1>3 DEF Expire, Rest, Asked, Finishes, ghost
  <2> QED BY <2>1 DEF Step
<1>4. ASSUME SetPassphrase \/ Lock \/ Unlock PROVE Step
  <2>1. WalletStep
    BY <1>4 DEF SetPassphrase, Lock, Unlock, WalletStep, TypeOK
  <2> QED BY <2>1 DEF Step
<1>5. ASSUME NEW k \in Clients, Client(k) \/ Connect(k) \/ Lose(k) PROVE Step
  BY <1>5 DEF Client, Step
<1>6. ASSUME NEW p \in Pages, Reload(p) \/ \E yes \in BOOLEAN : Answer(p, yes) PROVE Step
  <2>1. p \in Clients
    BY DEF Clients
  <2> QED BY <1>6, <2>1 DEF Step
<1>7. ASSUME NEW c \in Calls, Request(c) \/ GiveUp(c) PROVE Step
  BY <1>7 DEF Step
<1>8. CASE Restart
  BY <1>8 DEF Step
<1>9. ASSUME NEW k \in Tools, NEW id \in Ids, NEW yes \in BOOLEAN, Volunteer(k, id, yes)
      PROVE  Step
  BY <1>9 DEF Step
<1> QED BY <1>1, <1>2, <1>3, <1>4, <1>5, <1>6, <1>7, <1>8, <1>9 DEF Next, Emulator

LEMMA TypeStep == ASSUME TypeOK, Connected, Step PROVE TypeOK'
<1> USE DEF server, wallet, client, ghost, bounds
<1>1. ASSUME UNCHANGED vars \/ WalletStep PROVE TypeOK'
  BY <1>1 DEF TypeOK, vars, WalletStep
<1>2. ASSUME NEW k \in Clients, Connect(k) PROVE TypeOK'
  <2>1. Append(sockets, k) \in Seq(Clients)
    BY Added DEF TypeOK
  <2> QED BY <1>2, <2>1 DEF TypeOK, Connect
<1>3. ASSUME NEW k \in Clients, HandleClose(k) PROVE TypeOK'
  BY <1>3 DEF TypeOK, HandleClose
<1>4. ASSUME NEW k \in Clients, Handle(k) PROVE TypeOK'
  <2>1. asking' \in [Pages -> Prompts \cup {NoPrompt}] /\ shown' \subseteq Calls
        /\ pending' \in [Calls -> {"unmade", "open", "lost", "settled"}]
    <3>1. PICK m \in ToClient :
            \/ /\ m.type = "confirmRequest" /\ m.prompt \in Prompts /\ k \in Pages
               /\ asking' = [asking EXCEPT ![k] = m.prompt]
               /\ shown' = shown \cup {m.prompt.call}
               /\ pending' = pending
            \/ /\ m.type = "response" /\ m.call \in Calls
               /\ pending' = [pending EXCEPT ![m.call] = "settled"]
               /\ asking' = asking /\ shown' = shown
      BY <1>4, HandledOne
    <3>2. m.prompt \in Prompts => m.prompt.call \in Calls
      BY DEF Prompts
    <3> QED BY <3>1, <3>2 DEF TypeOK
  <2>2. outbox' \in [Clients -> Seq(ToClient)]
    BY <1>4, HandledOne
  <2> QED BY <1>4, <2>1, <2>2 DEF TypeOK, Handle
<1>5. ASSUME NEW k \in Clients, Lose(k) \/ (k \in Pages /\ Reload(k)) PROVE TypeOK'
  <2>1. /\ sockets' \in Seq(Clients)
        /\ inbox' \in [Clients -> Seq(ToServer)]
        /\ outbox' \in [Clients -> Seq(ToClient)]
        /\ pending' \in [Calls -> {"unmade", "open", "lost", "settled"}]
    BY <1>5, Gone
  <2>2. losses' \in Nat
    BY <1>5, EmulatorAssumption DEF TypeOK, Lose, Reload
  <2> QED BY <1>5, <2>1, <2>2 DEF TypeOK, Lose, Reload
<1>6. ASSUME Restart PROVE TypeOK'
  <2>1. restarts' \in Nat
    BY <1>6, EmulatorAssumption DEF TypeOK, Restart
  <2>2. pending' \in [Calls -> {"unmade", "open", "lost", "settled"}]
    BY <1>6 DEF TypeOK, Restart, Orphaned
  <2>3. inbox' \in [Clients -> Seq(ToServer)] /\ sockets' \in Seq(Clients)
    BY <1>6, NothingIn DEF Restart
  <2>4. verdict' \in [Calls -> {"none", "waiting", "signed", "refused", "gone"}]
    BY <1>6 DEF TypeOK, Restart
  <2> QED BY <1>6, <2>1, <2>2, <2>3, <2>4 DEF TypeOK, Restart
<1>7. ASSUME NEW c \in Calls, Request(c) PROVE TypeOK'
  <2>1. Maker[c] \in Clients /\ [type |-> "sign", call |-> c] \in ToServer
    BY EmulatorAssumption DEF Clients, ToServer
  <2>2. inbox' \in [Clients -> Seq(ToServer)]
    BY <1>7, <2>1, SentTo DEF Request
  <2> QED BY <1>7, <2>2 DEF TypeOK, Request
<1>8. ASSUME NEW p \in Pages, NEW yes \in BOOLEAN, Answer(p, yes) PROVE TypeOK'
  <2>1. p \in Clients /\ asking[p] \in Prompts /\ asking[p].call \in Calls
    BY <1>8 DEF Clients, TypeOK, Answer, Prompts
  <2>2. [type |-> "answer", id |-> asking[p].id, seen |-> asking[p], approved |-> yes]
          \in ToServer
    BY <2>1 DEF ToServer, Prompts
  <2>3. inbox' \in [Clients -> Seq(ToServer)]
    BY <1>8, <2>1, <2>2, SentTo DEF Answer
  <2> QED BY <1>8, <2>1, <2>3 DEF TypeOK, Answer
<1>9. ASSUME NEW c \in Calls, RefusesAtOnce(c), Rest, unasked' \subseteq Calls,
             inbox' \in [Clients -> Seq(ToServer)]
      PROVE  TypeOK'
  <2>1. outbox' \in [Clients -> Seq(ToClient)]
    BY <1>9, Responded DEF RefusesAtOnce, End
  <2> QED BY <1>9, <2>1 DEF TypeOK, RefusesAtOnce, End, Rest
<1>10. ASSUME NEW c \in Calls, Asks(c), Rest, unasked' \subseteq Calls,
              inbox' \in [Clients -> Seq(ToServer)]
       PROVE  TypeOK'
  <2>1. [id |-> nextConfirmId, call |-> c, boot |-> restarts] \in Prompts /\ nextConfirmId + 1 \in Nat
    BY EmulatorAssumption DEF Prompts, TypeOK
  <2>2. outbox' \in [Clients -> Seq(ToClient)]
    BY <1>10, <2>1, PromptSent DEF Asks
  <2> QED BY <1>10, <2>1, <2>2 DEF TypeOK, Asks, Rest
<1>11. ASSUME NEW e \in confirmations, NEW yes \in BOOLEAN, Finishes(e, yes), Rest,
              unasked' \subseteq Calls, inbox' \in [Clients -> Seq(ToServer)]
       PROVE  TypeOK'
  <2>1. e.call \in Calls
    BY DEF TypeOK, Prompts
  <2>2. outbox' \in [Clients -> Seq(ToClient)]
    BY <1>11, <2>1, Responded DEF Finishes, End
  <2> QED BY <1>11, <2>1, <2>2 DEF TypeOK, Finishes, End, Rest
<1>12. ASSUME Ignores, Rest, unasked' \subseteq Calls, inbox' \in [Clients -> Seq(ToServer)]
       PROVE  TypeOK'
  BY <1>12 DEF Ignores, Rest, TypeOK
<1>13. \A k \in Clients, m \in ToServer :
         Reads(k, m) => inbox' \in [Clients -> Seq(ToServer)]
  BY ReadOne
<1>14. inbox \in [Clients -> Seq(ToServer)]
  BY DEF TypeOK
<1>15. ASSUME NEW c \in Calls, GiveUp(c) PROVE TypeOK'
  BY <1>15 DEF TypeOK, GiveUp
<1>16. ASSUME NEW k \in Tools, NEW id \in Ids, NEW yes \in BOOLEAN, Volunteer(k, id, yes)
       PROVE  TypeOK'
  <2>1. /\ k \in Clients
        /\ [type |-> "answer", id |-> id, seen |-> NoPrompt, approved |-> yes] \in ToServer
    BY EmulatorAssumption DEF Clients, ToServer
  <2>2. inbox' \in [Clients -> Seq(ToServer)]
    BY <1>16, <2>1, SentTo DEF Volunteer
  <2>3. volunteers' \in Nat
    BY <1>16, EmulatorAssumption DEF TypeOK, Volunteer
  <2> QED BY <1>16, <2>2, <2>3 DEF TypeOK, Volunteer
<1>17. (Asked \/ \E m : Answered(m)) => unasked' \subseteq Calls
  BY DEF Asked, Answered, TypeOK
<1> QED BY <1>1, <1>2, <1>3, <1>4, <1>5, <1>6, <1>7, <1>8, <1>9, <1>10, <1>11, <1>12,
           <1>13, <1>14, <1>15, <1>16, <1>17 DEF Step

LEMMA ConnectedStep == ASSUME TypeOK, Connected, Step PROVE Connected'
<1> USE DEF server, wallet, client, ghost, bounds
<1>1. ASSUME UNCHANGED <<sockets, up, outbox, asking, pending>> PROVE Connected'
  BY <1>1 DEF Connected, Alive, Free
<1>2. ASSUME NEW k \in Clients, Connect(k) PROVE Connected'
  <2>1. /\ sockets \in Seq(Clients) /\ up \in [Clients -> BOOLEAN]
        /\ sockets' = Append(sockets, k) /\ up' = [up EXCEPT ![k] = TRUE]
        /\ outbox' = outbox /\ asking' = asking /\ pending' = pending
    BY <1>2 DEF TypeOK, Connect
  <2>2. \A j \in Clients : Alive(j)' <=> Alive(j) \/ j = k
    BY <2>1, Added DEF Alive
  <2>3. \A i, j \in 1..Len(sockets') : sockets'[i] = sockets'[j] => i = j
    <3>1. \A i \in 1..Len(sockets) : sockets[i] # k
      BY <1>2, <2>1 DEF Connect, Alive, ToSet
    <3>2. /\ Len(sockets') = Len(sockets) + 1 /\ sockets'[Len(sockets) + 1] = k
          /\ \A i \in 1..Len(sockets) : sockets'[i] = sockets[i]
          /\ \A i \in 1..Len(sockets) + 1 : i \in 1..Len(sockets) \/ i = Len(sockets) + 1
      BY <2>1
    <3> QED BY <3>1, <3>2 DEF Connected
  <2> QED BY <2>1, <2>2, <2>3, EmulatorAssumption DEF Connected, Free, Clients
<1>3. ASSUME NEW k \in Clients, HandleClose(k) PROVE Connected'
  <2>1. \A j \in Clients : Alive(j)' <=> Alive(j)
    BY <1>3 DEF HandleClose, Alive
  <2> QED BY <1>3, <2>1, EmulatorAssumption DEF Connected, HandleClose, Free, TypeOK, Clients
<1>4. ASSUME NEW k \in Clients, Handle(k) PROVE Connected'
  <2>1. up[k] /\ UNCHANGED <<sockets, up>>
    BY <1>4 DEF Connected, Handle
  <2>2. /\ \A j \in Clients : outbox[j] = << >> => outbox'[j] = << >>
        /\ \A j \in Pages : j # k => asking'[j] = asking[j]
        /\ \A c \in Calls : pending'[c] = "open" => pending[c] = "open"
    BY <1>4, HandledOne DEF TypeOK
  <2>3. \A j \in Clients : ~up[j] => outbox'[j] = << >> /\ Free(j)'
    BY <2>1, <2>2 DEF Connected, Free
  <2>4. \A j \in Clients : Alive(j)' <=> Alive(j)
    BY <2>1 DEF Alive
  <2> QED BY <2>1, <2>2, <2>3, <2>4, EmulatorAssumption DEF Connected, Clients
<1>5. ASSUME NEW k \in Clients, Lose(k) \/ (k \in Pages /\ Reload(k)) PROVE Connected'
  <2>1. /\ \A j \in Clients : Alive(j)' <=> Alive(j) /\ j # k
        /\ \A i, j \in 1..Len(sockets') : sockets'[i] = sockets'[j] => i = j
        /\ \A j \in Clients : j # k => outbox'[j] = outbox[j]
        /\ outbox[k] = << >> => outbox'[k] = << >>
        /\ Reload(k) => outbox'[k] = << >>
        /\ \A c \in Calls : pending'[c] = "open" => pending[c] = "open" /\ Maker[c] # k
    BY <1>5, Gone
  <2>2. \A j \in Clients : Alive(j)' => up'[j]
    BY <1>5, <2>1 DEF Connected, Lose, Reload, TypeOK
  <2>3. \A j \in Clients : ~up'[j] => outbox'[j] = << >> /\ Free(j)'
    <3>1. CASE Lose(k)
      BY <2>1, <3>1 DEF Connected, Lose, Free
    <3>2. CASE k \in Pages /\ Reload(k)
      BY <2>1, <3>2 DEF Connected, Reload, Free, TypeOK
    <3> QED BY <1>5, <3>1, <3>2
  <2> QED BY <2>1, <2>2, <2>3, EmulatorAssumption DEF Connected, Clients
<1>6. ASSUME Restart PROVE Connected'
  <2>1. /\ sockets' = << >> /\ UNCHANGED <<outbox, up, asking>>
        /\ \A c \in Calls : pending'[c] # "open"
    BY <1>6, EmulatorAssumption DEF Restart, Orphaned, TypeOK, Clients
  <2>2. \A k \in Clients : ~Alive(k)'
    BY <2>1, NothingIn DEF Alive
  <2>3. 1..Len(sockets') = {}
    BY <2>1
  <2> QED BY <2>1, <2>2, <2>3 DEF Connected, Free
<1>7. ASSUME NEW c \in Calls, Request(c) PROVE Connected'
  BY <1>7 DEF Connected, Request, Alive, Free, TypeOK
<1>8. ASSUME NEW p \in Pages, NEW yes \in BOOLEAN, Answer(p, yes) PROVE Connected'
  <2>1. UNCHANGED <<sockets, up, outbox, pending>>
    BY <1>8 DEF Answer
  <2>2. \A k \in Clients : Free(k) => Free(k)'
    BY <1>8 DEF Answer, Free, TypeOK
  <2> QED BY <2>1, <2>2 DEF Connected, Alive
<1>9. ASSUME Rest, \A k \in Clients : outbox'[k] # outbox[k] => Alive(k)
      PROVE  Connected'
  <2>1. UNCHANGED <<sockets, up, asking, pending>>
    BY <1>9 DEF Rest
  <2> QED BY <1>9, <2>1 DEF Connected, Alive, Free
<1>10. ASSUME NEW c \in Calls, RefusesAtOnce(c) \/ Asks(c)
       PROVE  \A k \in Clients : outbox'[k] # outbox[k] => Alive(k)
  <2>1. CASE RefusesAtOnce(c)
    BY <2>1, Responded DEF RefusesAtOnce, End
  <2>2. CASE Asks(c)
    <3>1. [id |-> nextConfirmId, call |-> c, boot |-> restarts] \in Prompts
      BY EmulatorAssumption DEF Prompts, TypeOK
    <3> QED BY <2>2, <3>1, PromptSent DEF Asks
  <2> QED BY <1>10, <2>1, <2>2
<1>11. ASSUME NEW e \in confirmations, NEW yes \in BOOLEAN, Finishes(e, yes)
       PROVE  \A k \in Clients : outbox'[k] # outbox[k] => Alive(k)
  <2>1. e.call \in Calls
    BY DEF TypeOK, Prompts
  <2> QED BY <1>11, <2>1, Responded DEF Finishes, End
<1>12. ASSUME Ignores PROVE \A k \in Clients : outbox'[k] = outbox[k]
  BY <1>12 DEF Ignores
<1>13. UNCHANGED vars \/ WalletStep => Connected'
  BY <1>1 DEF vars, WalletStep
<1>14. ASSUME NEW c \in Calls, GiveUp(c) PROVE Connected'
  BY <1>14 DEF Connected, GiveUp, Alive, Free, TypeOK
<1>15. ASSUME NEW k \in Tools, NEW id \in Ids, NEW yes \in BOOLEAN, Volunteer(k, id, yes)
       PROVE  Connected'
  BY <1>1, <1>15 DEF Volunteer
<1> QED BY <1>2, <1>3, <1>4, <1>5, <1>6, <1>7, <1>8, <1>9, <1>10, <1>11, <1>12, <1>13,
           <1>14, <1>15 DEF Step

(* Requests to sign stay different when a message comes or goes.           *)
Once(q) == \A i, j \in 1..Len(q) : q[i] = q[j] /\ q[i].type = "sign" => i = j

LEMMA AddedOnce ==
  ASSUME NEW q \in Seq(ToServer), Once(q), NEW m \in ToServer,
         m.type = "sign" => m \notin ToSet(q)
  PROVE  Once(Append(q, m))
<1>1. /\ Len(Append(q, m)) = Len(q) + 1 /\ Append(q, m)[Len(q) + 1] = m
      /\ \A i \in 1..Len(q) : Append(q, m)[i] = q[i]
      /\ \A i \in 1..Len(q) + 1 : i \in 1..Len(q) \/ i = Len(q) + 1
  OBVIOUS
<1>2. m.type = "sign" => \A i \in 1..Len(q) : q[i] # m
  BY DEF ToSet
<1> QED BY <1>1, <1>2 DEF Once

LEMMA TakenOnce ==
  ASSUME NEW q \in Seq(ToServer), Once(q), q # << >>
  PROVE  Once(Tail(q)) /\ (Head(q).type = "sign" => Head(q) \notin ToSet(Tail(q)))
<1>1. /\ Len(q) \in Nat /\ 1 \in 1..Len(q) /\ Head(q) = q[1]
      /\ Len(Tail(q)) = Len(q) - 1
      /\ \A i \in 1..Len(q) - 1 : Tail(q)[i] = q[i + 1] /\ i + 1 \in 1..Len(q)
      /\ Head(q) \in ToSet(Tail(q)) => \E i \in 1..Len(q) : i # 1 /\ q[i] = q[1]
  BY Taken
<1>2. Head(q).type = "sign" => Head(q) \notin ToSet(Tail(q))
  BY <1>1 DEF Once
<1>3. ASSUME NEW i \in 1..Len(q) - 1, NEW j \in 1..Len(q) - 1,
             Tail(q)[i] = Tail(q)[j], Tail(q)[i].type = "sign"
      PROVE  i = j
  <2>1. i + 1 = j + 1
    BY <1>1, <1>3 DEF Once
  <2> QED BY <2>1
<1> QED BY <1>1, <1>2, <1>3 DEF Once

LEMMA OneRequest ==
  ASSUME NEW l \in ToServer, NEW m \in ToServer, l.type = "sign", m.type = "sign",
         l.call = m.call
  PROVE  l = m
<1>1. l \in [type: {"sign"}, call: Calls] /\ m \in [type: {"sign"}, call: Calls]
  BY DEF ToServer
<1>2. l = [type |-> "sign", call |-> l.call] /\ m = [type |-> "sign", call |-> m.call]
  BY <1>1
<1> QED BY <1>2

LEMMA NewStep ==
  ASSUME TypeOK, CallsAreNew, ConfirmationsAreWaiting, Step
  PROVE  CallsAreNew'
<1> USE DEF server, wallet, client, ghost, bounds
<1>1. /\ inbox \in [Clients -> Seq(ToServer)]
      /\ verdict \in [Calls -> {"none", "waiting", "signed", "refused", "gone"}]
      /\ pending \in [Calls -> {"unmade", "open", "lost", "settled"}]
      /\ \A k \in Clients : Once(inbox[k])
  BY DEF TypeOK, CallsAreNew, Once
<1>2. ASSUME \A c \in Calls : /\ verdict[c] = "none" => verdict'[c] = "none"
                              /\ pending'[c] = "unmade" => pending[c] = "unmade",
             \A k \in Clients : inbox'[k] \in {inbox[k], << >>}
      PROVE  CallsAreNew'
  <2>1. \A k \in Clients, m \in ToServer : m \in Coming(k)' => m \in Coming(k)
    BY <1>2, NothingIn DEF Coming
  <2>2. \A k \in Clients : Once(inbox'[k])
    <3>1. Once(<< >>)
      BY DEF Once
    <3> QED BY <1>1, <1>2, <3>1
  <2>3. \A m \in ToServer : m.type = "sign" => m.call \in Calls
    BY DEF ToServer
  <2> QED BY <1>2, <2>1, <2>2, <2>3 DEF CallsAreNew, Once
<1>3. ASSUME UNCHANGED vars \/ WalletStep PROVE CallsAreNew'
  BY <1>2, <1>3 DEF vars, WalletStep
<1>4. ASSUME NEW k \in Clients, Connect(k) \/ HandleClose(k) PROVE CallsAreNew'
  BY <1>2, <1>4 DEF Connect, HandleClose
<1>5. ASSUME NEW k \in Clients, Handle(k) PROVE CallsAreNew'
  <2>1. \A c \in Calls : pending'[c] = "unmade" => pending[c] = "unmade"
    BY <1>1, <1>5, HandledOne
  <2> QED BY <1>2, <1>5, <2>1 DEF Handle
<1>6. ASSUME NEW k \in Clients, Lose(k) \/ (k \in Pages /\ Reload(k)) PROVE CallsAreNew'
  BY <1>1, <1>2, <1>6 DEF Lose, Reload, Orphaned
<1>7. ASSUME Restart PROVE CallsAreNew'
  BY <1>1, <1>2, <1>7 DEF Restart, Orphaned
<1>8. ASSUME NEW c \in Calls, Request(c) PROVE CallsAreNew'
  <2> DEFINE new == [type |-> "sign", call |-> c]
             k == Maker[c]
  <2>1. k \in Clients /\ new \in ToServer /\ new.type = "sign" /\ new.call = c
    BY EmulatorAssumption DEF Clients, ToServer
  <2> HIDE DEF new, k
  <2>2. /\ verdict' = verdict /\ pending'[c] # "unmade" /\ pending[c] = "unmade"
        /\ \A d \in Calls : d # c => pending'[d] = pending[d]
        /\ inbox' = SendTo(k, new)
    BY <1>1, <1>8 DEF Request, new, k
  <2>3. /\ inbox'[k] \in {inbox[k], Append(inbox[k], new)}
        /\ ToSet(inbox'[k]) \subseteq ToSet(inbox[k]) \cup {new}
        /\ \A j \in Clients : j # k => inbox'[j] = inbox[j]
    BY <2>1, <2>2, SentTo
  <2>4. verdict[c] = "none" /\ new \notin Coming(k)
    BY <2>1, <2>2 DEF CallsAreNew
  <2>5. Once(inbox'[k])
    <3>1. Once(Append(inbox[k], new))
      <4>1. inbox[k] \in Seq(ToServer) /\ Once(inbox[k]) /\ new \notin ToSet(inbox[k])
        BY <1>1, <2>1, <2>4 DEF Coming
      <4> QED BY <2>1, <4>1, AddedOnce
    <3> QED BY <1>1, <2>1, <2>3, <3>1
  <2>6. ASSUME NEW j \in Clients, NEW m \in ToServer, m \in Coming(j)', m.type = "sign"
        PROVE  j = Maker[m.call] /\ verdict'[m.call] = "none" /\ pending'[m.call] # "unmade"
    <3>1. m \in Coming(j) \/ (j = k /\ m = new)
      BY <2>3, <2>6 DEF Coming
    <3>2. m.call \in Calls
      BY <2>6 DEF ToServer
    <3> QED BY <2>1, <2>2, <2>4, <2>6, <3>1, <3>2 DEF CallsAreNew, k
  <2>7. \A d \in Calls : pending'[d] = "unmade" => verdict'[d] = "none"
    BY <2>2 DEF CallsAreNew
  <2>8. \A j \in Clients : Once(inbox'[j])
    BY <1>1, <2>3, <2>5
  <2> QED BY <2>6, <2>7, <2>8 DEF CallsAreNew, Once
<1>9. ASSUME NEW p \in Clients, NEW new \in ToServer, new.type # "sign",
             UNCHANGED <<verdict, pending>>, inbox' = SendTo(p, new)
      PROVE  CallsAreNew'
  <2>1. p \in Clients /\ new \in ToServer /\ new.type # "sign"
    BY <1>9
  <2>2. UNCHANGED <<verdict, pending>> /\ inbox' = SendTo(p, new)
    BY <1>9
  <2>3. /\ inbox'[p] \in {inbox[p], Append(inbox[p], new)}
        /\ ToSet(inbox'[p]) \subseteq ToSet(inbox[p]) \cup {new}
        /\ \A j \in Clients : j # p => inbox'[j] = inbox[j]
    <3>1. /\ SendTo(p, new)[p] \in {inbox[p], Append(inbox[p], new)}
          /\ ToSet(SendTo(p, new)[p]) \subseteq ToSet(inbox[p]) \cup {new}
          /\ \A j \in Clients : j # p => SendTo(p, new)[j] = inbox[j]
      BY <2>1, SentTo
    <3> QED BY <2>2, <3>1
  <2>4. Once(inbox'[p])
    BY <1>1, <2>1, <2>3, AddedOnce
  <2>5. \A j \in Clients, m \in ToServer :
          m \in Coming(j)' /\ m.type = "sign" => m \in Coming(j)
    BY <2>1, <2>3 DEF Coming
  <2> QED BY <1>1, <2>2, <2>3, <2>4, <2>5 DEF CallsAreNew, Once
<1>10. ASSUME NEW k \in Clients, NEW m \in ToServer, Rest, Reads(k, m)
       PROVE  /\ \A j \in Clients : Once(inbox'[j])
              /\ \A j \in Clients, l \in ToServer :
                   l \in Coming(j)' /\ l.type = "sign" =>
                     /\ l \in Coming(j)
                     /\ m.type = "sign" => l.call # m.call
  <2>1. /\ m \in Coming(k) /\ inbox'[k] = Tail(inbox[k])
        /\ \A j \in Clients : j # k => inbox'[j] = inbox[j]
        /\ \A j \in Clients : Coming(j)' \subseteq Coming(j)
    BY <1>10, ReadOne
  <2>2. Once(inbox'[k]) /\ (m.type = "sign" => m \notin Coming(k)')
    BY <1>1, <1>10, <2>1, TakenOnce DEF Reads, Coming
  <2>3. ASSUME NEW j \in Clients, NEW l \in ToServer, l \in Coming(j)', l.type = "sign",
               m.type = "sign", l.call = m.call
        PROVE  FALSE
    <3>1. l = m
      BY <2>3, OneRequest
    <3>2. j = Maker[m.call] /\ k = Maker[m.call]
      BY <2>1, <2>3, <3>1 DEF CallsAreNew
    <3> QED BY <2>2, <2>3, <3>1, <3>2
  <2> QED BY <1>1, <2>1, <2>2, <2>3
<1>11. ASSUME NEW k \in Clients, NEW m \in ToServer, Rest, Reads(k, m), m.type = "sign",
              RefusesAtOnce(m.call) \/ Asks(m.call)
       PROVE  CallsAreNew'
  <2>1. /\ m.call \in Calls /\ pending' = pending
        /\ \A c \in Calls : c # m.call => verdict'[c] = verdict[c]
    BY <1>1, <1>11 DEF ToServer, Rest, RefusesAtOnce, Asks, End
  <2>2. pending[m.call] # "unmade"
    BY <1>11, ReadOne DEF CallsAreNew
  <2>3. \A l \in ToServer : l.type = "sign" => l.call \in Calls
    BY DEF ToServer
  <2> QED BY <1>10, <1>11, <2>1, <2>2, <2>3 DEF CallsAreNew, Once
<1>12. ASSUME NEW e \in confirmations, NEW yes \in BOOLEAN, Finishes(e, yes), Rest,
              \A j \in Clients : Once(inbox'[j]),
              \A j \in Clients, l \in ToServer :
                l \in Coming(j)' /\ l.type = "sign" => l \in Coming(j)
       PROVE  CallsAreNew'
  <2>1. e.call \in Calls /\ verdict[e.call] = "waiting"
    BY DEF TypeOK, Prompts, ConfirmationsAreWaiting
  <2>2. /\ pending' = pending
        /\ \A c \in Calls : c # e.call => verdict'[c] = verdict[c]
    BY <1>1, <1>12 DEF Rest, Finishes, End
  <2>3. \A l \in ToServer : l.type = "sign" => l.call \in Calls
    BY DEF ToServer
  <2> QED BY <1>12, <2>1, <2>2, <2>3 DEF CallsAreNew, Once
<1>13. ASSUME NEW k \in Clients, NEW m \in ToServer, Rest, Reads(k, m), Ignores
       PROVE  CallsAreNew'
  <2>1. UNCHANGED <<pending, verdict>>
    BY <1>13 DEF Rest, Ignores
  <2> QED BY <1>10, <1>13, <2>1 DEF CallsAreNew, Once
<1>14. ASSUME NEW e \in confirmations, Finishes(e, FALSE), Rest, inbox' = inbox
       PROVE  CallsAreNew'
  <2>1. \A j \in Clients : Once(inbox'[j]) /\ Coming(j)' = Coming(j)
    BY <1>1, <1>14 DEF Coming
  <2> QED BY <1>12, <1>14, <2>1
<1>15. ASSUME NEW p \in Pages, NEW yes \in BOOLEAN, Answer(p, yes) PROVE CallsAreNew'
  <2> DEFINE new == [type |-> "answer", id |-> asking[p].id, seen |-> asking[p],
                     approved |-> yes]
  <2>1. asking[p] \in Prompts /\ asking[p].id \in Nat
    BY <1>15 DEF Answer, TypeOK, Prompts
  <2>2. p \in Clients /\ new \in ToServer /\ new.type # "sign"
    BY <2>1 DEF Clients, ToServer
  <2>3. UNCHANGED <<verdict, pending>> /\ inbox' = SendTo(p, new)
    BY <1>15 DEF Answer
  <2> QED BY <1>9, <2>2, <2>3
<1>16. ASSUME NEW k \in Tools, NEW id \in Ids, NEW yes \in BOOLEAN, Volunteer(k, id, yes)
       PROVE  CallsAreNew'
  <2> DEFINE new == [type |-> "answer", id |-> id, seen |-> NoPrompt, approved |-> yes]
  <2>1. k \in Clients /\ new \in ToServer /\ new.type # "sign"
    BY EmulatorAssumption DEF Clients, ToServer
  <2>2. UNCHANGED <<verdict, pending>> /\ inbox' = SendTo(k, new)
    BY <1>16 DEF Volunteer
  <2> QED BY <1>9, <2>1, <2>2
<1>17. ASSUME NEW c \in Calls, GiveUp(c) PROVE CallsAreNew'
  BY <1>1, <1>2, <1>17 DEF GiveUp
<1> QED BY <1>3, <1>4, <1>5, <1>6, <1>7, <1>8, <1>10, <1>11, <1>12, <1>13, <1>14, <1>15,
           <1>16, <1>17 DEF Step

LEMMA WaitingStep ==
  ASSUME TypeOK, CallsAreNew, ConfirmationsAreWaiting, OneConfirmation, Step
  PROVE  ConfirmationsAreWaiting' /\ OneConfirmation'
<1> USE DEF server, wallet, client, ghost, bounds
<1>1. /\ confirmations \subseteq Prompts /\ nextConfirmId \in Nat
      /\ \A e \in confirmations : e.call \in Calls /\ e.id \in Nat
      /\ verdict \in [Calls -> {"none", "waiting", "signed", "refused", "gone"}]
  BY DEF TypeOK, Prompts
<1>2. ASSUME UNCHANGED <<confirmations, nextConfirmId, verdict>>
      PROVE  ConfirmationsAreWaiting' /\ OneConfirmation'
  BY <1>2 DEF ConfirmationsAreWaiting, OneConfirmation
<1>3. ASSUME \/ UNCHANGED vars \/ WalletStep
             \/ \E k \in Clients : Connect(k) \/ HandleClose(k) \/ Handle(k)
             \/ \E k \in Clients : Lose(k) \/ Reload(k)
             \/ \E c \in Calls : Request(c) \/ GiveUp(c)
             \/ \E p \in Pages, yes \in BOOLEAN : Answer(p, yes)
             \/ \E k \in Tools, id \in Ids, yes \in BOOLEAN : Volunteer(k, id, yes)
             \/ Ignores
      PROVE  UNCHANGED <<confirmations, nextConfirmId, verdict>>
  BY <1>3 DEF vars, WalletStep, Connect, HandleClose, Handle, Lose, Reload, Request,
              GiveUp, Answer, Volunteer, Ignores
<1>4. ASSUME Restart PROVE ConfirmationsAreWaiting' /\ OneConfirmation'
  <2>1. confirmations' = {} /\ \A c \in Calls : verdict'[c] # "waiting"
    BY <1>1, <1>4 DEF Restart
  <2> QED BY <2>1 DEF ConfirmationsAreWaiting, OneConfirmation
<1>5. ASSUME NEW k \in Clients, NEW m \in ToServer, Rest, Reads(k, m),
             m.type = "sign", m.call \in Calls
      PROVE  verdict[m.call] = "none" /\ \A e \in confirmations : e.call # m.call
  <2>1. verdict[m.call] = "none"
    BY <1>5, ReadOne DEF CallsAreNew
  <2>2. \A e \in confirmations : verdict[e.call] = "waiting"
    BY <1>1 DEF ConfirmationsAreWaiting
  <2> QED BY <2>1, <2>2
<1>6. ASSUME NEW c \in Calls, RefusesAtOnce(c), verdict[c] = "none"
      PROVE  ConfirmationsAreWaiting' /\ OneConfirmation'
  <2>1. /\ UNCHANGED <<confirmations, nextConfirmId>>
        /\ verdict' = [verdict EXCEPT ![c] = "refused"]
    BY <1>6 DEF RefusesAtOnce, End
  <2>2. \A d \in Calls : verdict'[d] = "waiting" <=> verdict[d] = "waiting"
    BY <1>1, <1>6, <2>1
  <2> QED BY <2>1, <2>2 DEF ConfirmationsAreWaiting, OneConfirmation
<1>7. ASSUME NEW c \in Calls, Asks(c), \A e \in confirmations : e.call # c
      PROVE  ConfirmationsAreWaiting' /\ OneConfirmation'
  <2> DEFINE new == [id |-> nextConfirmId, call |-> c, boot |-> restarts]
  <2>1. new.id = nextConfirmId /\ new.call = c
    OBVIOUS
  <2> HIDE DEF new
  <2>2. /\ nextConfirmId' = nextConfirmId + 1 /\ confirmations' = confirmations \cup {new}
        /\ \A d \in Calls : verdict'[d] = "waiting" <=> (verdict[d] = "waiting" \/ d = c)
    BY <1>1, <1>7 DEF Asks, new
  <2>3. {e.call : e \in confirmations'} = {e.call : e \in confirmations} \cup {c}
    BY <2>1, <2>2
  <2>4. {d \in Calls : verdict'[d] = "waiting"} = {d \in Calls : verdict[d] = "waiting"} \cup {c}
    BY <2>2
  <2>5. \A e \in confirmations : e.id < nextConfirmId /\ e.id # new.id /\ e.id < nextConfirmId'
    BY <1>1, <2>1, <2>2 DEF ConfirmationsAreWaiting
  <2>6. new.id < nextConfirmId' /\ new \notin confirmations
    BY <1>1, <1>7, <2>1, <2>2
  <2>7. \A e, f \in confirmations' : (e.id = f.id <=> e = f) /\ e.id < nextConfirmId'
    BY <2>2, <2>5, <2>6 DEF ConfirmationsAreWaiting
  <2>8. OneConfirmation'
    BY <1>7, <2>1, <2>2 DEF OneConfirmation
  <2> QED BY <2>3, <2>4, <2>7, <2>8 DEF ConfirmationsAreWaiting
<1>8. ASSUME NEW e \in confirmations, NEW yes \in BOOLEAN, Finishes(e, yes)
      PROVE  ConfirmationsAreWaiting' /\ OneConfirmation'
  <2>1. /\ nextConfirmId' = nextConfirmId /\ confirmations' = confirmations \ {e}
        /\ \A d \in Calls : verdict'[d] = "waiting" <=> (verdict[d] = "waiting" /\ d # e.call)
    BY <1>1, <1>8 DEF Finishes, End
  <2>2. \A f \in confirmations : f.call = e.call => f = e
    BY DEF OneConfirmation
  <2>3. {f.call : f \in confirmations'} = {f.call : f \in confirmations} \ {e.call}
    BY <2>1, <2>2
  <2>4. {d \in Calls : verdict'[d] = "waiting"}
          = {d \in Calls : verdict[d] = "waiting"} \ {e.call}
    BY <2>1
  <2>5. \A f, g \in confirmations' : (f.id = g.id <=> f = g) /\ f.id < nextConfirmId'
    BY <2>1 DEF ConfirmationsAreWaiting
  <2>6. OneConfirmation'
    BY <2>1 DEF OneConfirmation
  <2> QED BY <2>3, <2>4, <2>5, <2>6 DEF ConfirmationsAreWaiting
<1> QED BY <1>2, <1>3, <1>4, <1>5, <1>6, <1>7, <1>8 DEF Step

InOrderNext(prompt) == Known(prompt, restarts', nextConfirmId', confirmations')

LEMMA KnownStep ==
  ASSUME TypeOK, Connected, ConfirmationsAreWaiting, PromptsAreKnown, Step
  PROVE  PromptsAreKnown'
<1> USE DEF server, wallet, client, ghost, bounds
<1>1. /\ confirmations \subseteq Prompts /\ nextConfirmId \in Nat /\ restarts \in Nat
      /\ \A e \in Prompts : e.call \in Calls /\ e.id \in Nat /\ e.boot \in Nat
      /\ asking \in [Pages -> Prompts \cup {NoPrompt}]
      /\ \A m \in ToClient : m.type = "confirmRequest" => m.prompt \in Prompts
      /\ \A m \in ToServer : FromPrompt(m) => m.seen \in Prompts
      /\ Pages \subseteq Clients /\ Tools \subseteq Clients
  BY EmulatorAssumption DEF TypeOK, Prompts, ToClient, ToServer, Clients, FromPrompt
<1>2. ASSUME \A prompt \in Prompts : InOrder(prompt) => InOrderNext(prompt),
             \A p \in Pages : asking'[p] # NoPrompt =>
               asking'[p] \in Prompts /\ (asking'[p] = asking[p] \/ InOrderNext(asking'[p])),
             \A k \in Clients, m \in ToClient :
               m \in Going(k)' /\ m.type = "confirmRequest" =>
                 m \in Going(k) \/ InOrderNext(m.prompt),
             \A k \in Clients, m \in ToServer :
               m \in Coming(k)' /\ FromPrompt(m) =>
                 m \in Coming(k) \/ (m.id = m.seen.id /\ InOrderNext(m.seen))
      PROVE  PromptsAreKnown'
  <2>1. \A p \in Pages : asking'[p] # NoPrompt => InOrderNext(asking'[p])
    BY <1>2 DEF PromptsAreKnown
  <2>2. \A k \in Clients, m \in ToClient :
          m \in Going(k)' /\ m.type = "confirmRequest" => InOrderNext(m.prompt)
    BY <1>1, <1>2 DEF PromptsAreKnown
  <2>3. \A k \in Clients, m \in ToServer :
          m \in Coming(k)' /\ FromPrompt(m) => m.id = m.seen.id /\ InOrderNext(m.seen)
    BY <1>1, <1>2 DEF PromptsAreKnown
  <2> QED BY <2>1, <2>2, <2>3 DEF PromptsAreKnown, FromPrompt, InOrder, InOrderNext
<1>3. ASSUME UNCHANGED <<restarts, nextConfirmId>>, confirmations' \subseteq confirmations
      PROVE  \A prompt : InOrder(prompt) => InOrderNext(prompt)
  BY <1>3 DEF InOrder, InOrderNext, Known
<1>4. ASSUME UNCHANGED <<restarts, nextConfirmId>>, confirmations' \subseteq confirmations,
             \A p \in Pages : asking'[p] # NoPrompt => asking'[p] = asking[p],
             \A k \in Clients, m \in ToClient :
               m \in Going(k)' /\ m.type = "confirmRequest" => m \in Going(k),
             \A k \in Clients, m \in ToServer :
               m \in Coming(k)' /\ FromPrompt(m) => m \in Coming(k)
      PROVE  PromptsAreKnown'
  <2>1. \A p \in Pages : asking'[p] # NoPrompt => asking'[p] \in Prompts
    BY <1>1, <1>4
  <2> QED BY <1>2, <1>3, <1>4, <2>1
<1>5. ASSUME \/ UNCHANGED vars \/ WalletStep
             \/ \E k \in Clients : Connect(k) \/ HandleClose(k)
             \/ \E c \in Calls : GiveUp(c)
      PROVE  PromptsAreKnown'
  <2>1. UNCHANGED <<restarts, nextConfirmId, confirmations, asking, inbox, outbox>>
    BY <1>5 DEF vars, WalletStep, Connect, HandleClose, GiveUp
  <2> QED BY <1>4, <2>1 DEF Going, Coming
<1>6. ASSUME NEW k \in Clients, Handle(k) PROVE PromptsAreKnown'
  <2>1. UNCHANGED <<confirmations, nextConfirmId, restarts, inbox>>
    BY <1>6 DEF Handle
  <2>2. \A j \in Clients : Going(j)' \subseteq Going(j) /\ Coming(j)' = Coming(j)
    BY <1>6, <2>1, HandledOne DEF Coming
  <2>3. PICK m \in ToClient :
          /\ m \in Going(k)
          /\ \/ /\ m.type = "confirmRequest" /\ m.prompt \in Prompts /\ k \in Pages
                /\ asking' = [asking EXCEPT ![k] = m.prompt]
             \/ asking' = asking
    BY <1>6, HandledOne
  <2>4. CASE asking' = asking
    BY <1>4, <2>1, <2>2, <2>4
  <2>5. CASE /\ m.type = "confirmRequest" /\ m.prompt \in Prompts /\ k \in Pages
             /\ asking' = [asking EXCEPT ![k] = m.prompt]
    <3>1. InOrder(m.prompt)
      BY <2>3, <2>5 DEF PromptsAreKnown
    <3>2. InOrderNext(m.prompt)
      BY <1>3, <2>1, <3>1
    <3>3. \A j \in Pages : asking'[j] # NoPrompt =>
            asking'[j] \in Prompts /\ (asking'[j] = asking[j] \/ asking'[j] = m.prompt)
      BY <1>1, <2>5
    <3>4. \A prompt \in Prompts : InOrder(prompt) => InOrderNext(prompt)
      BY <1>3, <2>1
    <3>5. \A j \in Pages : asking'[j] # NoPrompt =>
            asking'[j] \in Prompts /\ (asking'[j] = asking[j] \/ InOrderNext(asking'[j]))
      BY <3>2, <3>3
    <3> QED BY <1>2, <2>2, <3>4, <3>5
  <2> QED BY <2>3, <2>4, <2>5
<1>7. ASSUME NEW k \in Clients, Lose(k) \/ (k \in Pages /\ Reload(k)) PROVE PromptsAreKnown'
  <2>1. /\ UNCHANGED <<confirmations, nextConfirmId, restarts>>
        /\ \A p \in Pages : asking'[p] # NoPrompt => asking'[p] = asking[p]
    BY <1>1, <1>7 DEF Lose, Reload
  <2>2. \A j \in Clients : Coming(j)' \subseteq Coming(j) /\ Going(j)' \subseteq Going(j)
    BY <1>7, Gone
  <2> QED BY <1>4, <2>1, <2>2
<1>8. ASSUME Restart PROVE PromptsAreKnown'
  <2>1. /\ restarts' = restarts + 1 /\ UNCHANGED <<asking, outbox>>
        /\ \A k \in Clients : inbox'[k] = << >>
    BY <1>8 DEF Restart
  <2>2. \A prompt \in Prompts : InOrder(prompt) => InOrderNext(prompt)
    BY <1>1, <2>1 DEF InOrder, InOrderNext, Known
  <2>3. \A k \in Clients : Coming(k)' = {} /\ Going(k)' = Going(k)
    BY <2>1, NothingIn DEF Coming, Going
  <2> QED BY <1>1, <1>2, <2>1, <2>2, <2>3
<1>9. ASSUME NEW k \in Clients, NEW new \in ToServer, inbox' = SendTo(k, new),
             FromPrompt(new) => new.id = new.seen.id /\ InOrder(new.seen),
             UNCHANGED <<confirmations, nextConfirmId, restarts, outbox>>,
             \A p \in Pages : asking'[p] # NoPrompt => asking'[p] = asking[p]
      PROVE  PromptsAreKnown'
  <2>1. /\ ToSet(SendTo(k, new)[k]) \subseteq ToSet(inbox[k]) \cup {new}
        /\ \A j \in Clients : j # k => SendTo(k, new)[j] = inbox[j]
    BY SentTo
  <2>2. \A j \in Clients, m \in ToServer : m \in Coming(j)' => m \in Coming(j) \/ m = new
    BY <1>9, <2>1 DEF Coming
  <2>3. FromPrompt(new) => InOrderNext(new.seen)
    BY <1>3, <1>9
  <2>4. \A j \in Clients, m \in ToServer :
          m \in Coming(j)' /\ FromPrompt(m) =>
            m \in Coming(j) \/ (m.id = m.seen.id /\ InOrderNext(m.seen))
    BY <1>9, <2>2, <2>3
  <2>5. \A p \in Pages : asking'[p] # NoPrompt => asking'[p] \in Prompts
    BY <1>1, <1>9
  <2>6. \A prompt \in Prompts : InOrder(prompt) => InOrderNext(prompt)
    BY <1>3, <1>9
  <2>7. \A j \in Clients, m \in ToClient : m \in Going(j)' => m \in Going(j)
    BY <1>9 DEF Going
  <2> QED BY <1>2, <1>9, <2>4, <2>5, <2>6, <2>7
<1>10. ASSUME NEW c \in Calls, Request(c) PROVE PromptsAreKnown'
  <2> DEFINE new == [type |-> "sign", call |-> c]
  <2>1. Maker[c] \in Clients /\ new \in ToServer /\ ~FromPrompt(new)
    BY EmulatorAssumption DEF Clients, ToServer, FromPrompt
  <2>2. /\ UNCHANGED <<confirmations, nextConfirmId, restarts, outbox, asking>>
        /\ inbox' = SendTo(Maker[c], new)
    BY <1>10 DEF Request
  <2> HIDE DEF new
  <2> QED BY <1>9, <2>1, <2>2
<1>11. ASSUME NEW p \in Pages, NEW yes \in BOOLEAN, Answer(p, yes) PROVE PromptsAreKnown'
  <2> DEFINE new == [type |-> "answer", id |-> asking[p].id, seen |-> asking[p],
                     approved |-> yes]
  <2>1. asking[p] \in Prompts /\ asking[p].id \in Nat /\ InOrder(asking[p])
    BY <1>1, <1>11 DEF Answer, PromptsAreKnown
  <2>2. p \in Clients /\ new \in ToServer /\ new.id = new.seen.id /\ new.seen = asking[p]
    BY <1>1, <2>1 DEF ToServer
  <2>3. /\ UNCHANGED <<confirmations, nextConfirmId, restarts, outbox>>
        /\ inbox' = SendTo(p, new)
        /\ \A j \in Pages : asking'[j] # NoPrompt => asking'[j] = asking[j]
    BY <1>1, <1>11 DEF Answer
  <2> HIDE DEF new
  <2>4. InOrder(new.seen)
    BY <2>1, <2>2
  <2> QED BY <1>9, <2>2, <2>3, <2>4
<1>12. ASSUME NEW k \in Tools, NEW id \in Ids, NEW yes \in BOOLEAN, Volunteer(k, id, yes)
       PROVE  PromptsAreKnown'
  <2> DEFINE new == [type |-> "answer", id |-> id, seen |-> NoPrompt, approved |-> yes]
  <2>1. k \in Clients /\ new \in ToServer /\ ~FromPrompt(new)
    BY EmulatorAssumption DEF Clients, ToServer, FromPrompt
  <2>2. /\ UNCHANGED <<confirmations, nextConfirmId, restarts, outbox, asking>>
        /\ inbox' = SendTo(k, new)
    BY <1>12 DEF Volunteer
  <2> HIDE DEF new
  <2> QED BY <1>9, <2>1, <2>2
<1>13. ASSUME NEW c \in Calls, Rest, outbox' = Respond(outbox, c),
              UNCHANGED nextConfirmId, confirmations' \subseteq confirmations,
              \A j \in Clients : Coming(j)' \subseteq Coming(j)
       PROVE  PromptsAreKnown'
  <2>1. \A k \in Clients : Going(k)' \subseteq Going(k) \cup {[type |-> "response", call |-> c]}
    BY <1>13, Responded DEF Going
  <2>2. UNCHANGED <<restarts, asking>>
    BY <1>13 DEF Rest
  <2>3. \A k \in Clients, m \in ToClient :
          m \in Going(k)' /\ m.type = "confirmRequest" => m \in Going(k)
    BY <2>1
  <2> QED BY <1>4, <1>13, <2>2, <2>3
<1>14. ASSUME NEW c \in Calls, Rest, RefusesAtOnce(c),
              \A j \in Clients : Coming(j)' \subseteq Coming(j)
       PROVE  PromptsAreKnown'
  BY <1>13, <1>14 DEF RefusesAtOnce, End
<1>15. ASSUME NEW e \in confirmations, NEW yes \in BOOLEAN, Rest, Finishes(e, yes),
              \A j \in Clients : Coming(j)' \subseteq Coming(j)
       PROVE  PromptsAreKnown'
  BY <1>1, <1>13, <1>15 DEF Finishes, End
<1>16. ASSUME NEW c \in Calls, Rest, Asks(c),
              \A j \in Clients : Coming(j)' \subseteq Coming(j)
       PROVE  PromptsAreKnown'
  <2> DEFINE new == [id |-> nextConfirmId, call |-> c, boot |-> restarts]
             ask == [type |-> "confirmRequest", prompt |-> new]
  <2>1. /\ new \in Prompts /\ new.id = nextConfirmId /\ new.boot = restarts
        /\ ask.prompt = new
    BY <1>1 DEF Prompts
  <2>2. /\ UNCHANGED <<restarts, asking>> /\ nextConfirmId' = nextConfirmId + 1
        /\ confirmations' = confirmations \cup {new} /\ outbox' = Prompted(new)
    BY <1>16 DEF Rest, Asks
  <2>3. \A k \in Clients : Going(k)' \subseteq Going(k) \cup {ask}
    BY <1>16, <2>1, <2>2, PromptSent DEF Going, Asks
  <2> HIDE DEF new, ask
  <2>4. \A prompt \in Prompts : InOrder(prompt) => InOrderNext(prompt)
    BY <1>1, <2>1, <2>2 DEF InOrder, InOrderNext, Known
  <2>5. InOrderNext(new)
    BY <1>1, <2>1, <2>2 DEF InOrder, InOrderNext, Known, ConfirmationsAreWaiting
  <2>6. \A k \in Clients, m \in ToClient :
          m \in Going(k)' /\ m.type = "confirmRequest" =>
            m \in Going(k) \/ InOrderNext(m.prompt)
    BY <2>1, <2>3, <2>5
  <2>7. \A p \in Pages : asking'[p] # NoPrompt => asking'[p] \in Prompts /\ asking'[p] = asking[p]
    BY <1>1, <2>2
  <2> QED BY <1>2, <1>16, <2>4, <2>6, <2>7
<1>17. ASSUME Rest, Ignores, \A j \in Clients : Coming(j)' \subseteq Coming(j)
       PROVE  PromptsAreKnown'
  BY <1>4, <1>17 DEF Rest, Ignores, Going
<1>18. \A k \in Clients, m \in ToServer :
         Reads(k, m) => \A j \in Clients : Coming(j)' \subseteq Coming(j)
  BY ReadOne
<1>19. inbox' = inbox => \A j \in Clients : Coming(j)' \subseteq Coming(j)
  BY DEF Coming
<1> QED BY <1>5, <1>6, <1>7, <1>8, <1>10, <1>11, <1>12, <1>14, <1>15, <1>16, <1>17,
           <1>18, <1>19 DEF Step

LEMMA MeantStep ==
  ASSUME TypeOK, AnswersAreMeant, Step
  PROVE  AnswersAreMeant'
<1> USE DEF server, wallet, client, ghost, bounds
<1>1. /\ asking \in [Pages -> Prompts \cup {NoPrompt}]
      /\ \A m \in ToServer : FromPrompt(m) => m.seen \in Prompts
      /\ Pages \subseteq Clients
  BY DEF TypeOK, ToServer, Clients, FromPrompt
<1>2. ASSUME UNCHANGED <<shown, approved>>,
             \A p \in Pages : asking'[p] # NoPrompt => asking'[p] = asking[p],
             \A k \in Clients, m \in ToServer :
               m \in Coming(k)' /\ FromPrompt(m) => m \in Coming(k)
      PROVE  AnswersAreMeant'
  BY <1>2 DEF AnswersAreMeant
<1>3. ASSUME \/ UNCHANGED vars \/ WalletStep
             \/ \E k \in Clients : Connect(k) \/ HandleClose(k)
             \/ \E c \in Calls : GiveUp(c)
             \/ Rest /\ inbox' = inbox
      PROVE  AnswersAreMeant'
  <2>1. UNCHANGED <<shown, approved, asking, inbox>>
    BY <1>3 DEF vars, WalletStep, Connect, HandleClose, GiveUp, Rest
  <2> QED BY <2>1 DEF AnswersAreMeant, Coming
<1>4. ASSUME NEW k \in Clients, Handle(k) PROVE AnswersAreMeant'
  <2>1. approved' = approved /\ \A j \in Clients : Coming(j)' = Coming(j)
    BY <1>4 DEF Handle, Coming
  <2>2. PICK m \in ToClient :
          \/ /\ m.type = "confirmRequest" /\ m.prompt \in Prompts /\ k \in Pages
             /\ asking' = [asking EXCEPT ![k] = m.prompt]
             /\ shown' = shown \cup {m.prompt.call}
          \/ asking' = asking /\ shown' = shown
    BY <1>4, HandledOne
  <2>3. \A p \in Pages : asking'[p] # NoPrompt => asking'[p].call \in shown'
    BY <1>1, <2>2 DEF AnswersAreMeant
  <2> QED BY <2>1, <2>2, <2>3 DEF AnswersAreMeant
<1>5. ASSUME NEW k \in Clients, Lose(k) \/ (k \in Pages /\ Reload(k)) PROVE AnswersAreMeant'
  <2>1. /\ UNCHANGED <<shown, approved>>
        /\ \A p \in Pages : asking'[p] # NoPrompt => asking'[p] = asking[p]
    BY <1>1, <1>5 DEF Lose, Reload
  <2>2. \A j \in Clients : Coming(j)' \subseteq Coming(j)
    <3>1. inbox' = [inbox EXCEPT ![k] = << >>] /\ inbox \in [Clients -> Seq(ToServer)]
      BY <1>5 DEF Lose, Reload, TypeOK
    <3>2. \A j \in Clients : inbox'[j] \in {inbox[j], << >>}
      BY <3>1
    <3> QED BY <3>2, NothingIn DEF Coming
  <2> QED BY <1>2, <2>1, <2>2
<1>6. ASSUME Restart PROVE AnswersAreMeant'
  <2>1. UNCHANGED <<shown, approved, asking>> /\ \A k \in Clients : inbox'[k] = << >>
    BY <1>6 DEF Restart
  <2>2. \A k \in Clients : Coming(k)' = {}
    BY <2>1, NothingIn DEF Coming
  <2> QED BY <1>2, <2>1, <2>2
<1>7. ASSUME NEW k \in Clients, NEW new \in ToServer, inbox' = SendTo(k, new)
      PROVE  \A j \in Clients, m \in ToServer : m \in Coming(j)' => m \in Coming(j) \/ m = new
  <2>1. /\ ToSet(SendTo(k, new)[k]) \subseteq ToSet(inbox[k]) \cup {new}
        /\ \A j \in Clients : j # k => SendTo(k, new)[j] = inbox[j]
    BY SentTo
  <2> QED BY <1>7, <2>1 DEF Coming
<1>8. ASSUME NEW k \in Clients, NEW new \in ToServer, inbox' = SendTo(k, new),
             ~FromPrompt(new), UNCHANGED <<shown, approved, asking>>
      PROVE  AnswersAreMeant'
  <2>1. \A j \in Clients, m \in ToServer : m \in Coming(j)' => m \in Coming(j) \/ m = new
    BY <1>7, <1>8
  <2> QED BY <1>2, <1>8, <2>1
<1>9. ASSUME NEW c \in Calls, Request(c) PROVE AnswersAreMeant'
  <2> DEFINE new == [type |-> "sign", call |-> c]
  <2>1. Maker[c] \in Clients /\ new \in ToServer /\ ~FromPrompt(new)
    BY EmulatorAssumption DEF Clients, ToServer, FromPrompt
  <2>2. UNCHANGED <<shown, approved, asking>> /\ inbox' = SendTo(Maker[c], new)
    BY <1>9 DEF Request
  <2> HIDE DEF new
  <2> QED BY <1>8, <2>1, <2>2
<1>10. ASSUME NEW k \in Tools, NEW id \in Ids, NEW yes \in BOOLEAN, Volunteer(k, id, yes)
       PROVE  AnswersAreMeant'
  <2> DEFINE new == [type |-> "answer", id |-> id, seen |-> NoPrompt, approved |-> yes]
  <2>1. k \in Clients /\ new \in ToServer /\ ~FromPrompt(new)
    BY EmulatorAssumption DEF Clients, ToServer, FromPrompt
  <2>2. UNCHANGED <<shown, approved, asking>> /\ inbox' = SendTo(k, new)
    BY <1>10 DEF Volunteer
  <2> HIDE DEF new
  <2> QED BY <1>8, <2>1, <2>2
<1>11. ASSUME NEW p \in Pages, NEW yes \in BOOLEAN, Answer(p, yes) PROVE AnswersAreMeant'
  <2> DEFINE new == [type |-> "answer", id |-> asking[p].id, seen |-> asking[p],
                     approved |-> yes]
  <2>1. asking[p] # NoPrompt /\ asking[p] \in Prompts /\ asking[p].id \in Nat
    BY <1>1, <1>11 DEF Answer, Prompts
  <2>2. p \in Clients /\ new \in ToServer /\ new.seen = asking[p] /\ new.approved = yes
    BY <1>1, <2>1 DEF ToServer
  <2>3. /\ shown' = shown /\ inbox' = SendTo(p, new)
        /\ approved' = IF yes THEN approved \cup {asking[p].call} ELSE approved
        /\ \A j \in Pages : asking'[j] # NoPrompt => asking'[j] = asking[j]
    BY <1>1, <1>11 DEF Answer
  <2> HIDE DEF new
  <2>4. asking[p].call \in shown
    BY <2>1 DEF AnswersAreMeant
  <2>5. approved' \subseteq shown'
    BY <2>3, <2>4 DEF AnswersAreMeant
  <2>6. \A j \in Clients, m \in ToServer :
          m \in Coming(j)' /\ FromPrompt(m) /\ m.approved => m.seen.call \in approved'
    <3>1. new.approved => new.seen.call \in approved'
      BY <2>2, <2>3
    <3>2. \A j \in Clients, m \in ToServer : m \in Coming(j)' => m \in Coming(j) \/ m = new
      BY <1>7, <2>2, <2>3
    <3>3. approved \subseteq approved'
      BY <2>3
    <3> QED BY <3>1, <3>2, <3>3 DEF AnswersAreMeant
  <2> QED BY <2>3, <2>5, <2>6 DEF AnswersAreMeant
<1>12. ASSUME NEW k \in Clients, NEW m \in ToServer, Rest, Reads(k, m) PROVE AnswersAreMeant'
  <2>1. UNCHANGED <<shown, approved, asking>> /\ \A j \in Clients : Coming(j)' \subseteq Coming(j)
    BY <1>12, ReadOne DEF Rest
  <2> QED BY <1>2, <2>1
<1> QED BY <1>3, <1>4, <1>5, <1>6, <1>12, <1>9, <1>10, <1>11 DEF Step

(* The invariant, however often the emulator is started again.             *)
THEOREM SigningInvariant == Spec => []SigningInv
<1>1. Init => SigningInv
  <2> SUFFICES ASSUME Init PROVE SigningInv
    OBVIOUS
  <2>1. TypeOK
    <3>1. /\ << >> \in Seq(Clients) /\ << >> \in Seq(ToServer) /\ << >> \in Seq(ToClient)
          /\ 0 \in Nat
      BY EmulatorAssumption, NothingIn
    <3> QED BY <3>1 DEF Init, TypeOK
  <2>2. \A k \in Clients : Coming(k) = {} /\ Going(k) = {} /\ ~Alive(k)
    BY NothingIn DEF Init, Coming, Going, Alive
  <2>3. Connected
    <3>1. \A k \in Clients : outbox[k] = << >> /\ Free(k)
      BY DEF Init, Free
    <3>2. 1..Len(sockets) = {}
      BY DEF Init
    <3>3. \A c \in Calls : pending[c] # "open"
      BY DEF Init
    <3> QED BY <2>2, <3>1, <3>2, <3>3 DEF Connected
  <2>4. CallsAreNew
    BY <2>2 DEF Init, CallsAreNew
  <2>5. ConfirmationsAreWaiting /\ OneConfirmation
    BY DEF Init, ConfirmationsAreWaiting, OneConfirmation
  <2>6. PromptsAreKnown /\ AnswersAreMeant
    BY <2>2 DEF Init, PromptsAreKnown, AnswersAreMeant, Clients
  <2> QED BY <2>1, <2>3, <2>4, <2>5, <2>6 DEF SigningInv
<1>2. SigningInv /\ [Next]_vars => SigningInv'
  <2> SUFFICES ASSUME SigningInv, [Next]_vars PROVE SigningInv'
    OBVIOUS
  <2>1. Step
    BY StepCases DEF SigningInv
  <2>2. TypeOK' /\ Connected'
    BY <2>1, TypeStep, ConnectedStep DEF SigningInv
  <2>3. CallsAreNew' /\ ConfirmationsAreWaiting' /\ OneConfirmation'
    BY <2>1, NewStep, WaitingStep DEF SigningInv
  <2>4. PromptsAreKnown' /\ AnswersAreMeant'
    BY <2>1, KnownStep, MeantStep DEF SigningInv
  <2> QED BY <2>2, <2>3, <2>4 DEF SigningInv
<1> QED BY <1>1, <1>2, PTL DEF Spec

(* The map of confirmations is the calls that wait, each under an id of    *)
(* its own (server.mjs:173-194).                                           *)
THEOREM ConfirmationsSound == Spec => []ConfirmationsAreWaiting
<1>1. SigningInv => ConfirmationsAreWaiting
  BY DEF SigningInv
<1> QED BY <1>1, SigningInvariant, PTL

-----------------------------------------------------------------------------
(* The verdict, as SigningConsent has it.                                  *)
Outcome(c) ==
  IF verdict[c] \in {"signed", "refused"} /\ c \notin unasked THEN verdict[c] ELSE "open"

Same == UNCHANGED <<shown, approved>> /\ \A c \in Calls : Outcome(c)' = Outcome(c)

LEMMA ConsentStep ==
  ASSUME SigningInv, Step
  PROVE  Consent!Next \/ UNCHANGED Consent!vars
<1> USE DEF server, wallet, client, ghost, bounds
<1>1. /\ TypeOK
      /\ confirmations \subseteq Prompts
      /\ \A e \in Prompts : e.call \in Calls
      /\ asking \in [Pages -> Prompts \cup {NoPrompt}]
      /\ verdict \in [Calls -> {"none", "waiting", "signed", "refused", "gone"}]
  BY DEF SigningInv, TypeOK, Prompts
<1>2. Same => UNCHANGED Consent!vars
  BY DEF Same, Outcome, Consent!vars
<1>3. ASSUME \/ UNCHANGED vars \/ WalletStep
             \/ \E k \in Clients : Connect(k) \/ HandleClose(k)
             \/ \E k \in Clients : Lose(k) \/ Reload(k)
             \/ \E c \in Calls : Request(c) \/ GiveUp(c)
             \/ \E k \in Tools, id \in Ids, yes \in BOOLEAN : Volunteer(k, id, yes)
      PROVE  Same
  <2>1. UNCHANGED <<shown, approved, unasked, verdict>>
    BY <1>3 DEF vars, WalletStep, Connect, HandleClose, Lose, Reload, Request, GiveUp,
                Volunteer
  <2> QED BY <2>1 DEF Same, Outcome
<1>4. ASSUME Restart PROVE Same
  BY <1>1, <1>4 DEF Restart, Same, Outcome
<1>5. ASSUME Rest, Ignores, NEW m, Answered(m) PROVE Same
  <2>1. UNCHANGED <<shown, approved, verdict>>
    BY <1>5 DEF Rest, Ignores
  <2>2. unasked' = unasked
    BY <1>5, <2>1 DEF Answered
  <2> QED BY <2>1, <2>2 DEF Same, Outcome
<1>6. ASSUME NEW k \in Clients, Handle(k) PROVE Consent!Next \/ UNCHANGED Consent!vars
  <2>1. UNCHANGED <<approved, unasked, verdict>>
    BY <1>6 DEF Handle
  <2>2. PICK m \in ToClient :
          (m.prompt \in Prompts /\ shown' = shown \cup {m.prompt.call}) \/ shown' = shown
    BY <1>1, <1>6, HandledOne
  <2>3. CASE shown' = shown
    BY <1>2, <2>1, <2>3 DEF Same, Outcome
  <2>4. CASE m.prompt \in Prompts /\ shown' = shown \cup {m.prompt.call}
    <3>1. Consent!Show(m.prompt.call)
      BY <2>1, <2>4 DEF Consent!Show
    <3> QED BY <1>1, <2>4, <3>1 DEF Consent!Next
  <2> QED BY <2>2, <2>3, <2>4
<1>7. ASSUME NEW p \in Pages, NEW yes \in BOOLEAN, Answer(p, yes)
      PROVE  Consent!Next \/ UNCHANGED Consent!vars
  <2>1. asking[p] \in Prompts /\ asking[p].call \in Calls /\ asking[p].call \in shown
    BY <1>1, <1>7 DEF Answer, SigningInv, AnswersAreMeant
  <2>2. /\ UNCHANGED <<shown, unasked, verdict>>
        /\ approved' = IF yes THEN approved \cup {asking[p].call} ELSE approved
    BY <1>7 DEF Answer
  <2>3. CASE yes
    <3>1. Consent!Approve(asking[p].call)
      BY <2>1, <2>2, <2>3 DEF Consent!Approve
    <3> QED BY <2>1, <3>1 DEF Consent!Next
  <2>4. CASE ~yes
    BY <1>2, <2>2, <2>4 DEF Same, Outcome
  <2> QED BY <2>3, <2>4
<1>8. ASSUME NEW c \in Calls, NEW word \in {"waiting", "signed", "refused"}, Rest,
             verdict[c] \in {"none", "waiting"}, verdict' = [verdict EXCEPT ![c] = word]
      PROVE  /\ Asked /\ word = "waiting" => Same
             /\ Asked /\ word = "refused" => Consent!Next \/ Same
             /\ Asked /\ word = "signed" /\ c \in approved => Consent!Next \/ Same
             /\ c \in unasked' /\ unasked' = unasked \cup {c} => Same
  <2>1. /\ UNCHANGED <<shown, approved>> /\ verdict'[c] = word
        /\ \A d \in Calls : d # c => verdict'[d] = verdict[d]
    BY <1>1, <1>8 DEF Rest
  <2>2. CASE c \in unasked' /\ unasked' = unasked \cup {c}
    BY <1>8, <2>1, <2>2 DEF Same, Outcome
  <2>3. CASE Asked /\ word = "waiting"
    BY <1>8, <2>1, <2>3 DEF Same, Outcome, Asked
  <2>4. CASE Asked /\ c \notin unasked /\ word = "refused"
    <3>1. Consent!Refuse(c)
      BY <1>1, <1>8, <2>1, <2>4 DEF Asked, Consent!Refuse
    <3> QED BY <2>2, <2>4, <3>1 DEF Consent!Next
  <2>5. CASE Asked /\ c \notin unasked /\ word = "signed"
    <3>1. c \in approved => Consent!Sign(c)
      BY <1>1, <1>8, <2>1, <2>5 DEF Asked, Consent!Sign
    <3> QED BY <2>2, <2>5, <3>1 DEF Consent!Next
  <2>6. Asked /\ c \in unasked => c \in unasked' /\ unasked' = unasked \cup {c}
    BY DEF Asked
  <2> QED BY <2>2, <2>3, <2>4, <2>5, <2>6
<1>9. ASSUME NEW k \in Clients, NEW m \in ToServer, Rest, Reads(k, m), m.type = "sign",
             m.call \in Calls, Asked, RefusesAtOnce(m.call) \/ Asks(m.call)
      PROVE  Consent!Next \/ UNCHANGED Consent!vars
  <2>1. verdict[m.call] = "none"
    BY <1>1, <1>9, ReadOne DEF SigningInv, CallsAreNew
  <2>2. CASE RefusesAtOnce(m.call)
    <3>1. verdict' = [verdict EXCEPT ![m.call] = "refused"]
      BY <2>2 DEF RefusesAtOnce, End
    <3> QED BY <1>2, <1>8, <1>9, <2>1, <3>1
  <2>3. CASE Asks(m.call)
    <3>1. verdict' = [verdict EXCEPT ![m.call] = "waiting"]
      BY <2>3 DEF Asks
    <3> QED BY <1>2, <1>8, <1>9, <2>1, <3>1
  <2> QED BY <1>9, <2>2, <2>3
<1>10. ASSUME NEW e \in confirmations, NEW yes \in BOOLEAN, Finishes(e, yes)
       PROVE  /\ e.call \in Calls /\ verdict[e.call] = "waiting"
              /\ yes => verdict' = [verdict EXCEPT ![e.call] = "signed"]
              /\ ~yes => verdict' = [verdict EXCEPT ![e.call] = "refused"]
  BY <1>1, <1>10 DEF SigningInv, ConfirmationsAreWaiting, Finishes, End
<1>11. ASSUME NEW k \in Clients, NEW m \in ToServer, Rest, Reads(k, m), m.type = "answer",
              m.approved \in BOOLEAN, Answered(m), NEW e \in confirmations, e.id = m.id,
              Finishes(e, m.approved)
       PROVE  Consent!Next \/ UNCHANGED Consent!vars
  <2>1. /\ e.call \in Calls /\ verdict[e.call] = "waiting"
        /\ m.approved => verdict' = [verdict EXCEPT ![e.call] = "signed"]
        /\ ~m.approved => verdict' = [verdict EXCEPT ![e.call] = "refused"]
    BY <1>10, <1>11
  <2>2. CASE Drawn(m)
    <3>1. m \in Coming(k) /\ FromPrompt(m) /\ Asked
      BY <1>1, <1>11, <2>2, ReadOne DEF Drawn, FromPrompt, Answered, Asked
    <3>2. m.id = m.seen.id /\ InOrder(m.seen)
      BY <3>1 DEF SigningInv, PromptsAreKnown
    <3>3. e = m.seen
      BY <1>11, <2>2, <3>2 DEF InOrder, Known, Drawn
    <3>4. m.approved => e.call \in approved
      BY <3>1, <3>3 DEF SigningInv, AnswersAreMeant
    <3> QED BY <1>2, <1>8, <1>11, <2>1, <3>1, <3>4
  <2>3. CASE ~Drawn(m)
    <3>1. /\ \A d \in Calls : d # e.call => verdict'[d] = verdict[d]
          /\ verdict'[e.call] # verdict[e.call]
      BY <1>1, <1>11, <2>1
    <3>2. unasked' = unasked \cup {e.call}
      BY <1>11, <2>1, <2>3, <3>1 DEF Answered
    <3> QED BY <1>2, <1>8, <1>11, <2>1, <3>2
  <2> QED BY <2>2, <2>3
<1>12. ASSUME NEW e \in confirmations, Rest, Asked, Finishes(e, FALSE)
       PROVE  Consent!Next \/ UNCHANGED Consent!vars
  BY <1>2, <1>8, <1>10, <1>12
<1> QED BY <1>2, <1>3, <1>4, <1>5, <1>6, <1>7, <1>9, <1>11, <1>12 DEF Step

(* Signing in the emulator is what SigningConsent promises to every call   *)
(* but those that an unasked answer ended, whatever the connections do: an *)
(* answer to a prompt of the emulator as it runs meets the call of that    *)
(* prompt, and an answer to an earlier one ends no call under the promise  *)
(* (daemon.mjs:301-345).                                                   *)
THEOREM EmulatorRefinement == Spec => ImplementsConsent
<1>1. Init => Consent!Init
  BY DEF Init, Consent!Init
<1>2. SigningInv /\ [Next]_vars => [Consent!Next]_Consent!vars
  <2>1. SigningInv /\ [Next]_vars => Step
    BY StepCases DEF SigningInv
  <2> QED BY <2>1, ConsentStep
<1> QED BY <1>1, <1>2, SigningInvariant, PTL DEF Spec, ImplementsConsent, Consent!Spec

-----------------------------------------------------------------------------
(* The edit loop.  A builder that has made dist empty and not yet filled it. *)
Writing(b) == phase[b] \in {"emptied", "read", "bundled"}

(* WatchedBuildIsCurrent is about the end of a build; in its middle, what  *)
(* there is of it is made of the source as it is, unless a change is still *)
(* to be reported or a build is about to begin.                            *)
Made ==
  /\ dist.bundle = source.code /\ dist.manifest = source.project
  /\ ~unseen => dist.static = source.files
  /\ source.project = plan["watch"] => dist.plan = source.project

BuildInv ==
  ~doubt =>
    /\ \A b, c \in Builders : Writing(b) /\ Writing(c) => b = c
    /\ ~edited /\ phase["watch"] # "waiting" =>
         /\ \A b \in Builders : /\ phase[b] = "read" => read[b] = source.code
                                /\ phase[b] = "bundled" => dist.bundle = source.code
         /\ (\A b \in Builders : ~Writing(b)) => Made

(* `run` has found its project later than `build --watch`.                 *)
PlanInv == plan["watch"] <= plan["run"] /\ plan["run"] <= source.project

(* A window that will load the shell anew, or has missed that it should.   *)
Told(w) == notices[w] > 0 \/ missed[w]

(* The brightness a window shows once it has handled what is under way.    *)
Latest(w) == IF pushed[w] = << >> THEN seen[w].bright ELSE Last(pushed[w])

(* Its application is the build, or will be loaded anew, or the emulator   *)
(* has lost sight of dist.                                                 *)
Loads(w) == seen[w].dist = dist \/ ~watched \/ touched \/ timer \/ Told(w)

Hears(w) == seen[w].profile = profile /\ (shell = "real" => Latest(w) = bright)

(* QuietWindowIsCurrent is about a window at rest; until then something is *)
(* under way that will bring it what it does not show.                     *)
WindowInv ==
  /\ phase["run"] # "idle" => ~running
  /\ watched => running
  /\ \A w \in Windows :
       /\ frame[w] # "none" => running
       /\ frame[w] = "none" => ~sub[w] /\ notices[w] = 0 /\ switching[w] = {}
       /\ frame[w] \notin {"ready", "live"} => pushed[w] = << >>
       /\ frame[w] = "live" => Loads(w)
       /\ frame[w] \in {"ready", "live"} =>
            Told(w) \/ Hears(w)

(* `build --watch` starts no emulator.                                     *)
OnlyRunStarts == phase["watch"] # "starting"

LoopInv == LoopTypeOK /\ OnlyRunStarts /\ PlanInv /\ BuildInv /\ WindowInv

(* An edit is one more version of its part.                                *)
LEMMA Edited ==
  ASSUME source \in Sources, NEW part \in {"code", "files", "project"}
  PROVE  /\ [source EXCEPT ![part] = @ + 1] \in Sources
         /\ source.project <= [source EXCEPT ![part] = @ + 1].project
<1>1. /\ source.code \in Nat /\ source.files \in Nat /\ source.project \in Nat
      /\ source = [code |-> source.code, files |-> source.files,
                   project |-> source.project]
  BY DEF Sources
<1>2. CASE part = "code"
  <2>1. [source EXCEPT ![part] = @ + 1] = [source EXCEPT !.code = @ + 1]
    BY <1>2
  <2> QED BY <1>1, <2>1 DEF Sources
<1>3. CASE part = "files"
  <2>1. [source EXCEPT ![part] = @ + 1] = [source EXCEPT !.files = @ + 1]
    BY <1>3
  <2> QED BY <1>1, <2>1 DEF Sources
<1>4. CASE part = "project"
  <2>1. [source EXCEPT ![part] = @ + 1] = [source EXCEPT !.project = @ + 1]
    BY <1>4
  <2> QED BY <1>1, <2>1 DEF Sources
<1> QED BY <1>2, <1>3, <1>4

(* Spending of a bound.                                                    *)
LEMMA Spent ==
  ASSUME LoopTypeOK, NEW k \in Bounds, NEW b, Spend(k, b)
  PROVE  used' \in [Bounds -> Nat]
<1>1. used \in [Bounds -> Nat]
  BY DEF LoopTypeOK
<1>2. used' = [used EXCEPT ![k] = @ + 1]
  BY DEF Spend
<1> QED BY <1>1, <1>2

Shown == [dist: Dist, manifest: Versions, profile: Profiles, bright: Levels]

LEMMA LoopTypeStep ==
  ASSUME LoopTypeOK, [LoopNext]_loopVars
  PROVE  LoopTypeOK'
<1> USE DEF editing, builders, output, host, stream, page, Spend, LoopTypeOK, Shown
<1>1. ASSUME UNCHANGED loopVars PROVE LoopTypeOK'
  BY <1>1 DEF loopVars
<1>2. ASSUME \/ Run \/ EditBelow
             \/ \E part \in {"code", "files", "project"} : Edit(part)
      PROVE  LoopTypeOK'
  <2>1. used' \in [Bounds -> Nat]
    <3>1. "events" \in Bounds /\ "runs" \in Bounds
      BY DEF Bounds
    <3>2. Spend("events", MaxEvents) \/ Spend("runs", MaxRuns)
      BY <1>2 DEF Edit, EditBelow, Run, FindProject
    <3> QED BY <3>1, <3>2, Spent
  <2>2. ASSUME NEW part \in {"code", "files", "project"}, Edit(part) PROVE LoopTypeOK'
    <3>1. source' \in Sources
      BY <2>2, Edited DEF Edit
    <3> QED BY <2>1, <2>2, <3>1 DEF Edit
  <2>3. CASE EditBelow
    <3>1. source' \in Sources
      <4>1. source' = [source EXCEPT !["files"] = @ + 1] /\ source \in Sources
        BY <2>3 DEF EditBelow
      <4> QED BY <4>1, Edited
    <3> QED BY <2>1, <2>3, <3>1 DEF EditBelow
  <2>4. CASE Run
    <3>1. /\ phase' \in [Builders ->
                          {"idle", "waiting", "emptied", "read", "bundled", "starting"}]
          /\ plan' \in [Builders -> Nat]
      BY <2>4 DEF Run, FindProject, Builders, Sources
    <3> QED BY <2>1, <2>4, <3>1 DEF Run, FindProject
  <2> QED BY <1>2, <2>2, <2>3, <2>4
<1>3. ASSUME Notice \/ Start \/ Trigger PROVE LoopTypeOK'
  <2>1. dist.manifest \in Versions
    BY DEF Dist
  <2> QED BY <1>3, <2>1 DEF Notice, Start, Trigger
<1>4. ASSUME NotifyReload
      PROVE  notices' \in [Windows -> Nat] /\ missed' \in [Windows -> BOOLEAN]
  <2>1. \A w \in Windows : (IF sub[w] THEN notices[w] + 1 ELSE notices[w]) \in Nat
    OBVIOUS
  <2>2. \A w \in Windows : (missed[w] \/ (frame[w] # "none" /\ ~sub[w])) \in BOOLEAN
    OBVIOUS
  <2> QED BY <1>4, <2>1, <2>2 DEF NotifyReload
<1>5. ASSUME Fire PROVE LoopTypeOK'
  BY <1>4, <1>5 DEF Fire, NotifyReload
<1>6. ASSUME NEW w \in Windows, NEW p \in Profiles, SwitchProfile(w, p)
      PROVE  LoopTypeOK'
  <2>1. Default \in Levels /\ "events" \in Bounds
    BY LoopAssumption DEF Bounds
  <2>2. used' \in [Bounds -> Nat] /\ profile' \in Profiles /\ bright' \in Levels
    BY <1>6, <2>1 DEF SwitchProfile
  <2>3. switching' \in [Windows -> SUBSET Profiles]
    BY <1>6 DEF SwitchProfile
  <2> QED BY <1>4, <1>6, <2>2, <2>3 DEF SwitchProfile, NotifyReload
<1>7. ASSUME NEW l \in Levels, SetBrightness(l) PROVE LoopTypeOK'
  <2>1. \A w \in Windows : Append(pushed[w], l) \in Seq(Levels)
    OBVIOUS
  <2>2. pushed' \in [Windows -> Seq(Levels)]
    BY <1>7, <2>1 DEF SetBrightness
  <2>3. used' \in [Bounds -> Nat]
    BY <1>7, Spent DEF SetBrightness, Bounds
  <2> QED BY <1>7, <2>2, <2>3 DEF SetBrightness
<1>8. ASSUME NEW w \in Windows, OpenWindow(w) \/ Subscribe(w) PROVE LoopTypeOK'
  BY <1>8 DEF OpenWindow, Subscribe
<1>9. ASSUME NEW b \in Builders PROVE Staged(b) \in Dist /\ read[b] \in Versions
  <2>1. {plan[b], read[b], source.files, source.project} \subseteq Versions
    BY DEF Versions, Sources
  <2> QED BY <2>1 DEF Staged, Dist
<1>10. ASSUME NEW w \in Windows, LoseStream(w) PROVE LoopTypeOK'
  <2>1. used' \in [Bounds -> Nat]
    BY <1>10 DEF LoseStream, Bounds
  <2>2. (missed[w] \/ notices[w] > 0) \in BOOLEAN
    OBVIOUS
  <2>3. /\ sub' \in [Windows -> BOOLEAN] /\ notices' \in [Windows -> Nat]
        /\ missed' \in [Windows -> BOOLEAN]
    BY <1>10, <2>2 DEF LoseStream
  <2> QED BY <1>10, <2>1, <2>3 DEF LoseStream
<1>11. ASSUME NEW b \in Builders, Builder(b) \/ BuildFails(b) PROVE LoopTypeOK'
  <2>1. Nothing \in Dist
    BY DEF Nothing, Dist, Versions
  <2>2. [dist EXCEPT !.bundle = read[b]] \in Dist
    BY <1>9 DEF Dist
  <2>3. /\ dist' \in Dist
        /\ {touched', doubt', watched', unseen'} \subseteq BOOLEAN
    BY <1>9, <1>11, <2>1, <2>2 DEF Builder, Empty, Read, Bundle, Stage, BuildFails,
                                   WriteDist, Alone
  <2>4. phase' \in [Builders ->
                     {"idle", "waiting", "emptied", "read", "bundled", "starting"}]
    BY <1>11 DEF Builder, Empty, Read, Bundle, Stage, BuildFails
  <2>5. read' \in [Builders -> Nat]
    <3>1. \E n \in {0, source.code} : read' = read \/ read' = [read EXCEPT ![b] = n]
      BY <1>11 DEF Builder, Empty, Read, Bundle, Stage, BuildFails
    <3>2. {0, source.code} \subseteq Nat /\ read \in [Builders -> Nat]
      BY DEF Sources
    <3> QED BY <3>1, <3>2
  <2>6. UNCHANGED <<editing, plan, host, stream, page, switching>>
    BY <1>11 DEF Builder, Empty, Read, Bundle, Stage, BuildFails
  <2>7. used' \in [Bounds -> Nat]
    <3>1. used' = used \/ Spend("events", MaxEvents)
      BY <1>11 DEF Builder, Empty, Read, Bundle, Stage, BuildFails
    <3>2. "events" \in Bounds
      BY DEF Bounds
    <3> QED BY <3>1, <3>2, Spent
  <2> QED BY <2>3, <2>4, <2>5, <2>6, <2>7
<1>12. Blank \in Shown
  BY LoopAssumption DEF Blank, Shown, Nothing, Dist, Versions
<1>13. ASSUME NEW w \in Windows,
              HandleNotice(w) \/ \E p \in Profiles : HandleSwitched(w, p)
       PROVE  LoopTypeOK'
  <2>1. << >> \in Seq(Levels)
    OBVIOUS
  <2>2. /\ frame' \in [Windows -> {"none", "loading", "ready", "live"}]
        /\ pushed' \in [Windows -> Seq(Levels)]
        /\ seen' \in [Windows -> Shown]
        /\ missed' \in [Windows -> BOOLEAN]
    <3>1. ReloadShell(w)
      BY <1>13 DEF HandleNotice, HandleSwitched
    <3> QED BY <1>12, <2>1, <3>1 DEF ReloadShell
  <2>3. CASE HandleNotice(w)
    BY <2>2, <2>3 DEF HandleNotice
  <2>4. ASSUME NEW p \in Profiles, HandleSwitched(w, p) PROVE LoopTypeOK'
    BY <2>2, <2>4 DEF HandleSwitched
  <2> QED BY <1>13, <2>3, <2>4
<1>14. ASSUME NEW w \in Windows,
              ConnectShell(w) \/ LoadApp(w) \/ LeaveApp(w) \/ HandleBrightness(w)
       PROVE  LoopTypeOK'
  <2>1. /\ seen[w] \in Shown /\ Nothing \in Dist
        /\ (pushed[w] # << >>) => Head(pushed[w]) \in Levels /\ Tail(pushed[w]) \in Seq(Levels)
    BY DEF Nothing, Dist, Versions
  <2>2. seen' \in [Windows -> Shown]
    <3>1. CASE ConnectShell(w)
      <4>1. /\ seen' = [seen EXCEPT ![w] = [@ EXCEPT !.profile = profile, !.bright = bright,
                                                     !.manifest = served]]
            /\ [seen[w] EXCEPT !.profile = profile, !.bright = bright, !.manifest = served]
                 \in Shown
        BY <2>1, <3>1 DEF ConnectShell, Shown
      <4> QED BY <4>1
    <3>2. CASE LoadApp(w) \/ LeaveApp(w)
      <4>1. \E d \in Dist : seen' = [seen EXCEPT ![w] = [@ EXCEPT !.dist = d]]
        BY <2>1, <3>2 DEF LoadApp, LeaveApp
      <4>2. \A d \in Dist : [seen[w] EXCEPT !.dist = d] \in Shown
        BY <2>1 DEF Shown
      <4> QED BY <4>1, <4>2
    <3>3. CASE HandleBrightness(w)
      <4>1. \E l \in Levels : seen' = [seen EXCEPT ![w] = [@ EXCEPT !.bright = l]]
        BY <2>1, <3>3 DEF HandleBrightness
      <4>2. \A l \in Levels : [seen[w] EXCEPT !.bright = l] \in Shown
        BY <2>1 DEF Shown
      <4> QED BY <4>1, <4>2
    <3> QED BY <1>14, <3>1, <3>2, <3>3
  <2>3. /\ frame' \in [Windows -> {"none", "loading", "ready", "live"}]
        /\ pushed' \in [Windows -> Seq(Levels)]
    <3>1. \/ frame' = frame
          \/ \E f \in {"ready", "live"} : frame' = [frame EXCEPT ![w] = f]
      BY <1>14 DEF ConnectShell, LoadApp, LeaveApp, HandleBrightness
    <3>2. pushed' = pushed \/ (pushed[w] # << >> /\ pushed' = [pushed EXCEPT ![w] = Tail(@)])
      BY <1>14 DEF ConnectShell, LoadApp, LeaveApp, HandleBrightness
    <3>3. frame' \in [Windows -> {"none", "loading", "ready", "live"}]
      BY <3>1
    <3>4. pushed' \in [Windows -> Seq(Levels)]
      BY <2>1, <3>2
    <3> QED BY <3>3, <3>4
  <2>4. UNCHANGED <<editing, builders, output, host, stream, switching, used>>
    BY <1>14 DEF ConnectShell, LoadApp, LeaveApp, HandleBrightness
  <2> QED BY <2>2, <2>3, <2>4 DEF Shown
<1> QED BY <1>1, <1>2, <1>3, <1>5, <1>6, <1>7, <1>8, <1>10, <1>11, <1>13, <1>14
        DEF LoopNext, Watcher, Developer, Faults, Page, Mount, OpenApp

LEMMA OnlyRunStep ==
  ASSUME LoopTypeOK, OnlyRunStarts, PlanInv, [LoopNext]_loopVars
  PROVE  OnlyRunStarts' /\ PlanInv'
<1> USE DEF editing, builders, output, OnlyRunStarts, PlanInv
<1>1. /\ phase \in [Builders ->
                    {"idle", "waiting", "emptied", "read", "bundled", "starting"}]
      /\ plan \in [Builders -> Nat] /\ source \in Sources
      /\ "watch" \in Builders /\ "run" \in Builders
  BY DEF LoopTypeOK, Builders
<1>2. ASSUME UNCHANGED <<phase, plan, source>> PROVE OnlyRunStarts' /\ PlanInv'
  BY <1>2
<1>3. ASSUME UNCHANGED loopVars \/ Watcher PROVE UNCHANGED <<phase, plan, source>>
  BY <1>3 DEF loopVars, Watcher, Trigger, Fire
<1>4. ASSUME NEW w \in Windows,
             Page(w) \/ OpenWindow(w) \/ LoseStream(w) \/ OpenApp(w) \/ LeaveApp(w)
      PROVE  UNCHANGED <<phase, plan, source>>
  BY <1>4 DEF Page, OpenWindow, LoseStream, Subscribe, HandleNotice, HandleSwitched,
              ConnectShell, Mount, OpenApp, LoadApp, LeaveApp, HandleBrightness
<1>5. ASSUME \/ \E l \in Levels : SetBrightness(l)
             \/ \E w \in Windows : \E p \in Profiles : SwitchProfile(w, p)
      PROVE  UNCHANGED <<phase, plan, source>>
  BY <1>5 DEF SetBrightness, SwitchProfile
<1>6. ASSUME EditBelow \/ \E part \in {"code", "files", "project"} : Edit(part)
      PROVE  OnlyRunStarts' /\ PlanInv'
  <2>1. UNCHANGED <<phase, plan>>
    BY <1>6 DEF Edit, EditBelow
  <2>2. PICK part \in {"code", "files", "project"} :
          source' = [source EXCEPT ![part] = @ + 1]
    BY <1>6 DEF Edit, EditBelow
  <2>3. source.project <= source'.project /\ source'.project \in Nat
    BY <1>1, <2>2, Edited DEF Sources
  <2> QED BY <1>1, <2>1, <2>2, <2>3 DEF Sources
<1>7. ASSUME Notice \/ Start PROVE OnlyRunStarts' /\ PlanInv'
  BY <1>1, <1>7 DEF Notice, Start
<1>8. ASSUME Run PROVE OnlyRunStarts' /\ PlanInv'
  <2>1. /\ phase' = [phase EXCEPT !["run"] = "waiting"] /\ source' = source
        /\ plan' = [plan EXCEPT !["run"] = source.project]
    BY <1>8 DEF Run, FindProject
  <2>2. plan'["watch"] = plan["watch"] /\ plan'["run"] = source.project
    BY <1>1, <2>1
  <2>3. plan["watch"] <= source.project /\ source.project <= source.project
    BY <1>1 DEF Sources
  <2> QED BY <1>1, <2>1, <2>2, <2>3
<1>9. ASSUME NEW b \in Builders, Builder(b) \/ BuildFails(b)
      PROVE  OnlyRunStarts' /\ PlanInv'
  <2>1. \E s \in {"idle", "emptied", "read", "bundled"} :
          phase' = [phase EXCEPT ![b] = s]
            \/ (b = "run" /\ phase' = [phase EXCEPT ![b] = "starting"])
    BY <1>9 DEF Builder, Empty, Read, Bundle, Stage, BuildFails
  <2>2. UNCHANGED <<plan, source>>
    BY <1>9 DEF Builder, Empty, Read, Bundle, Stage, BuildFails
  <2> QED BY <1>1, <2>1, <2>2
<1> QED BY <1>2, <1>3, <1>4, <1>5, <1>6, <1>7, <1>8, <1>9
        DEF LoopNext, Developer, Faults

LEMMA BuildStep ==
  ASSUME LoopTypeOK, OnlyRunStarts, PlanInv, BuildInv, [LoopNext]_loopVars
  PROVE  BuildInv'
<1> USE DEF editing, builders, output
<1>1. /\ phase \in [Builders ->
                    {"idle", "waiting", "emptied", "read", "bundled", "starting"}]
      /\ read \in [Builders -> Nat] /\ dist \in Dist /\ source \in Sources
      /\ plan \in [Builders -> Nat]
      /\ "watch" \in Builders /\ "run" \in Builders
  BY DEF LoopTypeOK, Builders
<1>2. ASSUME UNCHANGED <<source, edited, read, dist, doubt, unseen>>,
             plan'["watch"] = plan["watch"],
             phase'["watch"] = phase["watch"],
             phase' = phase \/ (phase["run"] \in {"idle", "waiting", "starting"}
                                 /\ \E s \in {"idle", "waiting", "starting"} :
                                      phase' = [phase EXCEPT !["run"] = s])
      PROVE  BuildInv'
  <2>1. \A b \in Builders : Writing(b)' <=> Writing(b)
    BY <1>1, <1>2 DEF Writing
  <2>2. \A b \in Builders, s \in {"read", "bundled"} : phase'[b] = s <=> phase[b] = s
    BY <1>1, <1>2
  <2>3. Made' <=> Made
    BY <1>2 DEF Made
  <2> QED BY <1>2, <2>1, <2>2, <2>3 DEF BuildInv
<1>3. ASSUME UNCHANGED loopVars \/ Watcher PROVE BuildInv'
  BY <1>2, <1>3 DEF loopVars, Watcher, Trigger, Fire
<1>4. ASSUME Run PROVE BuildInv'
  BY <1>1, <1>2, <1>4 DEF Run, FindProject
<1>5. ASSUME Start PROVE BuildInv'
  BY <1>1, <1>2, <1>5 DEF Start
<1>6. ASSUME NEW w \in Windows,
             Page(w) \/ OpenWindow(w) \/ LoseStream(w) \/ OpenApp(w) \/ LeaveApp(w)
      PROVE  BuildInv'
  BY <1>2, <1>6 DEF Page, OpenWindow, LoseStream, Subscribe, HandleNotice, HandleSwitched,
                    ConnectShell, Mount, OpenApp, LoadApp, LeaveApp, HandleBrightness
<1>7. ASSUME \/ \E l \in Levels : SetBrightness(l)
             \/ \E w \in Windows : \E p \in Profiles : SwitchProfile(w, p)
      PROVE  BuildInv'
  BY <1>2, <1>7 DEF SetBrightness, SwitchProfile
<1>8. ASSUME NEW part \in {"code", "files", "project"}, Edit(part) PROVE BuildInv'
  BY <1>8 DEF Edit, BuildInv, Writing
<1>9. ASSUME EditBelow PROVE BuildInv'
  <2>1. /\ UNCHANGED <<edited, phase, plan, read, dist, doubt>> /\ unseen'
        /\ source' = [source EXCEPT !.files = @ + 1]
    BY <1>9 DEF EditBelow
  <2>2. source'.code = source.code /\ source'.project = source.project
    BY <1>1, <2>1 DEF Sources
  <2>3. Made => Made'
    BY <2>1, <2>2 DEF Made
  <2>4. \A b \in Builders : Writing(b)' <=> Writing(b)
    BY <2>1 DEF Writing
  <2> QED BY <2>1, <2>2, <2>3, <2>4 DEF BuildInv
<1>10. ASSUME Notice PROVE BuildInv'
  <2>1. CASE phase["watch"] = "idle"
    <3>1. doubt' = doubt /\ phase' = [phase EXCEPT !["watch"] = "waiting"]
      BY <1>10, <2>1 DEF Notice
    <3>2. phase'["watch"] = "waiting" /\ \A b \in Builders : Writing(b)' <=> Writing(b)
      BY <1>1, <2>1, <3>1 DEF Writing
    <3> QED BY <3>1, <3>2 DEF BuildInv
  <2>2. CASE phase["watch"] # "idle"
    <3>1. /\ UNCHANGED <<source, phase, read, dist>>
          /\ doubt' = (doubt \/ phase["watch"] \in {"read", "bundled"})
      BY <1>10, <2>2 DEF Notice
    <3>2. ~doubt' => phase["watch"] \in {"waiting", "emptied"}
      BY <1>1, <2>2, <3>1 DEF OnlyRunStarts
    <3>3. ~doubt' /\ phase["watch"] = "emptied" => phase["run"] \notin {"read", "bundled"}
      BY <1>1, <3>1 DEF BuildInv, Writing
    <3>4. \A b \in Builders : b = "watch" \/ b = "run"
      BY DEF Builders
    <3>5. \A b \in Builders : Writing(b)' <=> Writing(b)
      BY <3>1 DEF Writing
    <3>6. ~doubt' => \/ phase'["watch"] = "waiting"
                     \/ /\ Writing("watch")'
                        /\ \A b \in Builders : phase'[b] \notin {"read", "bundled"}
      BY <1>1, <3>1, <3>2, <3>3, <3>4 DEF Writing
    <3> QED BY <1>1, <3>1, <3>5, <3>6 DEF BuildInv
  <2> QED BY <2>1, <2>2
<1>11. ASSUME NEW b \in Builders, Empty(b) PROVE BuildInv'
  <2>1. /\ phase' = [phase EXCEPT ![b] = "emptied"]
        /\ doubt' = ~(\A o \in Builders \ {b} : ~Writing(o))
    BY <1>11 DEF Empty, Alone, Writing
  <2>2. \A o \in Builders : Writing(o)' <=> Writing(o) \/ o = b
    BY <1>1, <2>1 DEF Writing
  <2>3. ~doubt' => \A o \in Builders : Writing(o)' => o = b
    BY <2>1, <2>2
  <2>4. phase'[b] = "emptied" /\ Writing(b)'
    BY <1>1, <2>1, <2>2
  <2>5. ~doubt' => \A o \in Builders : phase'[o] \notin {"read", "bundled"}
    BY <2>3, <2>4 DEF Writing
  <2> QED BY <2>3, <2>4, <2>5 DEF BuildInv
<1>12. ASSUME NEW b \in Builders, Read(b) PROVE BuildInv'
  <2>1. /\ UNCHANGED <<source, edited, dist, doubt>>
        /\ phase[b] = "emptied" /\ phase' = [phase EXCEPT ![b] = "read"]
        /\ read' = [read EXCEPT ![b] = source.code]
    BY <1>12 DEF Read
  <2>2. /\ \A o \in Builders : Writing(o)' <=> Writing(o)
        /\ phase["watch"] # "waiting" <=> phase'["watch"] # "waiting"
        /\ Writing(b)
    BY <1>1, <2>1 DEF Writing
  <2>3. /\ phase'[b] = "read" /\ read'[b] = source.code
        /\ \A o \in Builders : o # b => phase'[o] = phase[o] /\ read'[o] = read[o]
    BY <1>1, <2>1
  <2> QED BY <2>1, <2>2, <2>3 DEF BuildInv
<1>13. ASSUME NEW b \in Builders, Bundle(b) PROVE BuildInv'
  <2>1. /\ UNCHANGED <<source, edited>> /\ phase[b] = "read"
        /\ phase' = [phase EXCEPT ![b] = "bundled"] /\ read' = [read EXCEPT ![b] = 0]
        /\ dist' = [dist EXCEPT !.bundle = read[b]]
        /\ ~doubt' => ~doubt
    BY <1>13 DEF Bundle, WriteDist
  <2>2. /\ \A o \in Builders : Writing(o)' <=> Writing(o)
        /\ phase["watch"] # "waiting" <=> phase'["watch"] # "waiting"
        /\ Writing(b)
    BY <1>1, <2>1 DEF Writing
  <2>3. phase'[b] = "bundled" /\ dist'.bundle = read[b]
    BY <1>1, <2>1 DEF Dist
  <2>4. ~doubt' => \A o \in Builders : Writing(o)' => o = b
    BY <2>1, <2>2 DEF BuildInv
  <2>5. ~doubt' => \A o \in Builders : phase'[o] \in {"read", "bundled"} => o = b
    BY <2>4 DEF Writing
  <2>6. ~doubt' /\ ~edited' /\ phase'["watch"] # "waiting" => dist'.bundle = source'.code
    <3>1. ASSUME ~doubt, ~edited, phase["watch"] # "waiting" PROVE read[b] = source.code
      BY <2>1, <3>1 DEF BuildInv
    <3> QED BY <2>1, <2>2, <2>3, <3>1
  <2> QED BY <2>2, <2>3, <2>4, <2>5, <2>6 DEF BuildInv
<1>14. ASSUME NEW b \in Builders, Stage(b) PROVE BuildInv'
  <2>1. /\ UNCHANGED <<source, edited, plan>> /\ phase[b] = "bundled"
        /\ phase' = [phase EXCEPT ![b] = IF b = "run" THEN "starting" ELSE "idle"]
        /\ dist' = Staged(b)
        /\ ~doubt' => ~doubt
    BY <1>14 DEF Stage, WriteDist
  <2>2. /\ \A o \in Builders : Writing(o)' <=> Writing(o) /\ o # b
        /\ phase["watch"] # "waiting" <=> phase'["watch"] # "waiting"
        /\ Writing(b)
    BY <1>1, <2>1 DEF Writing
  <2>3. ~doubt' => \A o \in Builders : ~Writing(o)'
    BY <2>1, <2>2 DEF BuildInv
  <2>4. ~doubt' => \A o \in Builders : phase'[o] \notin {"read", "bundled"}
    BY <2>3 DEF Writing
  <2>5. ~doubt' /\ ~edited' /\ phase'["watch"] # "waiting" => Made'
    <3>1. ~doubt' /\ ~edited' /\ phase'["watch"] # "waiting" => dist.bundle = source.code
      BY <2>1, <2>2 DEF BuildInv
    <3>2. /\ dist'.bundle = dist.bundle /\ dist'.static = source.files
          /\ dist'.manifest = source.project /\ dist'.plan = plan[b]
      BY <1>1, <2>1 DEF Dist, Staged
    <3>3. source.project = plan["watch"] => plan[b] = source.project
      <4>1. /\ plan["watch"] \in Nat /\ plan["run"] \in Nat /\ source.project \in Nat
            /\ b = "watch" \/ b = "run"
        BY <1>1 DEF Builders, Sources
      <4> QED BY <4>1 DEF PlanInv
    <3> QED BY <2>1, <3>1, <3>2, <3>3 DEF Made
  <2> QED BY <2>1, <2>3, <2>4, <2>5 DEF BuildInv
<1>15. ASSUME NEW b \in Builders, BuildFails(b) PROVE BuildInv'
  BY <1>15 DEF BuildFails, BuildInv
<1> QED BY <1>3, <1>4, <1>5, <1>6, <1>7, <1>8, <1>9, <1>10, <1>11, <1>12, <1>13, <1>14, <1>15
        DEF LoopNext, Developer, Faults, Builder

(* What is last in a sequence stays last while the first is taken.         *)
LEMMA LastOfTail ==
  ASSUME NEW S, NEW s \in Seq(S), s # << >>
  PROVE  /\ Tail(s) = << >> => Head(s) = Last(s)
         /\ Tail(s) # << >> => Last(Tail(s)) = Last(s)
<1> DEFINE t == Tail(s)
           n == Len(s)
<1>1. /\ t \in Seq(S) /\ n \in Nat /\ Head(s) = s[1] /\ Len(t) = n - 1
      /\ \A i \in 1..n - 1 : t[i] = s[i + 1]
  BY Taken
<1> HIDE DEF t, n
<1>2. t = << >> => n = 1
  BY <1>1
<1>3. t # << >> => n - 1 \in 1..n - 1 /\ n - 1 + 1 = n
  BY <1>1
<1> QED BY <1>1, <1>2, <1>3 DEF Last, t, n

LEMMA WindowStep ==
  ASSUME LoopTypeOK, WindowInv, [LoopNext]_loopVars
  PROVE  WindowInv'
<1> USE DEF editing, builders, output, host, stream, page
<1>1. /\ phase \in [Builders ->
                    {"idle", "waiting", "emptied", "read", "bundled", "starting"}]
      /\ frame \in [Windows -> {"none", "loading", "ready", "live"}]
      /\ notices \in [Windows -> Nat] /\ missed \in [Windows -> BOOLEAN]
      /\ sub \in [Windows -> BOOLEAN]
      /\ switching \in [Windows -> SUBSET Profiles]
      /\ pushed \in [Windows -> Seq(Levels)]
      /\ seen \in [Windows -> Shown]
      /\ {running, watched, touched, timer} \subseteq BOOLEAN
      /\ "run" \in Builders
  BY DEF LoopTypeOK, Builders, Shown
<1>2. ASSUME UNCHANGED <<output, host, stream, page, switching>>,
             phase'["run"] # "idle" => ~running
      PROVE  WindowInv'
  BY <1>2 DEF WindowInv, Loads, Hears, Told, Latest
<1>3. ASSUME \/ UNCHANGED loopVars \/ EditBelow \/ Notice \/ Run
             \/ \E part \in {"code", "files", "project"} : Edit(part)
             \/ \E b \in Builders : Read(b)
             \/ \E w \in Windows : Subscribe(w)
      PROVE  WindowInv'
  <2>1. CASE \E w \in Windows : Subscribe(w)
    <3>1. PICK w \in Windows : Subscribe(w)
      BY <2>1
    <3>2. /\ UNCHANGED <<phase, output, host, page, notices, missed, switching>>
          /\ frame[w] # "none" /\ \A v \in Windows : v # w => sub'[v] = sub[v]
      BY <1>1, <3>1 DEF Subscribe
    <3> QED BY <3>2 DEF WindowInv, Loads, Hears, Told, Latest
  <2>2. CASE \/ UNCHANGED loopVars \/ EditBelow
             \/ \E part \in {"code", "files", "project"} : Edit(part)
    BY <1>2, <2>2 DEF loopVars, Edit, EditBelow, WindowInv
  <2>3. CASE Notice \/ Run
    <3>1. phase'["run"] # "idle" => ~running
      BY <1>1, <2>3 DEF Notice, Run, WindowInv
    <3> QED BY <1>2, <2>3, <3>1 DEF Notice, Run
  <2>4. CASE \E b \in Builders : Read(b)
    <3>1. phase'["run"] # "idle" => phase["run"] # "idle"
      BY <1>1, <2>4 DEF Read
    <3> QED BY <1>2, <2>4, <3>1 DEF Read, WindowInv
  <2> QED BY <1>3, <2>1, <2>2, <2>3, <2>4
<1>4. ASSUME NEW b \in Builders, Empty(b) \/ Bundle(b) \/ Stage(b) \/ BuildFails(b)
      PROVE  WindowInv'
  <2>1. phase'["run"] # "idle" => phase["run"] # "idle"
    BY <1>1, <1>4 DEF Empty, Bundle, Stage, BuildFails
  <2>2. /\ watched' \in {watched, FALSE}
        /\ \/ UNCHANGED <<dist, touched>>
           \/ touched' = (touched \/ (running /\ watched))
        /\ UNCHANGED <<host, stream, page, switching>>
    BY <1>4 DEF Empty, Bundle, Stage, BuildFails, WriteDist
  <2>3. /\ watched' => watched /\ running
        /\ touched => touched'
        /\ watched => dist' = dist \/ touched'
    <3>1. watched => running
      BY DEF WindowInv
    <3>2. watched' => watched
      BY <2>2
    <3>3. touched => touched'
      BY <2>2
    <3>4. watched => dist' = dist \/ touched'
      BY <2>2, <3>1
    <3> QED BY <3>1, <3>2, <3>3, <3>4
  <2>4. \A w \in Windows : /\ Loads(w) => Loads(w)'
                           /\ Hears(w)' <=> Hears(w)
                           /\ Told(w)' <=> Told(w)
    BY <1>1, <2>2, <2>3 DEF Loads, Hears, Told, Latest
  <2> QED BY <2>1, <2>2, <2>3, <2>4 DEF WindowInv
<1>5. ASSUME Start PROVE WindowInv'
  <2>1. /\ ~running /\ phase'["run"] = "idle" /\ watched' = running'
        /\ UNCHANGED <<stream, page, switching>>
    BY <1>1, <1>5 DEF Start, WindowInv
  <2>2. \A w \in Windows : frame[w] = "none"
    BY <2>1 DEF WindowInv
  <2>3. UNCHANGED <<frame, pushed, sub, notices, switching>>
    BY <2>1
  <2>4. \A w \in Windows : /\ frame'[w] = "none" /\ pushed'[w] = << >>
                           /\ ~sub'[w] /\ notices'[w] = 0 /\ switching'[w] = {}
    BY <2>2, <2>3 DEF WindowInv
  <2> QED BY <2>1, <2>4 DEF WindowInv
<1>6. ASSUME Trigger PROVE WindowInv'
  BY <1>6 DEF Trigger, WindowInv, Loads, Hears, Told, Latest
<1>7. ASSUME NotifyReload
      PROVE  \A w \in Windows : frame[w] # "none" => Told(w)'
  <2>1. ASSUME NEW w \in Windows, frame[w] # "none" PROVE Told(w)'
    <3>1. CASE sub[w]
      <4>1. notices'[w] = notices[w] + 1 /\ notices[w] \in Nat
        BY <1>1, <1>7, <3>1 DEF NotifyReload
      <4> QED BY <4>1 DEF Told
    <3>2. CASE ~sub[w]
      BY <1>7, <2>1, <3>2 DEF NotifyReload, Told
    <3> QED BY <3>1, <3>2
  <2> QED BY <2>1
<1>8. ASSUME Fire \/ \E w \in Windows : \E p \in Profiles : SwitchProfile(w, p)
      PROVE  WindowInv'
  <2>1. /\ NotifyReload /\ UNCHANGED <<phase, running, watched, frame, pushed>>
        /\ \A w \in Windows : frame[w] = "none" => switching'[w] = switching[w]
    BY <1>1, <1>8 DEF Fire, SwitchProfile
  <2>2. UNCHANGED sub /\ \A w \in Windows : ~sub[w] => notices'[w] = notices[w]
    BY <2>1 DEF NotifyReload
  <2> QED BY <1>1, <1>7, <2>1, <2>2 DEF WindowInv, Loads
<1>9. ASSUME NEW l \in Levels, SetBrightness(l) PROVE WindowInv'
  <2>1. /\ UNCHANGED <<phase, output, running, shell, timer, profile, stream, frame, seen,
                       switching>>
        /\ bright' = l
    BY <1>9 DEF SetBrightness
  <2>2. ASSUME NEW w \in Windows
        PROVE  /\ frame[w] \notin {"ready", "live"} => pushed'[w] = pushed[w]
               /\ frame[w] \in {"ready", "live"} /\ shell = "real" => Latest(w)' = l
    <3>1. pushed'[w] = IF shell = "real" /\ frame[w] \in {"ready", "live"}
                       THEN Append(pushed[w], l) ELSE pushed[w]
      BY <1>9 DEF SetBrightness
    <3>2. pushed[w] \in Seq(Levels)
      BY <1>1
    <3>3. Append(pushed[w], l) # << >> /\ Last(Append(pushed[w], l)) = l
      BY <3>2 DEF Last
    <3> QED BY <3>1, <3>3 DEF Latest
  <2>3. \A w \in Windows : /\ Loads(w)' <=> Loads(w)
                           /\ Told(w)' <=> Told(w)
    BY <2>1 DEF Loads, Told
  <2> QED BY <2>1, <2>2, <2>3 DEF WindowInv, Hears
<1>10. ASSUME NEW w \in Windows, UNCHANGED <<phase, output, host>>,
              \A v \in Windows : v # w =>
                /\ frame'[v] = frame[v] /\ pushed'[v] = pushed[v] /\ seen'[v] = seen[v]
                /\ notices'[v] = notices[v] /\ missed'[v] = missed[v]
                /\ sub'[v] = sub[v] /\ switching'[v] = switching[v],
              frame'[w] # "none", running,
              frame'[w] \notin {"ready", "live"} => pushed'[w] = << >>,
              frame'[w] = "live" => Loads(w)',
              frame'[w] \in {"ready", "live"} =>
                Told(w)' \/ Hears(w)'
       PROVE  WindowInv'
  BY <1>10 DEF WindowInv, Loads, Hears, Told, Latest
<1>11. ASSUME NEW w \in Windows, OpenWindow(w) PROVE WindowInv'
  <2>1. /\ UNCHANGED <<phase, output, host, notices, missed,
                       pushed, seen, sub, switching>>
        /\ running /\ frame[w] = "none" /\ frame' = [frame EXCEPT ![w] = "loading"]
    BY <1>11 DEF OpenWindow
  <2>2. frame'[w] = "loading" /\ \A v \in Windows : v # w => frame'[v] = frame[v]
    BY <1>1, <2>1
  <2> QED BY <2>1, <2>2 DEF WindowInv, Loads, Hears, Told, Latest
<1>12. ASSUME NEW w \in Windows, LoseStream(w) PROVE WindowInv'
  <2>1. UNCHANGED <<phase, output, host, frame, pushed, seen,
                    switching>>
    BY <1>12 DEF LoseStream
  <2>2. \A v \in Windows :
          /\ Told(v) => Told(v)'
          /\ ~sub[v] => ~sub'[v]
          /\ notices[v] = 0 => notices'[v] = 0
    BY <1>1, <1>12 DEF LoseStream, Told
  <2>3. ASSUME NEW v \in Windows
        PROVE  /\ frame'[v] = frame[v] /\ pushed'[v] = pushed[v] /\ seen'[v] = seen[v]
               /\ switching'[v] = switching[v] /\ Hears(v)' = Hears(v)
               /\ Loads(v) => Loads(v)'
    BY <2>1, <2>2 DEF Latest, Hears, Loads
  <2>4. ASSUME NEW v \in Windows
        PROVE  /\ frame'[v] # "none" => running
               /\ frame'[v] = "none" => ~sub'[v] /\ notices'[v] = 0 /\ switching'[v] = {}
               /\ frame'[v] \notin {"ready", "live"} => pushed'[v] = << >>
               /\ frame'[v] = "live" => Loads(v)'
               /\ frame'[v] \in {"ready", "live"} =>
                    Told(v)' \/ Hears(v)'
    <3>1. /\ Told(v) => Told(v)'
          /\ ~sub[v] => ~sub'[v]
          /\ notices[v] = 0 => notices'[v] = 0
      BY <2>2 DEF Told
    <3>2. /\ frame[v] # "none" => running
          /\ frame[v] = "none" => ~sub[v] /\ notices[v] = 0 /\ switching[v] = {}
          /\ frame[v] \notin {"ready", "live"} => pushed[v] = << >>
          /\ frame[v] = "live" => Loads(v)
          /\ frame[v] \in {"ready", "live"} =>
               Told(v) \/ Hears(v)
      BY DEF WindowInv
    <3> QED BY <2>3, <3>1, <3>2
  <2>5. /\ phase'["run"] # "idle" => ~running'
        /\ watched' => running' /\ running' = running
    BY <2>1 DEF WindowInv
  <2> QED BY <2>1, <2>4, <2>5 DEF WindowInv
<1>13. ASSUME NEW w \in Windows,
              HandleNotice(w) \/ \E p \in Profiles : HandleSwitched(w, p)
       PROVE  WindowInv'
  <2>1. /\ UNCHANGED <<phase, output, host>>
        /\ ReloadShell(w)
        /\ \A v \in Windows : v # w =>
             /\ notices'[v] = notices[v] /\ sub'[v] = sub[v] /\ switching'[v] = switching[v]
    BY <1>1, <1>13 DEF HandleNotice, HandleSwitched
  <2>2. /\ frame'[w] = "loading" /\ pushed'[w] = << >>
        /\ \A v \in Windows : v # w =>
             /\ frame'[v] = frame[v] /\ pushed'[v] = pushed[v] /\ seen'[v] = seen[v]
             /\ missed'[v] = missed[v]
    BY <1>1, <2>1 DEF ReloadShell
  <2>3. running
    BY <1>1, <1>13 DEF HandleNotice, HandleSwitched, WindowInv
  <2> QED BY <1>10, <2>1, <2>2, <2>3
<1>14. ASSUME NEW w \in Windows, ConnectShell(w) PROVE WindowInv'
  <2>1. /\ UNCHANGED <<phase, output, host, sub, notices, missed, pushed, switching>>
        /\ frame[w] = "loading" /\ frame' = [frame EXCEPT ![w] = "ready"]
        /\ seen' = [seen EXCEPT ![w] = [@ EXCEPT !.profile = profile, !.bright = bright,
                                                 !.manifest = served]]
    BY <1>1, <1>14 DEF ConnectShell
  <2>2. frame'[w] = "ready" /\ pushed'[w] = << >> /\ running
    BY <1>1, <2>1 DEF WindowInv
  <2>3. seen'[w].profile = profile /\ seen'[w].bright = bright
    BY <1>1, <2>1 DEF Shown
  <2>4. \A v \in Windows : v # w => frame'[v] = frame[v] /\ seen'[v] = seen[v]
    BY <1>1, <2>1
  <2> QED BY <1>10, <2>1, <2>2, <2>3, <2>4 DEF Latest, Hears
<1>15. ASSUME NEW w \in Windows, LoadApp(w) \/ LeaveApp(w) PROVE WindowInv'
  <2>1. /\ UNCHANGED <<phase, output, host, sub, notices, missed, pushed, switching>>
        /\ frame[w] \in {"ready", "live"}
        /\ \/ /\ frame' = [frame EXCEPT ![w] = "live"]
              /\ seen' = [seen EXCEPT ![w] = [@ EXCEPT !.dist = dist]]
           \/ /\ frame' = [frame EXCEPT ![w] = "ready"]
              /\ seen' = [seen EXCEPT ![w] = [@ EXCEPT !.dist = Nothing]]
    BY <1>1, <1>15 DEF LoadApp, LeaveApp
  <2>2. frame'[w] \in {"ready", "live"} /\ running
    BY <1>1, <2>1 DEF WindowInv
  <2>3. /\ frame'[w] = "live" => seen'[w].dist = dist
        /\ seen'[w].profile = seen[w].profile /\ seen'[w].bright = seen[w].bright
    BY <1>1, <2>1 DEF Shown
  <2>4. \A v \in Windows : v # w => frame'[v] = frame[v] /\ seen'[v] = seen[v]
    BY <1>1, <2>1
  <2>5. Told(w)' \/ Hears(w)'
    BY <2>1, <2>3 DEF WindowInv, Hears, Told, Latest
  <2>6. frame'[w] = "live" => Loads(w)'
    BY <2>1, <2>3 DEF Loads
  <2> QED BY <1>10, <2>1, <2>2, <2>4, <2>5, <2>6
<1>16. ASSUME NEW w \in Windows, HandleBrightness(w) PROVE WindowInv'
  <2>1. /\ UNCHANGED <<phase, output, host, sub, notices, missed, frame, switching>>
        /\ pushed[w] # << >> /\ pushed' = [pushed EXCEPT ![w] = Tail(@)]
        /\ seen' = [seen EXCEPT ![w] = [@ EXCEPT !.bright = Head(pushed[w])]]
    BY <1>1, <1>16 DEF HandleBrightness
  <2>2. frame[w] \in {"ready", "live"} /\ running
    BY <2>1 DEF WindowInv
  <2>3. /\ seen'[w].dist = seen[w].dist /\ seen'[w].profile = seen[w].profile
        /\ seen'[w].bright = Head(pushed[w]) /\ pushed'[w] = Tail(pushed[w])
    BY <1>1, <2>1 DEF Shown
  <2>4. Latest(w)' = Latest(w)
    <3>1. pushed[w] \in Seq(Levels) /\ pushed[w] # << >>
      BY <1>1, <2>1
    <3> QED BY <2>3, <3>1, LastOfTail DEF Latest
  <2>5. \A v \in Windows : v # w => pushed'[v] = pushed[v] /\ seen'[v] = seen[v]
    BY <1>1, <2>1
  <2>6. Told(w)' \/ Hears(w)'
    BY <2>1, <2>2, <2>3, <2>4 DEF WindowInv, Told, Hears
  <2>7. frame'[w] = "live" => Loads(w)'
    BY <2>1, <2>3 DEF WindowInv, Loads, Told
  <2> QED BY <1>1, <1>10, <2>1, <2>2, <2>5, <2>6, <2>7
<1> QED BY <1>3, <1>4, <1>5, <1>6, <1>8, <1>9, <1>11, <1>12, <1>13, <1>14, <1>15, <1>16
        DEF LoopNext, Watcher, Developer, Faults, Builder, Page, Mount, OpenApp

(* The invariant, for any number of windows and edits.                     *)
THEOREM LoopInvariant == LoopSpec => []LoopInv
<1>1. LoopInit => LoopInv
  <2> SUFFICES ASSUME LoopInit PROVE LoopInv
    OBVIOUS
  <2> USE DEF LoopInit
  <2>1. LoopTypeOK
    <3>1. Blank \in Shown
      BY LoopAssumption DEF Blank, Shown, Nothing, Dist, Versions
    <3>2. << >> \in Seq(Levels)
      OBVIOUS
    <3>3. dist \in Dist /\ source \in Sources /\ served \in Versions
      BY DEF Dist, Sources, Versions
    <3> QED BY <3>1, <3>2, <3>3, LoopAssumption DEF LoopTypeOK, Shown
  <2>2. BuildInv
    BY DEF BuildInv, Writing, Made, Builders
  <2>3. WindowInv
    BY DEF WindowInv, Builders
  <2>4. OnlyRunStarts /\ PlanInv
    BY DEF OnlyRunStarts, PlanInv, Builders
  <2> QED BY <2>1, <2>2, <2>3, <2>4 DEF LoopInv
<1>2. LoopInv /\ [LoopNext]_loopVars => LoopInv'
  BY LoopTypeStep, OnlyRunStep, BuildStep, WindowStep DEF LoopInv
<1> QED BY <1>1, <1>2, PTL DEF LoopSpec

(* When no build runs and no change is still to be reported, dist is made  *)
(* of the code and the files as they are, and of the project unless that   *)
(* has changed since `build --watch` found it; but not when the last build *)
(* failed, ran beside another, or was told of a change too late, nor of    *)
(* files that nobody watches (build.ts:108-141).                           *)
THEOREM WatchedBuildSound == LoopSpec => []WatchedBuildIsCurrent
<1>1. LoopInv => WatchedBuildIsCurrent
  <2> SUFFICES ASSUME LoopInv, Quiet, ~doubt PROVE Made
    BY DEF WatchedBuildIsCurrent, Made
  <2>1. ~edited /\ phase["watch"] # "waiting" /\ \A b \in Builders : ~Writing(b)
    BY DEF Quiet, Writing, Builders
  <2> QED BY <2>1 DEF LoopInv, BuildInv
<1> QED BY <1>1, LoopInvariant, PTL

(* A window that has nothing left to do shows the profile the emulator     *)
(* has, in the device's shell its brightness, and of an application the    *)
(* build, if the emulator's watch has not been lost with the directory;    *)
(* unless the window was told to reload while its stream was down          *)
(* (server.mjs:328-370, emulator.js:29-35).                                *)
THEOREM QuietWindowSound == LoopSpec => []QuietWindowIsCurrent
<1>1. LoopInv => QuietWindowIsCurrent
  <2> SUFFICES ASSUME LoopInv, NEW w \in Windows, AtRest(w), ~missed[w]
               PROVE  ShowsHost(w) /\ (watched => ShowsBuild(w))
    BY DEF QuietWindowIsCurrent
  <2>1. ~Told(w) /\ pushed[w] = << >> /\ frame[w] \in {"ready", "live"}
    BY DEF AtRest, Told
  <2>2. Hears(w) /\ Latest(w) = seen[w].bright
    BY <2>1 DEF LoopInv, WindowInv, Latest
  <2>3. watched /\ frame[w] = "live" => seen[w].dist = dist
    BY <2>1 DEF LoopInv, WindowInv, Loads, AtRest
  <2> QED BY <2>2, <2>3 DEF ShowsHost, ShowsBuild, Hears
<1> QED BY <1>1, LoopInvariant, PTL

=============================================================================
