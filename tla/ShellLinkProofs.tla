--------------------------- MODULE ShellLinkProofs ---------------------------
(***************************************************************************)
(* Proofs about ShellLink, for any room for calls and any bounds.          *)
(***************************************************************************)
EXTENDS ShellLink, TLAPS

LinkInv == TypeOK /\ OneWayToTheDaemon /\ AnswerIsOfItsCall

(* AnswerIsOfItsCall, of the calls p and of what is under way in w.        *)
Sound(p, w) == \A r \in w : r.mine /\ p[r.id] # None => r.kind = p[r.id]

(* Of the calls p, at most one is for the list.                            *)
OneList(p) == \A i, j \in Ids : p[i] = "apps" /\ p[j] = "apps" => i = j

(* Of the calls p and what is under way in w: the list a is no older than  *)
(* the change t, or it is asked for and what comes will not be.            *)
Awaited(p, w, a, t) ==
  /\ (\A i \in Ids : p[i] # "apps") => a >= t
  /\ \A r \in w : r.mine /\ p[r.id] = "apps" => r.at = "sent" \/ r.val >= t

(* Only a request to set the brightness is under way after it took effect. *)
SetsAre(w) == \A r \in w : r.at = "set" => r.kind = "set"

(* Nothing the shell still has to handle will make it ask for the list.    *)
NothingToAsk ==
  /\ socket = "open"
  /\ \A i \in Ids : pending[i] # "info"
  /\ \A k \in 1..Len(events) : events[k].type # "apps.changed"

(* QuietListIsCurrent is about a shell that waits for nothing; while it    *)
(* waits, the answer under way has to be new enough.                       *)
ListInv ==
  /\ told <= catalog
  /\ SetsAre(wire)
  /\ ~unsure => OneList(pending)
  /\ NothingToAsk /\ ~unsure => Awaited(pending, wire, apps, told)

(* An element of a sequence over S is in S.                                *)
LEMMA ElementOf ==
  ASSUME NEW S, NEW s \in Seq(S), NEW k \in 1..Len(s)
  PROVE  s[k] \in S
OBVIOUS

(* The calls go out under the ids id, each of which was in use nowhere.    *)
Sent(id, calls, p, w) ==
  /\ \A k \in 1..Len(calls) : p[id[k]] = None /\ id[k] \notin {r.id : r \in w}
  /\ \A k \in 1..Len(calls) : pending'[id[k]] = calls[k].kind
  /\ \A i \in Ids : (\A k \in 1..Len(calls) : id[k] # i) => pending'[i] = p[i]
  /\ pending' = [i \in Ids |-> pending'[i]]
  /\ wire' = w \cup
       {[id |-> id[k], kind |-> calls[k].kind, val |-> calls[k].val,
         at |-> "sent", mine |-> TRUE] : k \in 1..Len(calls)}

(* Calls are sent under ids of their own.                                  *)
LEMMA SendEffect ==
  ASSUME NEW calls \in Seq([kind : Kinds, val : Nat]),
         NEW p, NEW w, Send(calls, p, w)
  PROVE  \E id \in [1..Len(calls) -> Ids] : Sent(id, calls, p, w)
<1> DEFINE n == Len(calls)
           ids == Fresh(n, p, w)
           id == CHOOSE f \in ids : TRUE
           New == {[id |-> id[k], kind |-> calls[k].kind, val |-> calls[k].val,
                    at |-> "sent", mine |-> TRUE] : k \in 1..n}
<1>1. n \in Nat /\ DOMAIN calls = 1..n
  OBVIOUS
<1>2. id \in ids
  BY DEF Send
<1>3. /\ id \in [1..n -> Ids]
      /\ \A k \in 1..n : id[k] \in Ids /\ p[id[k]] = None /\ id[k] \notin {r.id : r \in w}
      /\ \A a, b \in 1..n : a < b => id[a] < id[b]
  BY <1>2 DEF Fresh, Ascents
<1>4. \A a, b \in 1..n : id[a] = id[b] => a = b
  <2>1. TAKE a, b \in 1..n
  <2>2. HAVE id[a] = id[b]
  <2>3. id[a] \in Nat
    BY <1>3, LinkAssumption DEF LinkAssumption
  <2>4. ~(a < b) /\ ~(b < a)
    BY <1>3, <2>2, <2>3
  <2> QED BY <2>4
<1>5. /\ pending' = [i \in Ids |->
           IF \E k \in 1..n : id[k] = i
           THEN calls[CHOOSE k \in 1..n : id[k] = i].kind ELSE p[i]]
      /\ wire' = w \cup New
  BY <1>1 DEF Send
<1>6. \A k \in 1..n : pending'[id[k]] = calls[k].kind
  <2>1. TAKE k \in 1..n
  <2>2. (CHOOSE j \in 1..n : id[j] = id[k]) = k
    BY <1>4
  <2> QED BY <1>3, <1>5, <2>2
<1>7. \A i \in Ids : (\A k \in 1..n : id[k] # i) => pending'[i] = p[i]
  BY <1>5
<1>8. pending' = [i \in Ids |-> pending'[i]]
  BY <1>5
<1>9. Sent(id, calls, p, w)
  BY <1>3, <1>5, <1>6, <1>7, <1>8 DEF Sent
<1> HIDE DEF id
<1> QED BY <1>3, <1>9

(* Ids are fresh: no request under way, with an answer that is still       *)
(* wanted or not, has the id of a new call.                                *)
LEMMA SendSound ==
  ASSUME NEW calls \in Seq([kind : Kinds, val : Nat]),
         NEW p \in [Ids -> Kinds \cup {None}], NEW w \in SUBSET Requests,
         Sound(p, w), unsure \in BOOLEAN, Send(calls, p, w)
  PROVE  /\ pending' \in [Ids -> Kinds \cup {None}]
         /\ wire' \subseteq Requests
         /\ unsure' \in BOOLEAN
         /\ Sound(pending', wire')
<1> DEFINE n == Len(calls)
<1>0. PICK id \in [1..n -> Ids] : Sent(id, calls, p, w)
  BY SendEffect
<1>1. /\ \A k \in 1..n : p[id[k]] = None /\ id[k] \notin {r.id : r \in w}
      /\ \A k \in 1..n : pending'[id[k]] = calls[k].kind
      /\ \A i \in Ids : (\A k \in 1..n : id[k] # i) => pending'[i] = p[i]
      /\ pending' = [i \in Ids |-> pending'[i]]
  BY <1>0 DEF Sent
<1> DEFINE New == {[id |-> id[k], kind |-> calls[k].kind, val |-> calls[k].val,
                    at |-> "sent", mine |-> TRUE] : k \in 1..n}
<1>2. \A k \in 1..n : calls[k].kind \in Kinds /\ calls[k].val \in Nat
  <2>1. TAKE k \in 1..n
  <2>2. calls[k] \in [kind : Kinds, val : Nat]
    BY ElementOf
  <2> QED BY <2>2
<1>3. \A k \in 1..n : id[k] \in Ids
  OBVIOUS
<1>4. wire' = w \cup New
  BY <1>0 DEF Sent
<1>5. pending' \in [Ids -> Kinds \cup {None}]
  <2>1. ASSUME NEW i \in Ids PROVE pending'[i] \in Kinds \cup {None}
    <3>1. CASE \E k \in 1..n : id[k] = i
      BY <1>1, <1>2, <3>1
    <3>2. CASE ~ \E k \in 1..n : id[k] = i
      BY <1>1, <3>2
    <3> QED BY <3>1, <3>2
  <2> QED BY <1>1, <2>1
<1>6. New \subseteq Requests
  <2>1. SUFFICES ASSUME NEW k \in 1..n
                 PROVE  [id |-> id[k], kind |-> calls[k].kind, val |-> calls[k].val,
                         at |-> "sent", mine |-> TRUE] \in Requests
    OBVIOUS
  <2>2. id[k] \in Ids /\ calls[k].kind \in Kinds /\ calls[k].val \in Nat
    BY <1>2, <1>3
  <2> QED BY <2>2 DEF Requests
<1>7. Sound(pending', wire')
  <2>1. SUFFICES ASSUME NEW r \in wire', r.mine, pending'[r.id] # None
                 PROVE  r.kind = pending'[r.id]
    BY DEF Sound
  <2>2. CASE r \in New
    <3>1. PICK k \in 1..n : r.id = id[k] /\ r.kind = calls[k].kind
      BY <2>2
    <3> QED BY <1>1, <3>1
  <2>3. CASE r \in w
    <3>1. r.id \in Ids
      BY <2>3 DEF Requests
    <3>2. ~ \E k \in 1..n : id[k] = r.id
      BY <1>1, <2>3
    <3>3. pending'[r.id] = p[r.id]
      BY <1>1, <3>1, <3>2
    <3> QED BY <2>1, <2>3, <3>3 DEF Sound
  <2> QED BY <1>4, <2>2, <2>3
<1>8. unsure' \in BOOLEAN
  BY DEF Send
<1> QED BY <1>4, <1>5, <1>6, <1>7, <1>8

(* What refreshAll asks for, and what is asked for alone.                  *)
LEMMA AskedAre ==
  /\ Rest \in Seq([kind : Kinds, val : Nat])
  /\ \A k \in Kinds : <<Ask(k)>> \in Seq([kind : Kinds, val : Nat])
  /\ \A l \in Levels : <<[kind |-> "set", val |-> l]>> \in Seq([kind : Kinds, val : Nat])
BY LinkAssumption DEF LinkAssumption, Rest, Ask, Kinds

LEMMA SpendType ==
  ASSUME used \in [{"changes", "slides", "faults"} -> Nat],
         NEW bound \in {"changes", "slides", "faults"}, NEW max, Spend(bound, max)
  PROVE  used' \in [{"changes", "slides", "faults"} -> Nat]
BY DEF Spend

(* A call that is settled takes its answer with it.                        *)
LEMMA SettleSound ==
  ASSUME LinkInv, NEW i \in Ids, NEW S, Settle(i, S)
  PROVE  /\ pending' \in [Ids -> Kinds \cup {None}]
         /\ wire' \subseteq Requests
         /\ unsure' \in BOOLEAN
         /\ Sound(pending', wire')
<1> DEFINE p == [pending EXCEPT ![i] = None]
<1>1. p \in [Ids -> Kinds \cup {None}] /\ wire \ S \subseteq Requests /\ unsure \in BOOLEAN
  BY DEF LinkInv, TypeOK
<1>2. Sound(p, wire \ S)
  <2>1. SUFFICES ASSUME NEW r \in wire \ S, r.mine, p[r.id] # None
                 PROVE  r.kind = p[r.id]
    BY DEF Sound
  <2>2. r.id \in Ids
    BY DEF LinkInv, TypeOK, Requests
  <2>3. r.id # i /\ p[r.id] = pending[r.id]
    BY <2>1, <2>2 DEF LinkInv, TypeOK
  <2> QED BY <2>1, <2>3 DEF LinkInv, AnswerIsOfItsCall
<1>3. CASE pending[i] = "info"
  <2>1. Send(Rest, p, wire \ S)
    BY <1>3 DEF Settle
  <2> HIDE DEF p
  <2> QED BY <1>1, <1>2, <2>1, SendSound, AskedAre
<1>4. CASE pending[i] # "info"
  <2>1. pending' = p /\ wire' = wire \ S
        /\ unsure' = (unsure \/ (pending[i] = "apps" /\ S = {}))
    BY <1>4 DEF Settle
  <2> QED BY <1>1, <1>2, <2>1
<1> QED BY <1>3, <1>4

-----------------------------------------------------------------------------
LEMMA LinkInit == ASSUME Init PROVE LinkInv
<1>1. << >> \in Seq(Events) /\ 1 \in 1..MaxBackoff /\ level \in Nat /\ brightness \in Nat
  BY LinkAssumption DEF Init, LinkAssumption
<1>2. pending \in [Ids -> Kinds \cup {None}]
  BY DEF Init
<1>3. used \in [{"changes", "slides", "faults"} -> Nat]
  BY DEF Init
<1> QED BY <1>1, <1>2, <1>3 DEF Init, LinkInv, TypeOK, OneWayToTheDaemon,
           AnswerIsOfItsCall

(* The steps of the socket.                                                *)
LEMMA SocketStep ==
  ASSUME LinkInv, Lose \/ Retry \/ Open
  PROVE  LinkInv'
<1> USE LinkAssumption DEF LinkAssumption
<1>1. CASE Lose
  <2>1. PICK S \in SUBSET {w \in wire : w.kind = "set" /\ w.at # "answered"} :
          Drop({[w EXCEPT !.mine = FALSE] : w \in S})
    BY <1>1 DEF Lose
  <2>2. wire' \subseteq Requests /\ \A w \in wire' : ~w.mine
    <3>1. wire' = {[w EXCEPT !.mine = FALSE] : w \in S}
      BY <2>1 DEF Drop
    <3>2. \A w \in S : /\ [w EXCEPT !.mine = FALSE] \in Requests
                       /\ [w EXCEPT !.mine = FALSE].mine = FALSE
      <4>1. TAKE w \in S
      <4>2. w \in Requests
        BY DEF LinkInv, TypeOK
      <4> QED BY <4>2 DEF Requests
    <3> QED BY <3>1, <3>2
  <2>3. used' \in [{"changes", "slides", "faults"} -> Nat]
    BY <1>1, SpendType DEF Lose, LinkInv, TypeOK
  <2>4. retries = 0 /\ retries' = 1 /\ socket' = "none"
    BY <1>1, <2>1 DEF Lose, Drop, LinkInv, OneWayToTheDaemon
  <2>5. backoff' \in 1..MaxBackoff
    <3>1. backoff' = IF 2 * backoff < MaxBackoff THEN 2 * backoff ELSE MaxBackoff
      BY <2>1 DEF Drop
    <3>2. backoff \in 1..MaxBackoff /\ MaxBackoff \in Nat
      BY DEF LinkInv, TypeOK
    <3> QED BY <3>1, <3>2
  <2>6. pending' \in [Ids -> Kinds \cup {None}]
    BY <2>1 DEF Drop
  <2>7. events' = << >> /\ UNCHANGED <<catalog, unpushed, told, level, apps, brightness,
                                       unsure>>
    BY <1>1 DEF Lose, daemon, shell
  <2> QED BY <2>2, <2>3, <2>4, <2>5, <2>6, <2>7
          DEF LinkInv, TypeOK, OneWayToTheDaemon, AnswerIsOfItsCall
<1>2. CASE Retry
  <2>1. retries = 1 /\ socket = "none" /\ retries' = 0 /\ socket' = "connecting"
    BY <1>2 DEF Retry, LinkInv, OneWayToTheDaemon
  <2> QED BY <1>2, <2>1 DEF Retry, LinkInv, TypeOK, OneWayToTheDaemon, AnswerIsOfItsCall,
                             daemon, shell
<1>3. CASE Open
  <2>1. Send(<<Ask("info")>>, pending, wire) /\ Sound(pending, wire)
    BY <1>3 DEF Open, LinkInv, AnswerIsOfItsCall, Sound
  <2>2. <<Ask("info")>> \in Seq([kind : Kinds, val : Nat])
    BY AskedAre DEF Kinds
  <2>3. /\ pending' \in [Ids -> Kinds \cup {None}] /\ wire' \subseteq Requests
        /\ unsure' \in BOOLEAN /\ Sound(pending', wire')
    BY <2>1, <2>2, SendSound DEF LinkInv, TypeOK
  <2> QED BY <1>3, <2>3 DEF Open, Sound, LinkInv, TypeOK, OneWayToTheDaemon,
                             AnswerIsOfItsCall, daemon, shell
<1> QED BY <1>1, <1>2, <1>3

LEMMA PushedType ==
  ASSUME LinkInv, NEW e \in Events
  PROVE  Pushed(e) \in Seq(Events)
BY DEF Pushed, LinkInv, TypeOK

(* The steps of the daemon and of what is under way.                       *)
LEMMA DaemonStep ==
  ASSUME LinkInv,
         \/ ChangeApps \/ PushApps \/ InstallBeside
         \/ \E w \in wire : Serve(w) \/ PushBrightness(w) \/ Vanish(w)
  PROVE  LinkInv'
<1> USE LinkAssumption DEF LinkAssumption
<1>1. CASE ChangeApps \/ InstallBeside
  <2>1. used' \in [{"changes", "slides", "faults"} -> Nat]
    BY <1>1, SpendType DEF ChangeApps, InstallBeside, LinkInv, TypeOK
  <2>2. catalog' \in Nat /\ unpushed' \in BOOLEAN
    <3>1. catalog' = catalog + 1
      BY <1>1 DEF ChangeApps, InstallBeside
    <3>2. unpushed' = TRUE \/ unpushed' = unpushed
      BY <1>1 DEF ChangeApps, InstallBeside
    <3>3. catalog \in Nat /\ unpushed \in BOOLEAN
      BY DEF LinkInv, TypeOK
    <3>4. catalog' \in Nat
      BY <3>1, <3>3
    <3> QED BY <3>2, <3>3, <3>4, Zenon
  <2>3. UNCHANGED <<socket, retries, backoff, pending, wire, events, told, level, apps,
                    brightness, unsure>>
    BY <1>1 DEF ChangeApps, InstallBeside, client, shell
  <2> QED BY <2>1, <2>2, <2>3 DEF LinkInv, TypeOK, OneWayToTheDaemon, AnswerIsOfItsCall
<1>2. CASE PushApps
  <2>1. events' \in Seq(Events)
    BY <1>2, PushedType DEF PushApps, Events
  <2> QED BY <1>2, <2>1 DEF PushApps, LinkInv, TypeOK, OneWayToTheDaemon,
                             AnswerIsOfItsCall, client, shell
<1>3. ASSUME NEW w \in wire, Serve(w)
      PROVE  LinkInv'
  <2> DEFINE at == IF w.kind = "set" THEN "set" ELSE "answered"
             val == CASE w.kind = "apps" -> catalog
                      [] w.kind = "bright" -> level
                      [] OTHER -> w.val
             x == [w EXCEPT !.at = at, !.val = val]
  <2>1. w \in Requests /\ catalog \in Nat /\ level \in Nat
    BY DEF LinkInv, TypeOK
  <2>2. val \in Nat /\ at \in {"set", "answered"}
    BY <2>1 DEF Requests
  <2>3. x \in Requests /\ x.id = w.id /\ x.kind = w.kind /\ x.mine = w.mine
    <3> HIDE DEF val, at
    <3> QED BY <2>1, <2>2 DEF Requests
  <2>4. wire' = (wire \ {w}) \cup {x} /\ level' = IF w.kind = "set" THEN w.val ELSE level
    BY <1>3 DEF Serve
  <2>5. wire' \subseteq Requests /\ Sound(pending, wire')
    <3> HIDE DEF x
    <3> QED BY <2>3, <2>4 DEF LinkInv, TypeOK, AnswerIsOfItsCall, Sound
  <2>6. level' \in Nat
    BY <2>1, <2>4 DEF Requests
  <2> QED BY <1>3, <2>5, <2>6 DEF Serve, Sound, LinkInv, TypeOK, OneWayToTheDaemon,
                                  AnswerIsOfItsCall, client, shell
<1>4. ASSUME NEW w \in wire, PushBrightness(w)
      PROVE  LinkInv'
  <2> DEFINE x == [w EXCEPT !.at = "answered", !.val = 0]
  <2>1. w \in Requests
    BY DEF LinkInv, TypeOK
  <2>2. x \in Requests /\ x.id = w.id /\ x.kind = w.kind /\ x.mine = w.mine
    BY <2>1 DEF Requests
  <2>3. wire' \subseteq (wire \ {w}) \cup {x}
    BY <1>4 DEF PushBrightness
  <2>4. wire' \subseteq Requests /\ Sound(pending, wire')
    <3> HIDE DEF x
    <3> QED BY <2>2, <2>3 DEF LinkInv, TypeOK, AnswerIsOfItsCall, Sound
  <2>5. [type |-> "brightnessChanged", val |-> w.val] \in Events
    BY <2>1 DEF Requests, Events
  <2>6. events' \in Seq(Events)
    BY <1>4, <2>5, PushedType DEF PushBrightness
  <2> QED BY <1>4, <2>4, <2>6 DEF PushBrightness, Sound, LinkInv, TypeOK,
            OneWayToTheDaemon, AnswerIsOfItsCall, client, shell, daemon
<1>5. ASSUME NEW w \in wire, Vanish(w)
      PROVE  LinkInv'
  <2>1. used' \in [{"changes", "slides", "faults"} -> Nat]
    BY <1>5, SpendType DEF Vanish, LinkInv, TypeOK
  <2> QED BY <1>5, <2>1 DEF Vanish, LinkInv, TypeOK, OneWayToTheDaemon,
                             AnswerIsOfItsCall, client, shell, daemon
<1> QED BY <1>1, <1>2, <1>3, <1>4, <1>5

(* The steps of the page.                                                  *)
LEMMA PageStep ==
  ASSUME LinkInv,
         \/ \E w \in wire : Receive(w) \/ ReceiveLate(w)
         \/ \E i \in Ids : TimeOut(i) \/ TimeOutEarly(i)
         \/ Handle \/ RefreshVolatile
         \/ \E l \in Levels : Slide(l)
  PROVE  LinkInv'
<1> USE LinkAssumption DEF LinkAssumption
<1>1. ASSUME NEW w \in wire, Receive(w)
      PROVE  LinkInv'
  <2>1. w.id \in Ids /\ w.val \in Nat
    BY DEF LinkInv, TypeOK, Requests
  <2>2. /\ pending' \in [Ids -> Kinds \cup {None}] /\ wire' \subseteq Requests
        /\ unsure' \in BOOLEAN /\ Sound(pending', wire')
    BY <1>1, <2>1, SettleSound DEF Receive
  <2>3. apps' \in Nat /\ brightness' \in Nat
    BY <1>1, <2>1 DEF Receive, LinkInv, TypeOK
  <2> QED BY <1>1, <2>2, <2>3 DEF Receive, Sound, LinkInv, TypeOK, OneWayToTheDaemon,
                                  AnswerIsOfItsCall, client, daemon
<1>2. ASSUME NEW w \in wire, ReceiveLate(w)
      PROVE  LinkInv'
  BY <1>2 DEF ReceiveLate, LinkInv, TypeOK, OneWayToTheDaemon, AnswerIsOfItsCall, client,
              daemon, shell
<1>3. ASSUME NEW i \in Ids, TimeOut(i) \/ TimeOutEarly(i)
      PROVE  LinkInv'
  <2>1. /\ pending' \in [Ids -> Kinds \cup {None}] /\ wire' \subseteq Requests
        /\ unsure' \in BOOLEAN /\ Sound(pending', wire')
    BY <1>3, SettleSound DEF TimeOut, TimeOutEarly
  <2>2. used' \in [{"changes", "slides", "faults"} -> Nat]
    BY <1>3, SpendType DEF TimeOut, TimeOutEarly, LinkInv, TypeOK
  <2> QED BY <1>3, <2>1, <2>2 DEF TimeOut, TimeOutEarly, Sound, LinkInv, TypeOK,
            OneWayToTheDaemon, AnswerIsOfItsCall, client, daemon, shell
<1>4. CASE HandleAppsChanged \/ RefreshVolatile
  <2>1. PICK k \in Kinds : Send(<<Ask(k)>>, pending, wire)
    BY <1>4 DEF HandleAppsChanged, RefreshVolatile, Kinds
  <2>2. /\ pending' \in [Ids -> Kinds \cup {None}] /\ wire' \subseteq Requests
        /\ unsure' \in BOOLEAN /\ Sound(pending', wire')
    BY <2>1, SendSound, AskedAre DEF LinkInv, TypeOK, AnswerIsOfItsCall, Sound
  <2>3. events' \in Seq(Events)
    <3>1. events \in Seq(Events)
      BY DEF LinkInv, TypeOK
    <3>2. events # << >> => Tail(events) \in Seq(Events)
      BY <3>1
    <3> QED BY <1>4, <3>1, <3>2 DEF HandleAppsChanged, RefreshVolatile
  <2> QED BY <1>4, <2>2, <2>3 DEF HandleAppsChanged, RefreshVolatile, Sound, LinkInv,
            TypeOK, OneWayToTheDaemon, AnswerIsOfItsCall, client, daemon, shell
<1>5. CASE HandleBrightness
  <2>1. events' \in Seq(Events) /\ brightness' \in Nat
    <3>1. events \in Seq(Events) /\ events # << >>
      BY <1>5 DEF HandleBrightness, LinkInv, TypeOK
    <3>2. Head(events) \in Events /\ Tail(events) \in Seq(Events)
      BY <3>1
    <3> QED BY <1>5, <3>2 DEF HandleBrightness, Events
  <2> QED BY <1>5, <2>1 DEF HandleBrightness, LinkInv, TypeOK, OneWayToTheDaemon,
                             AnswerIsOfItsCall, client, daemon
<1>6. ASSUME NEW l \in Levels, Slide(l)
      PROVE  LinkInv'
  <2> DEFINE calls == <<[kind |-> "set", val |-> l]>>
  <2>1. calls \in Seq([kind : Kinds, val : Nat])
    BY AskedAre
  <2>2. Send(calls, pending, wire) \/ UNCHANGED <<pending, wire, unsure>>
    BY <1>6 DEF Slide
  <2> HIDE DEF calls
  <2>3. /\ pending' \in [Ids -> Kinds \cup {None}] /\ wire' \subseteq Requests
        /\ unsure' \in BOOLEAN /\ Sound(pending', wire')
    BY <2>1, <2>2, SendSound DEF LinkInv, TypeOK, AnswerIsOfItsCall, Sound
  <2>4. used' \in [{"changes", "slides", "faults"} -> Nat] /\ brightness' \in Nat
    BY <1>6, SpendType DEF Slide, LinkInv, TypeOK
  <2> QED BY <1>6, <2>3, <2>4 DEF Slide, Sound, LinkInv, TypeOK, OneWayToTheDaemon,
            AnswerIsOfItsCall, client, daemon
<1> QED BY <1>1, <1>2, <1>3, <1>4, <1>5, <1>6 DEF Handle

LEMMA LinkStep == ASSUME LinkInv, [Next]_vars PROVE LinkInv'
<1>1. CASE UNCHANGED vars
  BY <1>1 DEF vars, client, daemon, shell, LinkInv, TypeOK, OneWayToTheDaemon,
              AnswerIsOfItsCall
<1>2. CASE Next
  BY <1>2, SocketStep, DaemonStep, PageStep
     DEF Next, Work, Daemon, Page, Reconnect, World
<1> QED BY <1>1, <1>2

(* A list that is asked for anew will be new enough; a call for something  *)
(* else does not change what is awaited.                                   *)
LEMMA SendList ==
  ASSUME NEW calls \in Seq([kind : Kinds, val : Nat]),
         NEW p \in [Ids -> Kinds \cup {None}], NEW w \in SUBSET Requests,
         Send(calls, p, w), ~unsure', ~unsure => OneList(p),
         \A k, m \in 1..Len(calls) :
           calls[k].kind = "apps" /\ calls[m].kind = "apps" => k = m
  PROVE  /\ OneList(pending')
         /\ \A i \in Ids : p[i] # None => pending'[i] = p[i]
         /\ \A k \in 1..Len(calls) : \E i \in Ids : pending'[i] = calls[k].kind
         /\ (\A k \in 1..Len(calls) : calls[k].kind # "apps") => ~unsure
         /\ \A a, t : (\E k \in 1..Len(calls) : calls[k].kind = "apps") \/ Awaited(p, w, a, t)
                        => Awaited(pending', wire', a, t)
<1> DEFINE n == Len(calls)
           asked == \E k \in 1..n : calls[k].kind = "apps"
<1>1. PICK id \in [1..n -> Ids] : Sent(id, calls, p, w)
  BY SendEffect
<1>2. /\ \A k \in 1..n : p[id[k]] = None /\ id[k] \notin {r.id : r \in w} /\ id[k] \in Ids
      /\ \A k \in 1..n : pending'[id[k]] = calls[k].kind
      /\ \A i \in Ids : (\A k \in 1..n : id[k] # i) => pending'[i] = p[i]
  BY <1>1 DEF Sent
<1>3. None # "apps" /\ None \notin Kinds
  BY LinkAssumption DEF LinkAssumption, Kinds
<1>4. asked => \A i \in Ids : p[i] # "apps"
  <2>1. DOMAIN calls = 1..n
    OBVIOUS
  <2>2. unsure' = IF asked THEN \E i \in Ids : p[i] = "apps" ELSE unsure
    BY <2>1 DEF Send
  <2> QED BY <2>2
<1>5. ~asked => unsure' = unsure
  <2>1. DOMAIN calls = 1..n
    OBVIOUS
  <2> QED BY <2>1 DEF Send
<1>6. \A i \in Ids : p[i] # None => pending'[i] = p[i]
  BY <1>2
<1>7. \A i \in Ids : pending'[i] = "apps" =>
        p[i] = "apps" \/ \E k \in 1..n : id[k] = i /\ calls[k].kind = "apps"
  BY <1>2
<1>8. OneList(pending')
  <2>1. SUFFICES ASSUME NEW i \in Ids, NEW j \in Ids,
                        pending'[i] = "apps", pending'[j] = "apps"
                 PROVE  i = j
    BY DEF OneList
  <2>2. CASE asked
    BY <1>4, <1>7, <2>1, <2>2
  <2>3. CASE ~asked
    BY <1>5, <1>7, <2>1, <2>3 DEF OneList
  <2> QED BY <2>2, <2>3
<1>9. ASSUME NEW a, NEW t, asked \/ Awaited(p, w, a, t)
      PROVE  Awaited(pending', wire', a, t)
  <2>1. ASSUME \A i \in Ids : pending'[i] # "apps" PROVE a >= t
    <3>1. ~asked
      BY <1>2, <2>1
    <3>2. \A i \in Ids : p[i] # "apps"
      BY <1>3, <1>6, <2>1
    <3> QED BY <1>9, <3>1, <3>2 DEF Awaited
  <2>2. ASSUME NEW r \in wire', r.mine, pending'[r.id] = "apps"
        PROVE  r.at = "sent" \/ r.val >= t
    <3>1. CASE r \in w
      <4>1. r.id \in Ids
        BY <3>1 DEF Requests
      <4>2. \A k \in 1..n : id[k] # r.id
        BY <1>2, <3>1
      <4>3. p[r.id] = "apps"
        BY <1>2, <2>2, <4>1, <4>2
      <4>4. ~asked
        BY <1>4, <4>1, <4>3
      <4> QED BY <1>9, <2>2, <3>1, <4>3, <4>4 DEF Awaited
    <3>2. CASE r \notin w
      <4>1. r \in {[id |-> id[k], kind |-> calls[k].kind, val |-> calls[k].val,
                    at |-> "sent", mine |-> TRUE] : k \in 1..n}
        BY <1>1, <3>2 DEF Sent
      <4> QED BY <4>1
    <3> QED BY <3>1, <3>2
  <2> QED BY <2>1, <2>2 DEF Awaited
<1>10. \A k \in 1..n : \E i \in Ids : pending'[i] = calls[k].kind
  BY <1>2
<1> QED BY <1>5, <1>6, <1>8, <1>9, <1>10

(* What is asked for, and how often the list.                              *)
LEMMA AskedOnce ==
  /\ Len(Rest) = 2 /\ Rest[1].kind = "apps" /\ Rest[2].kind = "bright"
  /\ \A k, m \in 1..Len(Rest) : Rest[k].kind = "apps" /\ Rest[m].kind = "apps" => k = m
<1>1. Len(Rest) = 2 /\ Rest[1].kind = "apps" /\ Rest[2].kind = "bright"
  BY DEF Rest, Ask
<1> QED BY <1>1

(* A call that is settled leaves a list that is new enough, asks for one   *)
(* or makes the shell unsure.                                              *)
LEMMA SettleList ==
  ASSUME LinkInv, ListInv, NEW i \in Ids, pending[i] # None, NEW S, Settle(i, S),
         UNCHANGED <<socket, events>>, ~unsure', NEW a,
         pending[i] # "apps" => a = apps,
         pending[i] = "apps" /\ S # {} /\ NothingToAsk /\ ~unsure => a >= told
  PROVE  OneList(pending') /\ (NothingToAsk' => Awaited(pending', wire', a, told))
<1> DEFINE p == [pending EXCEPT ![i] = None]
<1>1. /\ p \in [Ids -> Kinds \cup {None}] /\ (wire \ S) \in SUBSET Requests
      /\ pending \in [Ids -> Kinds \cup {None}] /\ wire \subseteq Requests
  BY DEF LinkInv, TypeOK
<1>2. None \notin {"apps", "info"}
  BY LinkAssumption DEF LinkAssumption
<1>3. /\ p[i] = None
      /\ \A j \in Ids : j # i => p[j] = pending[j]
  BY <1>1
<1>4. ~unsure => OneList(p)
  BY <1>2, <1>3 DEF ListInv, OneList
<1> HIDE DEF p
<1>5. CASE pending[i] = "info"
  <2>1. Send(Rest, p, wire \ S)
    BY <1>5 DEF Settle, p
  <2>2. \E k \in 1..Len(Rest) : Rest[k].kind = "apps"
    BY AskedOnce
  <2> QED BY <1>1, <1>4, <2>1, <2>2, AskedAre, AskedOnce, SendList
<1>6. CASE pending[i] # "info"
  <2>1. /\ pending' = p /\ wire' = wire \ S
        /\ unsure' = (unsure \/ (pending[i] = "apps" /\ S = {}))
    BY <1>6 DEF Settle, p
  <2>2. ~unsure /\ OneList(pending')
    BY <1>4, <2>1
  <2>3. ASSUME NothingToAsk'
        PROVE  Awaited(pending', wire', a, told)
    <3>1. \A j \in Ids : pending[j] # "info"
      BY <1>3, <1>6, <2>1, <2>3 DEF NothingToAsk
    <3>2. NothingToAsk
      BY <2>3, <3>1 DEF NothingToAsk
    <3>3. Awaited(pending, wire, apps, told)
      BY <2>2, <3>2 DEF ListInv
    <3>4. \A r \in wire' : r \in wire /\ r.id \in Ids
      BY <1>1, <2>1 DEF Requests
    <3>5. CASE pending[i] = "apps"
      <4>1. a >= told
        BY <2>1, <2>2, <3>2, <3>5
      <4>2. \A j \in Ids : p[j] # "apps"
        BY <1>2, <1>3, <2>2, <3>5 DEF ListInv, OneList
      <4> QED BY <2>1, <3>4, <4>1, <4>2 DEF Awaited
    <3>6. CASE pending[i] # "apps"
      <4>1. \A j \in Ids : p[j] = "apps" <=> pending[j] = "apps"
        BY <1>2, <1>3, <3>6
      <4> QED BY <2>1, <3>3, <3>4, <3>6, <4>1 DEF Awaited
    <3> QED BY <3>5, <3>6
  <2> QED BY <2>2, <2>3
<1> QED BY <1>5, <1>6

(* The shell is told of no later change than there was.                    *)
LEMMA ToldStep == ASSUME LinkInv, ListInv, [Next]_vars PROVE (told <= catalog)'
<1>1. catalog \in Nat /\ told \in Nat /\ told <= catalog
  BY DEF LinkInv, TypeOK, ListInv
<1>2. CASE ChangeApps \/ InstallBeside
  <2>1. catalog' = catalog + 1 /\ told' = told
    BY <1>2 DEF ChangeApps, InstallBeside
  <2> QED BY <1>1, <2>1
<1>3. CASE PushApps
  BY <1>1, <1>3 DEF PushApps
<1>4. CASE ~ChangeApps /\ ~InstallBeside /\ ~PushApps
  <2>1. UNCHANGED <<catalog, told>>
    BY <1>4 DEF Next, Work, Daemon, Page, Reconnect, World, Handle, Serve,
      PushBrightness, Receive, ReceiveLate, TimeOut, HandleAppsChanged,
      HandleBrightness, Retry, Open, RefreshVolatile, Lose, Vanish, TimeOutEarly,
      Slide, vars, daemon
  <2> QED BY <1>1, <2>1
<1> QED BY <1>2, <1>3, <1>4

(* What is sent has not taken effect.                                      *)
LEMMA SendSets ==
  ASSUME NEW calls \in Seq([kind : Kinds, val : Nat]), NEW p, NEW w,
         SetsAre(w), Send(calls, p, w)
  PROVE  SetsAre(wire')
<1>1. PICK id \in [1..Len(calls) -> Ids] : Sent(id, calls, p, w)
  BY SendEffect
<1> QED BY <1>1 DEF Sent, SetsAre

(* Neither has what goes out when a call is settled.                       *)
LEMMA SettleSets ==
  ASSUME SetsAre(wire), NEW i, NEW S, Settle(i, S)
  PROVE  SetsAre(wire')
<1>1. SetsAre(wire \ S)
  BY DEF SetsAre
<1> QED BY <1>1, SendSets, AskedAre DEF Settle

(* Nor does any step break that.                                           *)
LEMMA SetsStep == ASSUME LinkInv, SetsAre(wire), [Next]_vars PROVE SetsAre(wire')
<1>1. wire \subseteq Requests
  BY DEF LinkInv, TypeOK
<1>2. CASE Lose
  <2>1. PICK S \in SUBSET {w \in wire : w.kind = "set" /\ w.at # "answered"} :
          wire' = {[w EXCEPT !.mine = FALSE] : w \in S}
    BY <1>2 DEF Lose, Drop
  <2>2. \A w \in S : [w EXCEPT !.mine = FALSE].kind = "set"
    BY <1>1 DEF Requests
  <2> QED BY <2>1, <2>2 DEF SetsAre
<1>3. ASSUME NEW w \in wire, Serve(w) PROVE SetsAre(wire')
  <2> DEFINE at == IF w.kind = "set" THEN "set" ELSE "answered"
             val == CASE w.kind = "apps" -> catalog
                      [] w.kind = "bright" -> level
                      [] OTHER -> w.val
             x == [w EXCEPT !.at = at, !.val = val]
  <2>1. wire' = (wire \ {w}) \cup {x}
    BY <1>3 DEF Serve
  <2>2. x.at = at /\ x.kind = w.kind
    <3> HIDE DEF at, val
    <3> QED BY <1>1 DEF Requests
  <2> HIDE DEF x
  <2> QED BY <2>1, <2>2 DEF SetsAre
<1>4. ASSUME NEW w \in wire, PushBrightness(w) PROVE SetsAre(wire')
  <2> DEFINE x == [w EXCEPT !.at = "answered", !.val = 0]
  <2>1. wire' \subseteq (wire \ {w}) \cup {x}
    BY <1>4 DEF PushBrightness
  <2>2. x.at = "answered"
    BY <1>1 DEF Requests
  <2> HIDE DEF x
  <2> QED BY <2>1, <2>2 DEF SetsAre
<1>5. ASSUME NEW w \in wire, Receive(w) PROVE SetsAre(wire')
  BY <1>5, SettleSets DEF Receive
<1>6. ASSUME NEW i \in Ids, TimeOut(i) \/ TimeOutEarly(i) PROVE SetsAre(wire')
  BY <1>6, SettleSets DEF TimeOut, TimeOutEarly
<1>7. CASE Open \/ HandleAppsChanged \/ RefreshVolatile
  <2>1. PICK k \in Kinds : Send(<<Ask(k)>>, pending, wire)
    BY <1>7 DEF Open, HandleAppsChanged, RefreshVolatile, Kinds
  <2> QED BY <2>1, SendSets, AskedAre
<1>8. ASSUME NEW l \in Levels, Slide(l) PROVE SetsAre(wire')
  BY <1>8, SendSets, AskedAre DEF Slide
<1>9. CASE \E w \in wire : ReceiveLate(w) \/ Vanish(w)
  BY <1>9 DEF ReceiveLate, Vanish, SetsAre
<1>10. CASE \/ PushApps \/ HandleBrightness \/ Retry \/ ChangeApps \/ InstallBeside
            \/ UNCHANGED vars
  BY <1>10 DEF PushApps, HandleBrightness, Retry, ChangeApps, InstallBeside, vars
<1> QED
  BY <1>2, <1>3, <1>4, <1>5, <1>6, <1>7, <1>8, <1>9, <1>10
     DEF Next, Work, Daemon, Page, Handle, Reconnect, World

(* What ListInv says of the list.                                          *)
Current ==
  /\ ~unsure => OneList(pending)
  /\ NothingToAsk /\ ~unsure => Awaited(pending, wire, apps, told)

(* A call for anything but the list is beside the point.                   *)
LEMMA SendOther ==
  ASSUME LinkInv, ListInv, NEW c \in [kind : Kinds, val : Nat], c.kind # "apps",
         <<c>> \in Seq([kind : Kinds, val : Nat]), Send(<<c>>, pending, wire),
         UNCHANGED <<socket, events, apps, told>>
  PROVE  Current'
<1> DEFINE calls == <<c>>
<1>1. /\ calls \in Seq([kind : Kinds, val : Nat]) /\ Len(calls) = 1
      /\ \A k \in 1..Len(calls) : calls[k].kind = c.kind
  OBVIOUS
<1>2. pending \in [Ids -> Kinds \cup {None}] /\ wire \in SUBSET Requests
  BY DEF LinkInv, TypeOK
<1>3. None # "info"
  BY LinkAssumption DEF LinkAssumption
<1>4. Send(calls, pending, wire)
  OBVIOUS
<1> HIDE DEF calls
<1>5. SUFFICES ASSUME ~unsure'
               PROVE  OneList(pending') /\ (NothingToAsk' => Awaited(pending', wire', apps, told))
  BY DEF Current
<1>6. ~unsure => OneList(pending)
  BY DEF ListInv
<1>7. \A k, m \in 1..Len(calls) : calls[k].kind = "apps" /\ calls[m].kind = "apps" => k = m
  BY <1>1
<1>8. /\ OneList(pending')
      /\ \A i \in Ids : pending[i] # None => pending'[i] = pending[i]
      /\ (\A k \in 1..Len(calls) : calls[k].kind # "apps") => ~unsure
      /\ Awaited(pending, wire, apps, told) => Awaited(pending', wire', apps, told)
  BY <1>1, <1>2, <1>4, <1>5, <1>6, <1>7, SendList
<1>9. ~unsure
  BY <1>1, <1>8
<1>10. NothingToAsk' => NothingToAsk
  BY <1>3, <1>8 DEF NothingToAsk
<1> QED BY <1>8, <1>9, <1>10 DEF ListInv

(* What the socket does.                                                   *)
LEMMA SocketCurrent ==
  ASSUME LinkInv, ListInv, Lose \/ Retry \/ Open
  PROVE  Current'
<1>1. CASE Lose
  <2>1. socket' = "none" /\ pending' = [i \in Ids |-> None]
    BY <1>1 DEF Lose, Drop
  <2>2. None # "apps"
    BY LinkAssumption DEF LinkAssumption
  <2> QED BY <2>1, <2>2 DEF Current, NothingToAsk, OneList
<1>2. CASE Retry
  <2>1. socket' = "connecting" /\ pending' = pending /\ unsure' = unsure
    BY <1>2 DEF Retry, LinkInv, OneWayToTheDaemon
  <2> QED BY <2>1 DEF Current, NothingToAsk, ListInv
<1>3. CASE Open
  <2> DEFINE calls == <<Ask("info")>>
  <2>1. /\ calls \in Seq([kind : Kinds, val : Nat]) /\ Len(calls) = 1
        /\ 1 \in 1..Len(calls) /\ calls[1].kind = "info"
        /\ \A k, m \in 1..Len(calls) : calls[k].kind = "apps" /\ calls[m].kind = "apps" => k = m
    BY AskedAre DEF Kinds, Ask
  <2>2. Send(calls, pending, wire)
    BY <1>3 DEF Open
  <2>3. pending \in [Ids -> Kinds \cup {None}] /\ wire \in SUBSET Requests
        /\ (~unsure => OneList(pending))
    BY DEF LinkInv, TypeOK, ListInv
  <2> HIDE DEF calls
  <2>4. ~unsure' => OneList(pending') /\ \E i \in Ids : pending'[i] = "info"
    <3>1. HAVE ~unsure'
    <3>2. OneList(pending') /\ \A k \in 1..Len(calls) : \E i \in Ids : pending'[i] = calls[k].kind
      BY <2>1, <2>2, <2>3, <3>1, SendList
    <3> QED BY <2>1, <3>2
  <2> QED BY <2>4 DEF Current, NothingToAsk
<1> QED BY <1>1, <1>2, <1>3

(* What is answered from now on is no older than what was pushed before.   *)
LEMMA DaemonCurrent ==
  ASSUME LinkInv, ListInv,
         \/ ChangeApps \/ PushApps \/ InstallBeside
         \/ \E w \in wire : Serve(w) \/ PushBrightness(w) \/ Vanish(w)
  PROVE  Current'
<1>1. CASE ChangeApps \/ InstallBeside
  BY <1>1 DEF ChangeApps, InstallBeside, Current, ListInv, NothingToAsk, client, shell
<1>2. CASE PushApps
  <2> DEFINE e == [type |-> "apps.changed", val |-> 0]
  <2>1. events \in Seq(Events) /\ e \in Events
    BY DEF LinkInv, TypeOK, Events
  <2>2. UNCHANGED <<socket, pending, unsure>> /\ events' = Pushed(e)
    BY <1>2 DEF PushApps, client
  <2>3. ~NothingToAsk'
    <3>1. CASE socket = "open"
      <4>1. events' = Append(events, e)
        BY <2>2, <3>1 DEF Pushed
      <4>2. Len(events') \in 1..Len(events') /\ events'[Len(events')] = e
        BY <2>1, <4>1
      <4> QED BY <4>2 DEF NothingToAsk
    <3>2. CASE socket # "open"
      BY <2>2, <3>2 DEF NothingToAsk
    <3> QED BY <3>1, <3>2
  <2> QED BY <2>2, <2>3 DEF Current, ListInv
<1>3. ASSUME NEW w \in wire, Serve(w) PROVE Current'
  <2> DEFINE at == IF w.kind = "set" THEN "set" ELSE "answered"
             val == CASE w.kind = "apps" -> catalog
                      [] w.kind = "bright" -> level
                      [] OTHER -> w.val
             x == [w EXCEPT !.at = at, !.val = val]
  <2>1. /\ wire' = (wire \ {w}) \cup {x}
        /\ UNCHANGED <<socket, pending, events, apps, told, unsure>>
    BY <1>3 DEF Serve, client, shell
  <2>2. w \in Requests /\ w.id \in Ids
    BY DEF LinkInv, TypeOK, Requests
  <2>3. x.val = val /\ x.id = w.id /\ x.mine = w.mine
    <3> HIDE DEF at, val
    <3> QED BY <2>2 DEF Requests
  <2>4. x.mine /\ pending[x.id] = "apps" => x.val >= told
    <3>1. w.mine /\ pending[w.id] = "apps" => w.kind = "apps"
      BY LinkAssumption DEF LinkAssumption, LinkInv, AnswerIsOfItsCall
    <3>2. catalog >= told
      BY DEF LinkInv, TypeOK, ListInv
    <3> HIDE DEF x
    <3> QED BY <2>3, <3>1, <3>2
  <2> HIDE DEF x
  <2>5. Awaited(pending, wire, apps, told) => Awaited(pending, wire', apps, told)
    BY <2>1, <2>4 DEF Awaited
  <2> QED BY <2>1, <2>5 DEF Current, ListInv, NothingToAsk
<1>4. ASSUME NEW w \in wire, PushBrightness(w) PROVE Current'
  <2> DEFINE x == [w EXCEPT !.at = "answered", !.val = 0]
             e == [type |-> "brightnessChanged", val |-> w.val]
  <2>1. /\ wire' \subseteq (wire \ {w}) \cup {x} /\ events' = Pushed(e)
        /\ UNCHANGED <<socket, pending, apps, told, unsure>>
    BY <1>4 DEF PushBrightness, client, daemon, shell
  <2>2. x.id = w.id /\ x.mine = w.mine /\ events \in Seq(Events) /\ e \in Events
    BY DEF LinkInv, TypeOK, Requests, Events
  <2>3. w.kind = "set"
    BY <1>4 DEF PushBrightness, ListInv, SetsAre
  <2>4. ~(x.mine /\ pending[x.id] = "apps")
    BY <2>2, <2>3, LinkAssumption DEF LinkAssumption, LinkInv, AnswerIsOfItsCall
  <2> HIDE DEF x
  <2>5. Awaited(pending, wire, apps, told) => Awaited(pending, wire', apps, told)
    BY <2>1, <2>4 DEF Awaited
  <2>6. NothingToAsk' => NothingToAsk
    <3>1. events' = events \/ events' = Append(events, e)
      BY <2>1 DEF Pushed
    <3> HIDE DEF e
    <3>2. \A k \in 1..Len(events) : k \in 1..Len(events') /\ events'[k] = events[k]
      BY <2>2, <3>1
    <3> QED BY <2>1, <3>2 DEF NothingToAsk
  <2> QED BY <2>1, <2>5, <2>6 DEF Current, ListInv
<1>5. ASSUME NEW w \in wire, Vanish(w) PROVE Current'
  <2>1. wire' \subseteq wire /\ UNCHANGED <<socket, pending, events, apps, told, unsure>>
    BY <1>5 DEF Vanish, client, daemon, shell
  <2> QED BY <2>1 DEF Current, ListInv, NothingToAsk, Awaited
<1> QED BY <1>1, <1>2, <1>3, <1>4, <1>5

(* What the shell does.                                                    *)
LEMMA PageCurrent ==
  ASSUME LinkInv, ListInv,
         \/ \E w \in wire : Receive(w) \/ ReceiveLate(w)
         \/ \E i \in Ids : TimeOut(i) \/ TimeOutEarly(i)
         \/ Handle \/ RefreshVolatile
         \/ \E l \in Levels : Slide(l)
  PROVE  Current'
<1>1. ASSUME NEW w \in wire, Receive(w) PROVE Current'
  <2>1. /\ w.at = "answered" /\ w.mine /\ pending[w.id] # None
        /\ Settle(w.id, {w})
        /\ apps' = IF pending[w.id] = "apps" THEN w.val ELSE apps
        /\ UNCHANGED <<socket, events, told>>
    BY <1>1 DEF Receive, client, daemon
  <2>2. w.id \in Ids
    BY DEF LinkInv, TypeOK, Requests
  <2>3. pending[w.id] = "apps" /\ NothingToAsk /\ ~unsure => apps' >= told
    BY <2>1 DEF ListInv, Awaited
  <2>4. ~unsure' => OneList(pending')
                    /\ (NothingToAsk' => Awaited(pending', wire', apps', told))
    BY <2>1, <2>2, <2>3, SettleList
  <2> QED BY <2>1, <2>4 DEF Current
<1>2. ASSUME NEW w \in wire, ReceiveLate(w) PROVE Current'
  <2>1. wire' \subseteq wire /\ UNCHANGED <<socket, pending, events, apps, told, unsure>>
    BY <1>2 DEF ReceiveLate, client, daemon, shell
  <2> QED BY <2>1 DEF Current, ListInv, NothingToAsk, Awaited
<1>3. ASSUME NEW i \in Ids, TimeOut(i) \/ TimeOutEarly(i) PROVE Current'
  <2>1. /\ pending[i] # None /\ Settle(i, {})
        /\ UNCHANGED <<socket, events, told, apps>>
    BY <1>3 DEF TimeOut, TimeOutEarly, client, daemon, shell
  <2>2. ~unsure' => OneList(pending')
                    /\ (NothingToAsk' => Awaited(pending', wire', apps, told))
    BY <2>1, SettleList
  <2> QED BY <2>1, <2>2 DEF Current
<1>4. CASE HandleAppsChanged
  <2> DEFINE calls == <<Ask("apps")>>
  <2>1. /\ calls \in Seq([kind : Kinds, val : Nat]) /\ Len(calls) = 1
        /\ 1 \in 1..Len(calls) /\ calls[1].kind = "apps"
        /\ \A k, m \in 1..Len(calls) : calls[k].kind = "apps" /\ calls[m].kind = "apps" => k = m
    BY AskedAre DEF Kinds, Ask
  <2>2. Send(calls, pending, wire) /\ apps' = apps /\ told' = told
    BY <1>4 DEF HandleAppsChanged, daemon, shell
  <2>3. pending \in [Ids -> Kinds \cup {None}] /\ wire \in SUBSET Requests
        /\ (~unsure => OneList(pending))
    BY DEF LinkInv, TypeOK, ListInv
  <2> HIDE DEF calls
  <2>4. ~unsure' => OneList(pending') /\ Awaited(pending', wire', apps, told)
    BY <2>1, <2>2, <2>3, SendList
  <2> QED BY <2>2, <2>4 DEF Current
<1>5. CASE HandleBrightness
  <2>1. /\ events # << >> /\ Head(events).type = "brightnessChanged"
        /\ events' = Tail(events)
        /\ UNCHANGED <<socket, pending, wire, apps, told, unsure>>
    BY <1>5 DEF HandleBrightness, client, daemon
  <2>2. NothingToAsk' => NothingToAsk
    <3>1. events \in Seq(Events) /\ Len(events) \in Nat \ {0}
      BY <2>1 DEF LinkInv, TypeOK
    <3>2. ASSUME NEW k \in 1..Len(events)
          PROVE  \/ k = 1 /\ events[k].type = "brightnessChanged"
                 \/ k - 1 \in 1..Len(events') /\ events[k] = events'[k - 1]
      BY <2>1, <3>1
    <3>3. ASSUME NothingToAsk', NEW k \in 1..Len(events)
          PROVE  events[k].type # "apps.changed"
      BY <3>2, <3>3 DEF NothingToAsk
    <3> QED BY <2>1, <3>3 DEF NothingToAsk
  <2> QED BY <2>1, <2>2 DEF Current, ListInv
<1>6. CASE RefreshVolatile
  <2>1. /\ Send(<<Ask("bright")>>, pending, wire)
        /\ UNCHANGED <<socket, events, apps, told>>
    BY <1>6 DEF RefreshVolatile, client, daemon, shell
  <2>2. /\ Ask("bright") \in [kind : Kinds, val : Nat] /\ Ask("bright").kind # "apps"
        /\ <<Ask("bright")>> \in Seq([kind : Kinds, val : Nat])
    BY DEF Ask, Kinds
  <2> QED BY <2>1, <2>2, SendOther
<1>7. ASSUME NEW l \in Levels, Slide(l) PROVE Current'
  <2> DEFINE c == [kind |-> "set", val |-> l]
  <2>1. /\ Send(<<c>>, pending, wire) \/ UNCHANGED <<pending, wire, unsure>>
        /\ UNCHANGED <<socket, events, apps, told>>
    BY <1>7 DEF Slide, client, daemon
  <2>2. /\ c \in [kind : Kinds, val : Nat] /\ c.kind # "apps"
        /\ <<c>> \in Seq([kind : Kinds, val : Nat])
    BY LinkAssumption DEF LinkAssumption, Kinds
  <2> HIDE DEF c
  <2>3. CASE Send(<<c>>, pending, wire)
    BY <2>1, <2>2, <2>3, SendOther
  <2>4. CASE UNCHANGED <<pending, wire, unsure>>
    BY <2>1, <2>4 DEF Current, ListInv, NothingToAsk
  <2> QED BY <2>1, <2>3, <2>4
<1> QED BY <1>1, <1>2, <1>3, <1>4, <1>5, <1>6, <1>7 DEF Handle

(* The list's invariant is inductive.                                      *)
LEMMA ListStep == ASSUME LinkInv, ListInv, [Next]_vars PROVE ListInv'
<1>1. Current'
  <2>1. CASE UNCHANGED vars
    BY <2>1 DEF vars, client, daemon, shell, Current, ListInv, NothingToAsk
  <2>2. CASE Next
    BY <2>2, SocketCurrent, DaemonCurrent, PageCurrent
       DEF Next, Work, Daemon, Page, Reconnect, World
  <2> QED BY <2>1, <2>2
<1>2. (told <= catalog)' /\ SetsAre(wire')
  BY ToldStep, SetsStep DEF ListInv
<1> QED BY <1>1, <1>2 DEF Current, ListInv

(* The inductive invariant of the connection, type correctness included.   *)
THEOREM LinkInvariant == Spec => []LinkInv
BY LinkInit, LinkStep, PTL DEF Spec

(* A shell that has lost its connection any number of times has one socket *)
(* or one timer to make it, never two and never none.                      *)
THEOREM OneWaySound == Spec => []OneWayToTheDaemon
<1>1. LinkInv => OneWayToTheDaemon
  BY DEF LinkInv
<1> QED BY <1>1, LinkInvariant, PTL

(* No answer settles another call than its own, however many calls are     *)
(* given up and however late their answers come.                           *)
THEOREM AnswerSound == Spec => []AnswerIsOfItsCall
<1>1. LinkInv => AnswerIsOfItsCall
  BY DEF LinkInv
<1> QED BY <1>1, LinkInvariant, PTL

(* A connected shell that has handled all it was told shows a list no      *)
(* older than the last change, however many connections, answers and calls *)
(* were lost, late or overtaken, unless the last call for it overlapped    *)
(* another or came to nothing.                                             *)
THEOREM ListSound == Spec => []QuietListIsCurrent
<1>1. Init => ListInv
  BY LinkAssumption
     DEF LinkAssumption, Init, ListInv, SetsAre, OneList, NothingToAsk
<1>2. LinkInv /\ ListInv /\ [Next]_vars => ListInv'
  BY ListStep
<1>3. Spec => []ListInv
  BY <1>1, <1>2, LinkInvariant, PTL DEF Spec
<1>4. LinkInv /\ ListInv => QuietListIsCurrent
  <2>1. SUFFICES ASSUME LinkInv, ListInv, socket = "open", events = << >>, ~unsure,
                        \A i \in Ids : pending[i] \notin {"info", "apps"}
                 PROVE  apps >= told
    BY DEF QuietListIsCurrent
  <2>2. NothingToAsk
    BY <2>1 DEF NothingToAsk
  <2> QED BY <2>1, <2>2 DEF ListInv, Awaited
<1> QED BY <1>3, <1>4, LinkInvariant, PTL
=============================================================================
