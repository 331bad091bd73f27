------------------------- MODULE AuthSession_proofs -------------------------
(***************************************************************************)
(* Every invariant of AuthSession for any number of token pairs: first what*)
(* the sessions need (IInv), then, on top of it, what the renewals need     *)
(* (RInv).                                                                  *)
(***************************************************************************)
EXTENDS AuthSession, TLAPS

USE MaxPairsAssumption
USE DEF MaxPairsAssumption

(* The type invariant in parts: Boolean variables, where everybody is, what*)
(* the server has issued, the sessions and the pairs of the callers.        *)
SwitchesTyped ==
    /\ up \in BOOLEAN /\ shown \in BOOLEAN /\ kick \in BOOLEAN
    /\ unsaved \in BOOLEAN /\ fault \in BOOLEAN /\ race \in BOOLEAN

PlacesTyped ==
    /\ lock \in {"free", "login", "logout"} \cup Callers
    /\ at \in [Callers -> Steps]
    /\ page \in {"loading", "ready"}
    /\ login \in {"idle", "save", "set"}
    /\ logout \in {"idle", "revoke", "clear", "remove"}

ServerTyped ==
    /\ root \in Seq(1 .. MaxPairs) /\ Len(root) <= MaxPairs
    /\ live \in SUBSET (1 .. Len(root))
    /\ ended \in SUBSET (1 .. Len(root))

Issued(session) == session.pair \in 0 .. Len(root) /\ session.login \in 0 .. Len(root)

SessionsTyped ==
    /\ mem \in Sessions /\ Issued(mem)
    /\ disk \in Sessions /\ Issued(disk)
    /\ found \in Sessions /\ Issued(found)
    /\ granted \in 0 .. Len(root)
    /\ revoked \in 0 .. Len(root)
    /\ login # "idle" => granted # 0

CallsTyped ==
    /\ stale \in [Callers -> 0 .. Len(root)]
    /\ token \in [Callers -> 0 .. Len(root)]
    /\ reply \in [Callers -> 0 .. Len(root)]

(* Who writes a file holds the lock, nobody else does, and when the        *)
(* application is down nobody does anything.                                *)
LockIsHeld ==
    /\ \A c \in Callers : at[c] = "write" <=> lock = c
    /\ login = "set" <=> lock = "login"
    /\ logout = "remove" <=> lock = "logout"
    /\ ~up => /\ \A c \in Callers : at[c] = "idle"
              /\ login = "idle" /\ logout = "idle" /\ lock = "free"

(* Half done: what has changed while the lock is held. *)
Granted == [pair |-> granted, login |-> granted]
HalfDone ==
    /\ logout = "remove" => mem = None
    /\ login = "set" => disk = Granted /\ ~unsaved
    /\ \A c \in Callers : at[c] = "write" => mem # None

(* Without a race nothing in use descends from a login that has ended:     *)
(* neither the file, nor a renewal under way while there is a session.  A  *)
(* login that is being saved is nobody's yet.                               *)
FileLives == disk # None /\ ~race => root[disk.pair] \notin ended

Replied == \A c \in Callers : reply[c] # 0 => at[c] \in {"answered", "write"}

RenewalsLive ==
    \A c \in Callers :
        mem # None /\ ~race
            => /\ at[c] = "sent" => token[c] # 0 /\ root[token[c]] \notin ended
               /\ at[c] = "answered" /\ reply[c] # 0 => root[reply[c]] \notin ended

LoginIsNew ==
    login # "idle"
        => /\ root[granted] = granted /\ granted \notin ended
           /\ login = "save" => granted \notin {mem.login, disk.login, found.login}

SessionsLive == LogoutIsFinal /\ FileLives

IInv ==
    /\ SwitchesTyped
    /\ PlacesTyped
    /\ ServerTyped
    /\ SessionsTyped
    /\ CallsTyped
    /\ LockIsHeld
    /\ HalfDone
    /\ MemoryAgreesWithFile
    /\ LoginIsNew
    /\ Replied
    /\ RenewalsLive
    /\ SessionsLive

-----------------------------------------------------------------------------
(* The initial states satisfy the inductive invariant. *)
LEMMA Initially == Init => IInv
<1> SUFFICES ASSUME Init PROVE IInv
  OBVIOUS
<1>1. SwitchesTyped
  BY Zenon DEF Init, SwitchesTyped
<1>2. PlacesTyped
  BY DEF Init, PlacesTyped, Steps, Waiting, Holding
<1>3. ServerTyped /\ SessionsTyped /\ CallsTyped
  BY DEF Init, ServerTyped, SessionsTyped, CallsTyped, Issued, Sessions, None
<1>4. LockIsHeld
  BY DEF Init, LockIsHeld, Callers
<1>5. HalfDone /\ MemoryAgreesWithFile
  BY DEF Init, HalfDone, MemoryAgreesWithFile
<1>6. SessionsLive /\ RenewalsLive /\ Replied /\ LoginIsNew
  BY DEF Init, Replied, SessionsLive, LogoutIsFinal, FileLives, RenewalsLive, LoginIsNew
<1> QED
  BY <1>1, <1>2, <1>3, <1>4, <1>5, <1>6 DEF IInv

-----------------------------------------------------------------------------
(* What the steps that may end a call do; who shows what is left out. *)
Returned(c) ==
    /\ at' = [at EXCEPT ![c] = "idle"]
    /\ stale' = [stale EXCEPT ![c] = 0]
    /\ token' = [token EXCEPT ![c] = 0]
    /\ reply' = [reply EXCEPT ![c] = 0]
    /\ page' \in {page, "ready"} /\ found' \in {found, None}

(* Returns frees the caller and leaves the session alone. *)
LEMMA ReturnsFrees ==
    ASSUME NEW c \in Callers, NEW outcome, Returns(c, outcome)
    PROVE  Returned(c)
<1>1. CASE c = "restore"
  BY <1>1 DEF Returns, Forgets, Goes, Returned
<1>2. CASE c # "restore"
  BY <1>2 DEF Returns, Forgets, Goes, Returned
<1> QED
  BY <1>1, <1>2

(* Returns shows a user or not, and asks for a logout or not. *)
LEMMA ReturnsShows ==
    ASSUME SwitchesTyped, NEW c \in Callers, NEW outcome, Returns(c, outcome)
    PROVE  shown' \in BOOLEAN /\ kick' \in BOOLEAN
<1>1. CASE c = "restore"
  <2>1. shown' = (outcome \in {"ok", "lost"}) /\ kick' = kick
    BY <1>1 DEF Returns
  <2> DEFINE P == outcome \in {"ok", "lost"}
  <2>2. P \in BOOLEAN
    OBVIOUS
  <2>3. shown' = P
    BY <2>1
  <2> HIDE DEF P
  <2> QED
    BY <2>1, <2>2, <2>3, Zenon DEF SwitchesTyped
<1>2. CASE c # "restore"
  <2>1. shown' = shown /\ kick' \in {kick, TRUE}
    BY <1>2 DEF Returns
  <2> QED
    BY <2>1, Zenon DEF SwitchesTyped
<1> QED
  BY <1>1, <1>2

(* Behind the gate a caller returns or goes on to send. *)
LEMMA EnterDoes ==
    ASSUME NEW c \in Callers, Enter(c)
    PROVE  /\ at[c] = "queued" /\ lock = "free"
           /\ UNCHANGED <<server, up, store, entry, leave, history>>
           /\ \/ Returned(c)
              \/ /\ at' = [at EXCEPT ![c] = "checked"]
                 /\ stale' = [stale EXCEPT ![c] = 0]
                 /\ UNCHANGED <<token, reply, ui>>
<1>1. CASE \E outcome : Returns(c, outcome)
  BY <1>1, ReturnsFrees DEF Enter, LockFree
<1>2. CASE Goes(c, "checked") /\ stale' = [stale EXCEPT ![c] = 0] /\ UNCHANGED <<token, reply, ui>>
  BY <1>2 DEF Enter, LockFree, Goes
<1> QED
  BY <1>1, <1>2 DEF Enter

(* A caller sends the refresh token of the session, if there is one. *)
LEMMA SendDoes ==
    ASSUME NEW c \in Callers, Send(c)
    PROVE  /\ at[c] = "checked" /\ lock = "free"
           /\ UNCHANGED <<server, up, store, entry, leave, history>>
           /\ \/ Returned(c)
              \/ /\ mem # None
                 /\ at' = [at EXCEPT ![c] = "sent"]
                 /\ token' = [token EXCEPT ![c] = mem.pair]
                 /\ UNCHANGED <<stale, reply, ui>>
<1>1. CASE mem = None
  BY <1>1, ReturnsFrees DEF Send, LockFree
<1>2. CASE mem # None
  BY <1>2 DEF Send, LockFree, Goes
<1> QED
  BY <1>1, <1>2

(* An answer ends the call or puts its pair in the session that is there. *)
LEMMA AnsweredDoes ==
    ASSUME NEW c \in Callers, Answered(c)
    PROVE  /\ at[c] = "answered" /\ lock = "free"
           /\ UNCHANGED <<server, up, disk, entry, leave, history>>
           /\ \/ Returned(c) /\ UNCHANGED <<mem, lock>>
              \/ /\ reply[c] # 0 /\ mem # None
                 /\ mem' = [mem EXCEPT !.pair = reply[c]]
                 /\ lock' = c
                 /\ at' = [at EXCEPT ![c] = "write"]
                 /\ UNCHANGED <<stale, token, reply, ui>>
<1>1. CASE reply[c] = 0 \/ mem = None
  BY <1>1, ReturnsFrees DEF Answered, LockFree, Store, store
<1>2. CASE reply[c] # 0 /\ mem # None
  BY <1>2 DEF Answered, LockFree, Goes, Store
<1> QED
  BY <1>1, <1>2

(* The file half of a renewal releases the lock and ends the call. *)
LEMMA WriteDoes ==
    ASSUME NEW c \in Callers, Write(c)
    PROVE  /\ at[c] = "write" /\ lock' = "free"
           /\ UNCHANGED <<server, up, mem, entry, leave, ended, fault, race>>
           /\ Returned(c)
           /\ disk' \in {mem, disk}
           /\ ~unsaved' => disk' = mem
<1>1. CASE disk' = mem /\ unsaved' = FALSE /\ Returns(c, "ok")
  BY <1>1, ReturnsFrees DEF Write
<1>2. CASE disk' = disk /\ unsaved' = TRUE /\ Returns(c, "lost")
  BY <1>2, ReturnsFrees DEF Write
<1> QED
  BY <1>1, <1>2 DEF Write

(* auth_restore makes what it read the session. *)
LEMMA ResetDoes ==
    ASSUME ResetMemory
    PROVE  /\ at["restore"] = "reset" /\ lock = "free"
           /\ mem' = found
           /\ ~race' => ~race /\ found = disk /\ mem = disk
           /\ UNCHANGED <<server, up, disk, lock, entry, leave, ended, unsaved, fault>>
           /\ \/ Returned("restore")
              \/ /\ found # None
                 /\ at' = [at EXCEPT !["restore"] = "queued"]
                 /\ stale' = [stale EXCEPT !["restore"] = found.pair]
                 /\ UNCHANGED <<token, reply, ui>>
<1>0. ~race' => ~race /\ found = disk /\ mem = disk
  BY DEF ResetMemory
<1>1. CASE found = None
  BY <1>0, <1>1, ReturnsFrees DEF ResetMemory, LockFree, Callers
<1>2. CASE found # None
  BY <1>0, <1>2 DEF ResetMemory, LockFree, Goes
<1> QED
  BY <1>1, <1>2

(* A call that is given up changes nothing but what the server accepts. *)
LEMMA LostDoes ==
    ASSUME NEW c \in Callers, Lost(c)
    PROVE  /\ Returned(c)
           /\ live' \in {live, live \ {token[c]}}
           /\ at[c] \in {"sent", "answered"}
           /\ UNCHANGED <<root, up, store, entry, leave, ended, unsaved, race>>
<1>1. Returned(c)
  BY ReturnsFrees DEF Lost
<1>2. live' \in {live, live \ {token[c]}}
  BY DEF Lost
<1> QED
  BY <1>1, <1>2 DEF Lost

(* Who may hold the lock without being a caller. *)
LEMMA CallerNames ==
    "restore" \in Callers /\ \A c \in Callers : c \notin {"free", "login", "logout"}
  BY DEF Callers

(* The operation gate admits one caller. *)
LEMMA OperationCalls == "operation" \in Callers
  BY DEF Callers

(* Sessions that are somebody's have a pair. *)
LEMMA SessionFacts ==
    /\ None \in Sessions /\ None.pair = 0 /\ None.login = 0
    /\ \A s \in Sessions : s # None => s.pair \in 1 .. MaxPairs /\ s.login \in 1 .. MaxPairs
    /\ \A s \in Sessions \ {None}, p \in 1 .. MaxPairs :
          LET t == [s EXCEPT !.pair = p]
          IN  t \in Sessions \ {None} /\ t.pair = p /\ t.login = s.login
    /\ \A p \in 1 .. MaxPairs :
          LET t == [pair |-> p, login |-> p]
          IN  t \in Sessions \ {None} /\ t.pair = p /\ t.login = p
  BY DEF Sessions, None

(* What the server issues becomes the last pair of those it has issued. *)
LEMMA Issuing ==
    ASSUME ServerTyped, Len(root) < MaxPairs, NEW l \in 1 .. MaxPairs
    PROVE  /\ Append(root, l) \in Seq(1 .. MaxPairs)
           /\ Len(Append(root, l)) = Len(root) + 1
           /\ Append(root, l)[Len(root) + 1] = l
           /\ \A p \in 1 .. Len(root) : Append(root, l)[p] = root[p]
  BY DEF ServerTyped

(* The server rotates a pair it has issued. *)
LEMMA RotateDoes ==
    ASSUME ServerTyped, NEW c \in Callers, Rotate(c)
    PROVE  /\ token[c] \in 1 .. Len(root) /\ Len(root) + 1 <= MaxPairs
           /\ root' \in Seq(1 .. MaxPairs)
           /\ Len(root') = Len(root) + 1
           /\ root'[Len(root) + 1] = root[token[c]]
           /\ \A p \in 1 .. Len(root) : root'[p] = root[p]
<1>1. token[c] \in live /\ live \subseteq 1 .. Len(root)
  BY DEF Rotate, ServerTyped
<1>2. token[c] \in 1 .. Len(root)
  BY <1>1
<1>3. root[token[c]] \in 1 .. MaxPairs
  BY <1>2 DEF ServerTyped
<1>4. Len(root) < MaxPairs /\ root' = Append(root, root[token[c]])
  BY DEF Rotate, CanIssue
<1>5. Len(root) \in Nat
  BY DEF ServerTyped
<1> QED
  BY <1>2, <1>3, <1>4, <1>5, Issuing

(* A login that succeeds is issued a pair. *)
LEMMA LoginDoes ==
    ASSUME ServerTyped, BeginLogin
    PROVE  /\ root' \in Seq(1 .. MaxPairs)
           /\ Len(root') = Len(root) + 1 /\ Len(root') <= MaxPairs
           /\ root'[Len(root) + 1] = Len(root) + 1
           /\ \A p \in 1 .. Len(root) : root'[p] = root[p]
<1>1. Len(root) < MaxPairs /\ root' = Append(root, Len(root) + 1)
  BY DEF BeginLogin, CanIssue, Issue
<1>2. Len(root) + 1 \in 1 .. MaxPairs
  BY <1>1 DEF ServerTyped
<1> QED
  BY <1>1, <1>2, Issuing

(* What a login saves is a session. *)
LEMMA GrantedFits ==
    ASSUME ServerTyped, SessionsTyped, login # "idle"
    PROVE  /\ Granted \in Sessions \ {None}
           /\ Granted.pair = granted /\ Granted.login = granted
           /\ granted \in 1 .. Len(root)
<1>1. granted \in 1 .. Len(root) /\ granted \in 1 .. MaxPairs
  BY DEF ServerTyped, SessionsTyped
<1> QED
  BY <1>1, SessionFacts DEF Granted

(* What was issued before keeps its login. *)
LEMMA Kept ==
    ASSUME \A q \in 1 .. Len(root) : root'[q] = root[q], NEW p \in 0 .. Len(root), p # 0,
           Len(root) \in Nat
    PROVE  root'[p] = root[p]
<1>1. p \in 1 .. Len(root)
  OBVIOUS
<1> QED
  BY <1>1

(* The switches stay Boolean. *)
LEMMA SwitchesInductive == SwitchesTyped /\ [Next]_vars => SwitchesTyped'
<1> SUFFICES ASSUME SwitchesTyped, [Next]_vars PROVE SwitchesTyped'
  OBVIOUS
<1> USE DEF SwitchesTyped, server, store, callers, ui, entry, leave, history
<1>1. CASE Expired
  BY <1>1, Zenon DEF Expired
<1>2. ASSUME NEW c \in Callers, Enter(c) PROVE SwitchesTyped'
  <2>1. (\E outcome : Returns(c, outcome)) \/ UNCHANGED ui
    BY <1>2 DEF Enter
  <2>2. UNCHANGED <<up, unsaved, fault, race>>
    BY <1>2 DEF Enter
  <2>3. CASE \E outcome : Returns(c, outcome)
    BY <2>2, <2>3, ReturnsShows, Zenon
  <2>4. CASE UNCHANGED ui
    BY <2>2, <2>4, Zenon
  <2> QED
    BY <2>1, <2>3, <2>4
<1>3. ASSUME NEW c \in Callers, Send(c) PROVE SwitchesTyped'
  <2>1. (\E outcome : Returns(c, outcome)) \/ UNCHANGED ui
    BY <1>3 DEF Send
  <2>2. UNCHANGED <<up, unsaved, fault, race>>
    BY <1>3 DEF Send
  <2>3. CASE \E outcome : Returns(c, outcome)
    BY <2>2, <2>3, ReturnsShows, Zenon
  <2>4. CASE UNCHANGED ui
    BY <2>2, <2>4, Zenon
  <2> QED
    BY <2>1, <2>3, <2>4
<1>4. ASSUME NEW c \in Callers, Answered(c) PROVE SwitchesTyped'
  <2>1. (\E outcome : Returns(c, outcome)) \/ UNCHANGED ui
    BY <1>4 DEF Answered, Store
  <2>2. UNCHANGED <<up, unsaved, fault, race>>
    BY <1>4 DEF Answered, Store
  <2>3. CASE \E outcome : Returns(c, outcome)
    BY <2>2, <2>3, ReturnsShows, Zenon
  <2>4. CASE UNCHANGED ui
    BY <2>2, <2>4, Zenon
  <2> QED
    BY <2>1, <2>3, <2>4
<1>5. ASSUME NEW c \in Callers, Write(c) PROVE SwitchesTyped'
  <2>1. PICK outcome : Returns(c, outcome)
    BY <1>5 DEF Write
  <2> QED
    BY <1>5, <2>1, ReturnsShows, Zenon DEF Write
<1>6. ASSUME NEW c \in Callers, Lost(c) PROVE SwitchesTyped'
  BY <1>6, Zenon DEF Lost, Returns
<1>7. ASSUME NEW c \in Callers, Rotate(c) PROVE SwitchesTyped'
  BY <1>7, Zenon DEF Rotate
<1>8. ASSUME NEW c \in Callers, Refuse(c) PROVE SwitchesTyped'
  BY <1>8, Zenon DEF Refuse
<1>9. CASE Launch
  BY <1>9, Zenon DEF Launch
<1>10. CASE Reload
  BY <1>10, Zenon DEF Reload
<1>11. CASE ReadFile
  BY <1>11, Zenon DEF ReadFile
<1>12. CASE ResetMemory
  <2>1. (\E outcome : Returns("restore", outcome)) \/ UNCHANGED ui
    BY <1>12 DEF ResetMemory
  <2>2. UNCHANGED <<up, unsaved, fault>> /\ race' \in BOOLEAN
    BY <1>12 DEF ResetMemory
  <2>3. CASE \E outcome : Returns("restore", outcome)
    BY <2>2, <2>3, ReturnsShows, Zenon DEF Callers
  <2>4. CASE UNCHANGED ui
    BY <2>2, <2>4, Zenon
  <2> QED
    BY <2>1, <2>3, <2>4
<1>13. CASE BeginLogin
  BY <1>13, Zenon DEF BeginLogin
<1>14. CASE SaveFile
  BY <1>14, Zenon DEF SaveFile
<1>15. CASE SaveMemory
  BY <1>15, Zenon DEF SaveMemory, RenewalUnderWay
<1>16. CASE BeginLogout
  BY <1>16, Zenon DEF BeginLogout
<1>17. CASE Revoke
  BY <1>17, Zenon DEF Revoke
<1>18. CASE ClearMemory
  BY <1>18, Zenon DEF ClearMemory
<1>19. CASE RemoveFile
  BY <1>19, Zenon DEF RemoveFile
<1>20. CASE Crash
  BY <1>20, Zenon DEF Crash
<1>21. CASE UNCHANGED vars
  BY <1>21, Zenon DEF vars
<1> QED
  BY <1>1, <1>2, <1>3, <1>4, <1>5, <1>6, <1>7, <1>8, <1>9, <1>10, <1>11, <1>12,
     <1>13, <1>14, <1>15, <1>16, <1>17, <1>18, <1>19, <1>20, <1>21
     DEF Next, CallStep, RestoreStep, LoginStep, LogoutStep

(* Everybody stays where a step may lead. *)
LEMMA PlacesInductive == PlacesTyped /\ [Next]_vars => PlacesTyped'
<1> SUFFICES ASSUME PlacesTyped, [Next]_vars PROVE PlacesTyped'
  OBVIOUS
<1> USE DEF PlacesTyped, Steps, Waiting, Holding, server, store, callers, ui, entry,
         leave, history
<1>1. CASE Expired
  BY OperationCalls, <1>1, SMTT(20) DEF Expired, LockFree, Goes
<1>2. ASSUME NEW c \in Callers, Enter(c) PROVE PlacesTyped'
  <2>1. /\ at[c] = "queued" /\ lock = "free"
        /\ UNCHANGED <<server, up, store, entry, leave, history>>
    BY <1>2, EnterDoes
  <2>2. CASE Returned(c)
    BY CallerNames, <2>1, <2>2, SMTT(20) DEF Returned
  <2>3. CASE ~Returned(c)
    <3>1. /\ at' = [at EXCEPT ![c] = "checked"]
          /\ stale' = [stale EXCEPT ![c] = 0]
          /\ UNCHANGED <<token, reply, ui>>
      BY <1>2, <2>3, EnterDoes
    <3> QED
      BY CallerNames, <2>1, <3>1, SMTT(20)
  <2> QED
    BY <2>2, <2>3
<1>3. ASSUME NEW c \in Callers, Send(c) PROVE PlacesTyped'
  <2>1. /\ at[c] = "checked" /\ lock = "free"
        /\ UNCHANGED <<server, up, store, entry, leave, history>>
    BY <1>3, SendDoes
  <2>2. CASE Returned(c)
    BY CallerNames, <2>1, <2>2, SMTT(20) DEF Returned
  <2>3. CASE ~Returned(c)
    <3>1. /\ mem # None
          /\ at' = [at EXCEPT ![c] = "sent"]
          /\ token' = [token EXCEPT ![c] = mem.pair]
          /\ UNCHANGED <<stale, reply, ui>>
      BY <1>3, <2>3, SendDoes
    <3> QED
      BY CallerNames, <2>1, <3>1, SMTT(20)
  <2> QED
    BY <2>2, <2>3
<1>4. ASSUME NEW c \in Callers, Answered(c) PROVE PlacesTyped'
  <2>1. /\ at[c] = "answered" /\ lock = "free"
        /\ UNCHANGED <<server, up, disk, entry, leave, history>>
    BY <1>4, AnsweredDoes
  <2>2. CASE Returned(c) /\ UNCHANGED <<mem, lock>>
    BY CallerNames, <2>1, <2>2, SMTT(20) DEF Returned
  <2>3. CASE ~(Returned(c) /\ UNCHANGED <<mem, lock>>)
    <3>1. /\ reply[c] # 0 /\ mem # None
          /\ mem' = [mem EXCEPT !.pair = reply[c]]
          /\ lock' = c
          /\ at' = [at EXCEPT ![c] = "write"]
          /\ UNCHANGED <<stale, token, reply, ui>>
      BY <1>4, <2>3, AnsweredDoes
    <3> QED
      BY CallerNames, <2>1, <3>1, SMTT(20)
  <2> QED
    BY <2>2, <2>3
<1>5. ASSUME NEW c \in Callers, Write(c) PROVE PlacesTyped'
  <2>1. /\ at[c] = "write" /\ lock' = "free"
        /\ UNCHANGED <<server, up, mem, entry, leave, ended, fault, race>>
        /\ Returned(c)
        /\ disk' \in {mem, disk}
        /\ ~unsaved' => disk' = mem
    BY <1>5, WriteDoes
  <2> QED
    BY CallerNames, <2>1, SMTT(20) DEF Returned
<1>6. ASSUME NEW c \in Callers, Lost(c) PROVE PlacesTyped'
  BY CallerNames, <1>6, SMTT(20) DEF Lost, Returns, Forgets, Goes
<1>7. ASSUME NEW c \in Callers, Rotate(c) PROVE PlacesTyped'
  BY CallerNames, <1>7, SMTT(20) DEF Rotate, CanIssue, Goes
<1>8. ASSUME NEW c \in Callers, Refuse(c) PROVE PlacesTyped'
  BY CallerNames, <1>8, SMTT(20) DEF Refuse, Goes
<1>9. CASE Launch
  BY CallerNames, <1>9, SMTT(20) DEF Launch, Goes
<1>10. CASE Reload
  BY CallerNames, <1>10, SMTT(20) DEF Reload, Goes
<1>11. CASE ReadFile
  BY CallerNames, <1>11, SMTT(20) DEF ReadFile, Goes
<1>12. CASE ResetMemory
  <2>1. /\ at["restore"] = "reset" /\ lock = "free"
        /\ mem' = found
        /\ ~race' => ~race /\ found = disk /\ mem = disk
        /\ UNCHANGED <<server, up, disk, lock, entry, leave, ended, unsaved, fault>>
    BY <1>12, ResetDoes
  <2>2. CASE Returned("restore")
    BY CallerNames, <2>1, <2>2, SMTT(20) DEF Returned
  <2>3. CASE ~Returned("restore")
    <3>1. /\ found # None
          /\ at' = [at EXCEPT !["restore"] = "queued"]
          /\ stale' = [stale EXCEPT !["restore"] = found.pair]
          /\ UNCHANGED <<token, reply, ui>>
      BY <1>12, <2>3, ResetDoes
    <3> QED
      BY CallerNames, <2>1, <3>1, SMTT(20)
  <2> QED
    BY <2>2, <2>3
<1>13. CASE BeginLogin
  BY CallerNames, <1>13, SMTT(20) DEF BeginLogin, CanIssue, Issue
<1>14. CASE SaveFile
  BY CallerNames, <1>14, SMTT(20) DEF SaveFile, LockFree
<1>15. CASE SaveMemory
  BY CallerNames, <1>15, SMTT(20) DEF SaveMemory, RenewalUnderWay
<1>16. CASE BeginLogout
  BY CallerNames, <1>16, SMTT(20) DEF BeginLogout, LockFree
<1>17. CASE Revoke
  BY CallerNames, <1>17, SMTT(20) DEF Revoke
<1>18. CASE ClearMemory
  BY CallerNames, <1>18, SMTT(20) DEF ClearMemory, LockFree
<1>19. CASE RemoveFile
  BY CallerNames, <1>19, SMTT(20) DEF RemoveFile
<1>20. CASE Crash
  BY CallerNames, <1>20, SMTT(20) DEF Crash
<1>21. CASE UNCHANGED vars
  BY CallerNames, <1>21, SMTT(20) DEF vars
<1> QED
  BY <1>1, <1>2, <1>3, <1>4, <1>5, <1>6, <1>7, <1>8, <1>9, <1>10, <1>11, <1>12,
     <1>13, <1>14, <1>15, <1>16, <1>17, <1>18, <1>19, <1>20, <1>21
     DEF Next, CallStep, RestoreStep, LoginStep, LogoutStep

(* The server issues pairs one by one. *)
LEMMA ServerInductive ==
    ServerTyped /\ SessionsTyped /\ CallsTyped /\ [Next]_vars => ServerTyped'
<1> SUFFICES ASSUME ServerTyped, SessionsTyped, CallsTyped, [Next]_vars PROVE ServerTyped'
  OBVIOUS
<1> USE DEF ServerTyped, SessionsTyped, Issued, CallsTyped, server, store, callers,
         ui, entry, leave, history
<1>1. CASE Expired
  BY CallerNames, SessionFacts, <1>1, SMTT(20) DEF Expired, LockFree, Goes
<1>2. ASSUME NEW c \in Callers, Enter(c) PROVE ServerTyped'
  <2>1. /\ at[c] = "queued" /\ lock = "free"
        /\ UNCHANGED <<server, up, store, entry, leave, history>>
    BY <1>2, EnterDoes
  <2>2. CASE Returned(c)
    BY CallerNames, SessionFacts, <2>1, <2>2, SMTT(20) DEF Returned
  <2>3. CASE ~Returned(c)
    <3>1. /\ at' = [at EXCEPT ![c] = "checked"]
          /\ stale' = [stale EXCEPT ![c] = 0]
          /\ UNCHANGED <<token, reply, ui>>
      BY <1>2, <2>3, EnterDoes
    <3> QED
      BY CallerNames, SessionFacts, <2>1, <3>1, SMTT(20)
  <2> QED
    BY <2>2, <2>3
<1>3. ASSUME NEW c \in Callers, Send(c) PROVE ServerTyped'
  <2>1. /\ at[c] = "checked" /\ lock = "free"
        /\ UNCHANGED <<server, up, store, entry, leave, history>>
    BY <1>3, SendDoes
  <2>2. CASE Returned(c)
    BY CallerNames, SessionFacts, <2>1, <2>2, SMTT(20) DEF Returned
  <2>3. CASE ~Returned(c)
    <3>1. /\ mem # None
          /\ at' = [at EXCEPT ![c] = "sent"]
          /\ token' = [token EXCEPT ![c] = mem.pair]
          /\ UNCHANGED <<stale, reply, ui>>
      BY <1>3, <2>3, SendDoes
    <3> QED
      BY CallerNames, SessionFacts, <2>1, <3>1, SMTT(20)
  <2> QED
    BY <2>2, <2>3
<1>4. ASSUME NEW c \in Callers, Answered(c) PROVE ServerTyped'
  <2>1. /\ at[c] = "answered" /\ lock = "free"
        /\ UNCHANGED <<server, up, disk, entry, leave, history>>
    BY <1>4, AnsweredDoes
  <2>2. CASE Returned(c) /\ UNCHANGED <<mem, lock>>
    BY CallerNames, SessionFacts, <2>1, <2>2, SMTT(20) DEF Returned
  <2>3. CASE ~(Returned(c) /\ UNCHANGED <<mem, lock>>)
    <3>1. /\ reply[c] # 0 /\ mem # None
          /\ mem' = [mem EXCEPT !.pair = reply[c]]
          /\ lock' = c
          /\ at' = [at EXCEPT ![c] = "write"]
          /\ UNCHANGED <<stale, token, reply, ui>>
      BY <1>4, <2>3, AnsweredDoes
    <3> QED
      BY CallerNames, SessionFacts, <2>1, <3>1, SMTT(20)
  <2> QED
    BY <2>2, <2>3
<1>5. ASSUME NEW c \in Callers, Write(c) PROVE ServerTyped'
  <2>1. /\ at[c] = "write" /\ lock' = "free"
        /\ UNCHANGED <<server, up, mem, entry, leave, ended, fault, race>>
        /\ Returned(c)
        /\ disk' \in {mem, disk}
        /\ ~unsaved' => disk' = mem
    BY <1>5, WriteDoes
  <2> QED
    BY CallerNames, SessionFacts, <2>1, SMTT(20) DEF Returned
<1>6. ASSUME NEW c \in Callers, Lost(c) PROVE ServerTyped'
  <2>1. live' \in {live, live \ {token[c]}} /\ UNCHANGED <<root, ended>>
    BY <1>6, LostDoes
  <2>2. live' \subseteq live
    BY <2>1
  <2> QED
    BY <2>1, <2>2
<1>7. ASSUME NEW c \in Callers, Rotate(c) PROVE ServerTyped'
  <2>1. /\ token[c] \in 1 .. Len(root) /\ Len(root) + 1 <= MaxPairs
        /\ root' \in Seq(1 .. MaxPairs)
        /\ Len(root') = Len(root) + 1
        /\ root'[Len(root) + 1] = root[token[c]]
        /\ \A p \in 1 .. Len(root) : root'[p] = root[p]
    BY <1>7, RotateDoes
  <2>2. live' = (live \ {token[c]}) \cup {Len(root) + 1} /\ ended' = ended
    BY <1>7 DEF Rotate
  <2>3. Len(root) \in Nat
    OBVIOUS
  <2>4. 1 .. Len(root) \subseteq 1 .. Len(root') /\ Len(root) + 1 \in 1 .. Len(root')
    <3> HIDE DEF ServerTyped, SessionsTyped, CallsTyped
    <3> QED
      BY <2>1, <2>3
  <2>5. live' \subseteq 1 .. Len(root') /\ ended' \subseteq 1 .. Len(root')
    BY <2>2, <2>4
  <2> QED
    BY <2>1, <2>5, SMTT(20)
<1>8. ASSUME NEW c \in Callers, Refuse(c) PROVE ServerTyped'
  BY CallerNames, SessionFacts, <1>8, SMTT(20) DEF Refuse, Goes
<1>9. CASE Launch
  BY CallerNames, SessionFacts, <1>9, SMTT(20) DEF Launch, Goes
<1>10. CASE Reload
  BY CallerNames, SessionFacts, <1>10, SMTT(20) DEF Reload, Goes
<1>11. CASE ReadFile
  BY CallerNames, SessionFacts, <1>11, SMTT(20) DEF ReadFile, Goes
<1>12. CASE ResetMemory
  <2>1. /\ at["restore"] = "reset" /\ lock = "free"
        /\ mem' = found
        /\ ~race' => ~race /\ found = disk /\ mem = disk
        /\ UNCHANGED <<server, up, disk, lock, entry, leave, ended, unsaved, fault>>
    BY <1>12, ResetDoes
  <2>2. CASE Returned("restore")
    BY CallerNames, SessionFacts, <2>1, <2>2, SMTT(20) DEF Returned
  <2>3. CASE ~Returned("restore")
    <3>1. /\ found # None
          /\ at' = [at EXCEPT !["restore"] = "queued"]
          /\ stale' = [stale EXCEPT !["restore"] = found.pair]
          /\ UNCHANGED <<token, reply, ui>>
      BY <1>12, <2>3, ResetDoes
    <3> QED
      BY CallerNames, SessionFacts, <2>1, <3>1, SMTT(20)
  <2> QED
    BY <2>2, <2>3
<1>13. CASE BeginLogin
  <2>1. /\ root' \in Seq(1 .. MaxPairs)
        /\ Len(root') = Len(root) + 1 /\ Len(root') <= MaxPairs
        /\ root'[Len(root) + 1] = Len(root) + 1
        /\ \A p \in 1 .. Len(root) : root'[p] = root[p]
    BY <1>13, LoginDoes
  <2>2. live' = live \cup {Len(root) + 1} /\ ended' = ended
    BY <1>13 DEF BeginLogin, Issue
  <2>3. Len(root) \in Nat
    OBVIOUS
  <2>4. 1 .. Len(root) \subseteq 1 .. Len(root') /\ Len(root) + 1 \in 1 .. Len(root')
    <3> HIDE DEF ServerTyped, SessionsTyped, CallsTyped
    <3> QED
      BY <2>1, <2>3
  <2>5. live' \subseteq 1 .. Len(root') /\ ended' \subseteq 1 .. Len(root')
    BY <2>2, <2>4
  <2> QED
    BY <2>1, <2>5, SMTT(20)
<1>14. CASE SaveFile
  BY CallerNames, SessionFacts, <1>14, SMTT(20) DEF SaveFile, LockFree
<1>15. CASE SaveMemory
  BY CallerNames, SessionFacts, <1>15, SMTT(20) DEF SaveMemory, RenewalUnderWay
<1>16. CASE BeginLogout
  BY CallerNames, SessionFacts, <1>16, SMTT(20) DEF BeginLogout, LockFree
<1>17. CASE Revoke
  BY CallerNames, SessionFacts, <1>17, SMTT(20) DEF Revoke
<1>18. CASE ClearMemory
  BY CallerNames, SessionFacts, <1>18, SMTT(20) DEF ClearMemory, LockFree
<1>19. CASE RemoveFile
  BY CallerNames, SessionFacts, <1>19, SMTT(20) DEF RemoveFile
<1>20. CASE Crash
  <2>1. live' \in {live \ gone : gone \in SUBSET {token[c] : c \in Callers}} /\ UNCHANGED <<root, ended>>
    BY <1>20 DEF Crash
  <2>2. live' \subseteq live
    BY <2>1
  <2> QED
    BY <2>1, <2>2
<1>21. CASE UNCHANGED vars
  BY CallerNames, SessionFacts, <1>21, SMTT(20) DEF vars
<1> QED
  BY <1>1, <1>2, <1>3, <1>4, <1>5, <1>6, <1>7, <1>8, <1>9, <1>10, <1>11, <1>12,
     <1>13, <1>14, <1>15, <1>16, <1>17, <1>18, <1>19, <1>20, <1>21
     DEF Next, CallStep, RestoreStep, LoginStep, LogoutStep

(* The sessions hold pairs the server has issued. *)
LEMMA SessionsInductive ==
    ServerTyped /\ SessionsTyped /\ CallsTyped /\ [Next]_vars => SessionsTyped'
<1> SUFFICES ASSUME ServerTyped, SessionsTyped, CallsTyped, [Next]_vars
             PROVE  SessionsTyped'
  OBVIOUS
<1> USE DEF SessionsTyped, Issued, server, store, callers, ui, entry, leave, history
<1>1. CASE Expired
  BY CallerNames, SessionFacts, <1>1, SMTT(20) DEF Expired, LockFree, Goes
<1>2. ASSUME NEW c \in Callers, Enter(c) PROVE SessionsTyped'
  <2>1. /\ at[c] = "queued" /\ lock = "free"
        /\ UNCHANGED <<server, up, store, entry, leave, history>>
    BY <1>2, EnterDoes
  <2>2. CASE Returned(c)
    BY CallerNames, SessionFacts, <2>1, <2>2, SMTT(20) DEF Returned
  <2>3. CASE ~Returned(c)
    <3>1. /\ at' = [at EXCEPT ![c] = "checked"]
          /\ stale' = [stale EXCEPT ![c] = 0]
          /\ UNCHANGED <<token, reply, ui>>
      BY <1>2, <2>3, EnterDoes
    <3> QED
      BY CallerNames, SessionFacts, <2>1, <3>1, SMTT(20)
  <2> QED
    BY <2>2, <2>3
<1>3. ASSUME NEW c \in Callers, Send(c) PROVE SessionsTyped'
  <2>1. /\ at[c] = "checked" /\ lock = "free"
        /\ UNCHANGED <<server, up, store, entry, leave, history>>
    BY <1>3, SendDoes
  <2>2. CASE Returned(c)
    BY CallerNames, SessionFacts, <2>1, <2>2, SMTT(20) DEF Returned
  <2>3. CASE ~Returned(c)
    <3>1. /\ mem # None
          /\ at' = [at EXCEPT ![c] = "sent"]
          /\ token' = [token EXCEPT ![c] = mem.pair]
          /\ UNCHANGED <<stale, reply, ui>>
      BY <1>3, <2>3, SendDoes
    <3> QED
      BY CallerNames, SessionFacts, <2>1, <3>1, SMTT(20)
  <2> QED
    BY <2>2, <2>3
<1>4. ASSUME NEW c \in Callers, Answered(c) PROVE SessionsTyped'
  <2>1. UNCHANGED <<root, disk, login, granted, revoked>>
    BY <1>4, AnsweredDoes
  <2>2. CASE Returned(c) /\ UNCHANGED mem
    BY SessionFacts, <2>1, <2>2, SMTT(20) DEF Returned
  <2>3. CASE ~(Returned(c) /\ UNCHANGED mem)
    <3>1. /\ reply[c] # 0 /\ mem # None
          /\ mem' = [mem EXCEPT !.pair = reply[c]]
          /\ UNCHANGED found
      BY <1>4, <2>3, AnsweredDoes
    <3>2. reply[c] \in 1 .. Len(root) /\ reply[c] \in 1 .. MaxPairs
      BY <3>1 DEF CallsTyped, ServerTyped
    <3>3. mem' \in Sessions /\ mem'.pair = reply[c] /\ mem'.login = mem.login
      BY <3>1, <3>2, SessionFacts
    <3>4. Issued(mem)'
      BY <2>1, <3>2, <3>3
    <3> QED
      BY <2>1, <3>1, <3>3, <3>4, SMTT(20)
  <2> QED
    BY <2>2, <2>3
<1>5. ASSUME NEW c \in Callers, Write(c) PROVE SessionsTyped'
  <2>1. /\ at[c] = "write" /\ lock' = "free"
        /\ UNCHANGED <<server, up, mem, entry, leave, ended, fault, race>>
        /\ Returned(c)
        /\ disk' \in {mem, disk}
        /\ ~unsaved' => disk' = mem
    BY <1>5, WriteDoes
  <2> QED
    BY CallerNames, SessionFacts, <2>1, SMTT(20) DEF Returned
<1>6. ASSUME NEW c \in Callers, Lost(c) PROVE SessionsTyped'
  <2>1. Returned(c) /\ UNCHANGED <<root, mem, disk, login, granted, revoked>>
    BY <1>6, LostDoes
  <2> QED
    BY <2>1, SessionFacts, SMTT(20) DEF Returned
<1>7. ASSUME NEW c \in Callers, Rotate(c) PROVE SessionsTyped'
  <2>1. /\ token[c] \in 1 .. Len(root) /\ Len(root) + 1 <= MaxPairs
        /\ root' \in Seq(1 .. MaxPairs)
        /\ Len(root') = Len(root) + 1
        /\ root'[Len(root) + 1] = root[token[c]]
        /\ \A p \in 1 .. Len(root) : root'[p] = root[p]
    BY <1>7, RotateDoes
  <2>2. UNCHANGED <<mem, disk, found, login, granted, revoked>>
    BY <1>7 DEF Rotate
  <2>3. Len(root) \in Nat
    BY DEF ServerTyped
  <2>4. 0 .. Len(root) \subseteq 0 .. Len(root')
    <3> HIDE DEF SessionsTyped
    <3> QED
      BY <2>1, <2>3
  <2>5. Issued(mem)' /\ Issued(disk)' /\ Issued(found)' /\ revoked' \in 0 .. Len(root')
    BY <2>2, <2>4
  <2> QED
    BY <2>2, <2>4, <2>5
<1>8. ASSUME NEW c \in Callers, Refuse(c) PROVE SessionsTyped'
  BY CallerNames, SessionFacts, <1>8, SMTT(20) DEF Refuse, Goes
<1>9. CASE Launch
  BY CallerNames, SessionFacts, <1>9, SMTT(20) DEF Launch, Goes
<1>10. CASE Reload
  BY CallerNames, SessionFacts, <1>10, SMTT(20) DEF Reload, Goes
<1>11. CASE ReadFile
  BY CallerNames, SessionFacts, <1>11, SMTT(20) DEF ReadFile, Goes
<1>12. CASE ResetMemory
  <2>1. /\ at["restore"] = "reset" /\ lock = "free"
        /\ mem' = found
        /\ ~race' => ~race /\ found = disk /\ mem = disk
        /\ UNCHANGED <<server, up, disk, lock, entry, leave, ended, unsaved, fault>>
    BY <1>12, ResetDoes
  <2>2. CASE Returned("restore")
    BY CallerNames, SessionFacts, <2>1, <2>2, SMTT(20) DEF Returned
  <2>3. CASE ~Returned("restore")
    <3>1. /\ found # None
          /\ at' = [at EXCEPT !["restore"] = "queued"]
          /\ stale' = [stale EXCEPT !["restore"] = found.pair]
          /\ UNCHANGED <<token, reply, ui>>
      BY <1>12, <2>3, ResetDoes
    <3> QED
      BY CallerNames, SessionFacts, <2>1, <3>1, SMTT(20)
  <2> QED
    BY <2>2, <2>3
<1>13. CASE BeginLogin
  <2>1. /\ root' \in Seq(1 .. MaxPairs)
        /\ Len(root') = Len(root) + 1 /\ Len(root') <= MaxPairs
        /\ root'[Len(root) + 1] = Len(root) + 1
        /\ \A p \in 1 .. Len(root) : root'[p] = root[p]
    BY <1>13, LoginDoes
  <2>2. UNCHANGED <<mem, disk, found, revoked>> /\ granted' = Len(root) + 1
    BY <1>13 DEF BeginLogin
  <2>3. Len(root) \in Nat
    BY DEF ServerTyped
  <2>4. 0 .. Len(root) \subseteq 0 .. Len(root') /\ Len(root) + 1 \in 1 .. Len(root')
    <3> HIDE DEF SessionsTyped
    <3> QED
      BY <2>1, <2>3
  <2>5. Issued(mem)' /\ Issued(disk)' /\ Issued(found)' /\ revoked' \in 0 .. Len(root')
    BY <2>2, <2>4
  <2> QED
    BY <2>2, <2>4, <2>5
<1>14. CASE SaveFile
  <2>1. /\ UNCHANGED <<root, mem, found, revoked>>
        /\ login = "save" /\ disk' \in {disk, Granted}
        /\ login' = "idle" \/ granted' = granted
        /\ granted' \in {granted, 0}
    BY <1>14 DEF SaveFile, Granted
  <2>2. disk' \in Sessions /\ Issued(disk)'
    BY <2>1, GrantedFits
  <2> QED
    BY <2>1, <2>2
<1>15. CASE SaveMemory
  <2>1. /\ UNCHANGED <<root, disk, found, revoked>>
        /\ login = "set" /\ mem' = Granted /\ login' = "idle" /\ granted' = 0
    BY <1>15 DEF SaveMemory, Granted
  <2>2. mem' \in Sessions /\ Issued(mem)'
    BY <2>1, GrantedFits
  <2> QED
    BY <2>1, <2>2
<1>16. CASE BeginLogout
  BY CallerNames, SessionFacts, <1>16, SMTT(20) DEF BeginLogout, LockFree
<1>17. CASE Revoke
  BY CallerNames, SessionFacts, <1>17, SMTT(20) DEF Revoke
<1>18. CASE ClearMemory
  BY CallerNames, SessionFacts, <1>18, SMTT(20) DEF ClearMemory, LockFree
<1>19. CASE RemoveFile
  BY CallerNames, SessionFacts, <1>19, SMTT(20) DEF RemoveFile
<1>20. CASE Crash
  BY CallerNames, SessionFacts, <1>20, SMTT(20) DEF Crash
<1>21. CASE UNCHANGED vars
  BY CallerNames, SessionFacts, <1>21, SMTT(20) DEF vars
<1> QED
  BY <1>1, <1>2, <1>3, <1>4, <1>5, <1>6, <1>7, <1>8, <1>9, <1>10, <1>11, <1>12,
     <1>13, <1>14, <1>15, <1>16, <1>17, <1>18, <1>19, <1>20, <1>21
     DEF Next, CallStep, RestoreStep, LoginStep, LogoutStep

(* So do the callers. *)
LEMMA CallsInductive ==
    ServerTyped /\ SessionsTyped /\ CallsTyped /\ [Next]_vars => CallsTyped'
<1> SUFFICES ASSUME ServerTyped, SessionsTyped, CallsTyped, [Next]_vars PROVE CallsTyped'
  OBVIOUS
<1> USE DEF CallsTyped, SessionsTyped, Issued, server, store, callers, ui, entry,
         leave, history
<1>1. CASE Expired
  BY OperationCalls, <1>1, SMTT(20) DEF Expired
<1>2. ASSUME NEW c \in Callers, Enter(c) PROVE CallsTyped'
  <2>1. /\ at[c] = "queued" /\ lock = "free"
        /\ UNCHANGED <<server, up, store, entry, leave, history>>
    BY <1>2, EnterDoes
  <2>2. CASE Returned(c)
    BY CallerNames, SessionFacts, <2>1, <2>2, SMTT(20) DEF Returned
  <2>3. CASE ~Returned(c)
    <3>1. /\ at' = [at EXCEPT ![c] = "checked"]
          /\ stale' = [stale EXCEPT ![c] = 0]
          /\ UNCHANGED <<token, reply, ui>>
      BY <1>2, <2>3, EnterDoes
    <3> QED
      BY CallerNames, SessionFacts, <2>1, <3>1, SMTT(20)
  <2> QED
    BY <2>2, <2>3
<1>3. ASSUME NEW c \in Callers, Send(c) PROVE CallsTyped'
  <2>1. /\ at[c] = "checked" /\ lock = "free"
        /\ UNCHANGED <<server, up, store, entry, leave, history>>
    BY <1>3, SendDoes
  <2>2. CASE Returned(c)
    BY CallerNames, SessionFacts, <2>1, <2>2, SMTT(20) DEF Returned
  <2>3. CASE ~Returned(c)
    <3>1. /\ mem # None
          /\ at' = [at EXCEPT ![c] = "sent"]
          /\ token' = [token EXCEPT ![c] = mem.pair]
          /\ UNCHANGED <<stale, reply, ui>>
      BY <1>3, <2>3, SendDoes
    <3> QED
      BY CallerNames, SessionFacts, <2>1, <3>1, SMTT(20)
  <2> QED
    BY <2>2, <2>3
<1>4. ASSUME NEW c \in Callers, Answered(c) PROVE CallsTyped'
  <2>1. /\ at[c] = "answered" /\ lock = "free"
        /\ UNCHANGED <<server, up, disk, entry, leave, history>>
    BY <1>4, AnsweredDoes
  <2>2. CASE Returned(c) /\ UNCHANGED <<mem, lock>>
    BY CallerNames, SessionFacts, <2>1, <2>2, SMTT(20) DEF Returned
  <2>3. CASE ~(Returned(c) /\ UNCHANGED <<mem, lock>>)
    <3>1. /\ reply[c] # 0 /\ mem # None
          /\ mem' = [mem EXCEPT !.pair = reply[c]]
          /\ lock' = c
          /\ at' = [at EXCEPT ![c] = "write"]
          /\ UNCHANGED <<stale, token, reply, ui>>
      BY <1>4, <2>3, AnsweredDoes
    <3> QED
      BY CallerNames, SessionFacts, <2>1, <3>1, SMTT(20)
  <2> QED
    BY <2>2, <2>3
<1>5. ASSUME NEW c \in Callers, Write(c) PROVE CallsTyped'
  <2>1. /\ at[c] = "write" /\ lock' = "free"
        /\ UNCHANGED <<server, up, mem, entry, leave, ended, fault, race>>
        /\ Returned(c)
        /\ disk' \in {mem, disk}
        /\ ~unsaved' => disk' = mem
    BY <1>5, WriteDoes
  <2> QED
    BY CallerNames, SessionFacts, <2>1, SMTT(20) DEF Returned
<1>6. ASSUME NEW c \in Callers, Lost(c) PROVE CallsTyped'
  <2>1. Returned(c) /\ UNCHANGED root
    BY <1>6, LostDoes
  <2> QED
    BY <2>1, SMTT(20) DEF Returned
<1>7. ASSUME NEW c \in Callers, Rotate(c) PROVE CallsTyped'
  <2>1. /\ token[c] \in 1 .. Len(root) /\ Len(root) + 1 <= MaxPairs
        /\ root' \in Seq(1 .. MaxPairs)
        /\ Len(root') = Len(root) + 1
        /\ root'[Len(root) + 1] = root[token[c]]
        /\ \A p \in 1 .. Len(root) : root'[p] = root[p]
    BY <1>7, RotateDoes
  <2>2. UNCHANGED <<stale, token>> /\ reply' = [reply EXCEPT ![c] = Len(root) + 1]
    BY <1>7 DEF Rotate
  <2>3. Len(root) \in Nat
    BY DEF ServerTyped
  <2> QED
    BY <2>1, <2>2, <2>3, SMTT(20)
<1>8. ASSUME NEW c \in Callers, Refuse(c) PROVE CallsTyped'
  BY CallerNames, SessionFacts, <1>8, SMTT(20) DEF Refuse, Goes
<1>9. CASE Launch
  BY CallerNames, SessionFacts, <1>9, SMTT(20) DEF Launch, Goes
<1>10. CASE Reload
  BY CallerNames, SessionFacts, <1>10, SMTT(20) DEF Reload, Goes
<1>11. CASE ReadFile
  BY CallerNames, SessionFacts, <1>11, SMTT(20) DEF ReadFile, Goes
<1>12. CASE ResetMemory
  <2>1. /\ at["restore"] = "reset" /\ lock = "free"
        /\ mem' = found
        /\ ~race' => ~race /\ found = disk /\ mem = disk
        /\ UNCHANGED <<server, up, disk, lock, entry, leave, ended, unsaved, fault>>
    BY <1>12, ResetDoes
  <2>2. CASE Returned("restore")
    BY CallerNames, SessionFacts, <2>1, <2>2, SMTT(20) DEF Returned
  <2>3. CASE ~Returned("restore")
    <3>1. /\ found # None
          /\ at' = [at EXCEPT !["restore"] = "queued"]
          /\ stale' = [stale EXCEPT !["restore"] = found.pair]
          /\ UNCHANGED <<token, reply, ui>>
      BY <1>12, <2>3, ResetDoes
    <3> QED
      BY CallerNames, SessionFacts, <2>1, <3>1, SMTT(20)
  <2> QED
    BY <2>2, <2>3
<1>13. CASE BeginLogin
  <2>1. /\ root' \in Seq(1 .. MaxPairs)
        /\ Len(root') = Len(root) + 1 /\ Len(root') <= MaxPairs
        /\ root'[Len(root) + 1] = Len(root) + 1
        /\ \A p \in 1 .. Len(root) : root'[p] = root[p]
    BY <1>13, LoginDoes
  <2>2. UNCHANGED <<stale, token, reply>>
    BY <1>13 DEF BeginLogin
  <2>3. Len(root) \in Nat
    BY DEF ServerTyped
  <2> QED
    BY <2>1, <2>2, <2>3, SMTT(20)
<1>14. CASE SaveFile
  BY CallerNames, SessionFacts, <1>14, SMTT(20) DEF SaveFile, LockFree
<1>15. CASE SaveMemory
  BY CallerNames, SessionFacts, <1>15, SMTT(20) DEF SaveMemory, RenewalUnderWay
<1>16. CASE BeginLogout
  BY CallerNames, SessionFacts, <1>16, SMTT(20) DEF BeginLogout, LockFree
<1>17. CASE Revoke
  BY CallerNames, SessionFacts, <1>17, SMTT(20) DEF Revoke
<1>18. CASE ClearMemory
  BY CallerNames, SessionFacts, <1>18, SMTT(20) DEF ClearMemory, LockFree
<1>19. CASE RemoveFile
  BY CallerNames, SessionFacts, <1>19, SMTT(20) DEF RemoveFile
<1>20. CASE Crash
  BY CallerNames, SessionFacts, <1>20, SMTT(20) DEF Crash
<1>21. CASE UNCHANGED vars
  BY CallerNames, SessionFacts, <1>21, SMTT(20) DEF vars
<1> QED
  BY <1>1, <1>2, <1>3, <1>4, <1>5, <1>6, <1>7, <1>8, <1>9, <1>10, <1>11, <1>12,
     <1>13, <1>14, <1>15, <1>16, <1>17, <1>18, <1>19, <1>20, <1>21
     DEF Next, CallStep, RestoreStep, LoginStep, LogoutStep

(* The lock is held across a file operation, and only then. *)
LEMMA LockInductive == PlacesTyped /\ LockIsHeld /\ [Next]_vars => LockIsHeld'
<1> SUFFICES ASSUME PlacesTyped, LockIsHeld, [Next]_vars PROVE LockIsHeld'
  OBVIOUS
<1> USE DEF PlacesTyped, Steps, Waiting, Holding, LockIsHeld, server, store, callers,
         ui, entry, leave, history
<1>1. CASE Expired
  BY CallerNames, <1>1, SMTT(20) DEF Expired, LockFree, Goes
<1>2. ASSUME NEW c \in Callers, Enter(c) PROVE LockIsHeld'
  <2>1. /\ at[c] = "queued" /\ lock = "free"
        /\ UNCHANGED <<server, up, store, entry, leave, history>>
    BY <1>2, EnterDoes
  <2>2. CASE Returned(c)
    BY CallerNames, <2>1, <2>2, SMTT(20) DEF Returned
  <2>3. CASE ~Returned(c)
    <3>1. /\ at' = [at EXCEPT ![c] = "checked"]
          /\ stale' = [stale EXCEPT ![c] = 0]
          /\ UNCHANGED <<token, reply, ui>>
      BY <1>2, <2>3, EnterDoes
    <3> QED
      BY CallerNames, <2>1, <3>1, SMTT(20)
  <2> QED
    BY <2>2, <2>3
<1>3. ASSUME NEW c \in Callers, Send(c) PROVE LockIsHeld'
  <2>1. /\ at[c] = "checked" /\ lock = "free"
        /\ UNCHANGED <<server, up, store, entry, leave, history>>
    BY <1>3, SendDoes
  <2>2. CASE Returned(c)
    BY CallerNames, <2>1, <2>2, SMTT(20) DEF Returned
  <2>3. CASE ~Returned(c)
    <3>1. /\ mem # None
          /\ at' = [at EXCEPT ![c] = "sent"]
          /\ token' = [token EXCEPT ![c] = mem.pair]
          /\ UNCHANGED <<stale, reply, ui>>
      BY <1>3, <2>3, SendDoes
    <3> QED
      BY CallerNames, <2>1, <3>1, SMTT(20)
  <2> QED
    BY <2>2, <2>3
<1>4. ASSUME NEW c \in Callers, Answered(c) PROVE LockIsHeld'
  <2>1. /\ at[c] = "answered" /\ lock = "free"
        /\ UNCHANGED <<server, up, disk, entry, leave, history>>
    BY <1>4, AnsweredDoes
  <2>2. CASE Returned(c) /\ UNCHANGED <<mem, lock>>
    BY CallerNames, <2>1, <2>2, SMTT(20) DEF Returned
  <2>3. CASE ~(Returned(c) /\ UNCHANGED <<mem, lock>>)
    <3>1. /\ reply[c] # 0 /\ mem # None
          /\ mem' = [mem EXCEPT !.pair = reply[c]]
          /\ lock' = c
          /\ at' = [at EXCEPT ![c] = "write"]
          /\ UNCHANGED <<stale, token, reply, ui>>
      BY <1>4, <2>3, AnsweredDoes
    <3> QED
      BY CallerNames, <2>1, <3>1, SMTT(20)
  <2> QED
    BY <2>2, <2>3
<1>5. ASSUME NEW c \in Callers, Write(c) PROVE LockIsHeld'
  <2>1. /\ at[c] = "write" /\ lock' = "free"
        /\ UNCHANGED <<server, up, mem, entry, leave, ended, fault, race>>
        /\ Returned(c)
        /\ disk' \in {mem, disk}
        /\ ~unsaved' => disk' = mem
    BY <1>5, WriteDoes
  <2> QED
    BY CallerNames, <2>1, SMTT(20) DEF Returned
<1>6. ASSUME NEW c \in Callers, Lost(c) PROVE LockIsHeld'
  BY CallerNames, <1>6, SMTT(20) DEF Lost, Returns, Forgets, Goes
<1>7. ASSUME NEW c \in Callers, Rotate(c) PROVE LockIsHeld'
  BY CallerNames, <1>7, SMTT(20) DEF Rotate, CanIssue, Goes
<1>8. ASSUME NEW c \in Callers, Refuse(c) PROVE LockIsHeld'
  BY CallerNames, <1>8, SMTT(20) DEF Refuse, Goes
<1>9. CASE Launch
  BY CallerNames, <1>9, SMTT(20) DEF Launch, Goes
<1>10. CASE Reload
  BY CallerNames, <1>10, SMTT(20) DEF Reload, Goes
<1>11. CASE ReadFile
  BY CallerNames, <1>11, SMTT(20) DEF ReadFile, Goes
<1>12. CASE ResetMemory
  <2>1. /\ at["restore"] = "reset" /\ lock = "free"
        /\ mem' = found
        /\ ~race' => ~race /\ found = disk /\ mem = disk
        /\ UNCHANGED <<server, up, disk, lock, entry, leave, ended, unsaved, fault>>
    BY <1>12, ResetDoes
  <2>2. CASE Returned("restore")
    BY CallerNames, <2>1, <2>2, SMTT(20) DEF Returned
  <2>3. CASE ~Returned("restore")
    <3>1. /\ found # None
          /\ at' = [at EXCEPT !["restore"] = "queued"]
          /\ stale' = [stale EXCEPT !["restore"] = found.pair]
          /\ UNCHANGED <<token, reply, ui>>
      BY <1>12, <2>3, ResetDoes
    <3> QED
      BY CallerNames, <2>1, <3>1, SMTT(20)
  <2> QED
    BY <2>2, <2>3
<1>13. CASE BeginLogin
  BY CallerNames, <1>13, SMTT(20) DEF BeginLogin, CanIssue, Issue
<1>14. CASE SaveFile
  BY CallerNames, <1>14, SMTT(20) DEF SaveFile, LockFree
<1>15. CASE SaveMemory
  BY CallerNames, <1>15, SMTT(20) DEF SaveMemory, RenewalUnderWay
<1>16. CASE BeginLogout
  BY CallerNames, <1>16, SMTT(20) DEF BeginLogout, LockFree
<1>17. CASE Revoke
  BY CallerNames, <1>17, SMTT(20) DEF Revoke
<1>18. CASE ClearMemory
  BY CallerNames, <1>18, SMTT(20) DEF ClearMemory, LockFree
<1>19. CASE RemoveFile
  BY CallerNames, <1>19, SMTT(20) DEF RemoveFile
<1>20. CASE Crash
  BY CallerNames, <1>20, SMTT(20) DEF Crash
<1>21. CASE UNCHANGED vars
  BY CallerNames, <1>21, SMTT(20) DEF vars
<1> QED
  BY <1>1, <1>2, <1>3, <1>4, <1>5, <1>6, <1>7, <1>8, <1>9, <1>10, <1>11, <1>12,
     <1>13, <1>14, <1>15, <1>16, <1>17, <1>18, <1>19, <1>20, <1>21
     DEF Next, CallStep, RestoreStep, LoginStep, LogoutStep

(* What is half done stays so until the lock is released. *)
LEMMA HalfDoneInductive ==
    PlacesTyped /\ ServerTyped /\ SessionsTyped /\ CallsTyped /\ LockIsHeld
      /\ HalfDone /\ [Next]_vars => HalfDone'
<1> SUFFICES ASSUME PlacesTyped, ServerTyped, SessionsTyped, CallsTyped, LockIsHeld,
                    HalfDone, [Next]_vars
             PROVE  HalfDone'
  OBVIOUS
<1> USE DEF PlacesTyped, Steps, Waiting, Holding, ServerTyped, SessionsTyped, Issued,
         CallsTyped, LockIsHeld, HalfDone, Granted, server, store, callers, ui,
         entry, leave, history
<1>1. CASE Expired
  BY CallerNames, SessionFacts, <1>1, SMTT(20) DEF Expired, LockFree, Goes
<1>2. ASSUME NEW c \in Callers, Enter(c) PROVE HalfDone'
  <2>1. /\ at[c] = "queued" /\ lock = "free"
        /\ UNCHANGED <<server, up, store, entry, leave, history>>
    BY <1>2, EnterDoes
  <2>2. CASE Returned(c)
    BY CallerNames, SessionFacts, <2>1, <2>2, SMTT(20) DEF Returned
  <2>3. CASE ~Returned(c)
    <3>1. /\ at' = [at EXCEPT ![c] = "checked"]
          /\ stale' = [stale EXCEPT ![c] = 0]
          /\ UNCHANGED <<token, reply, ui>>
      BY <1>2, <2>3, EnterDoes
    <3> QED
      BY CallerNames, SessionFacts, <2>1, <3>1, SMTT(20)
  <2> QED
    BY <2>2, <2>3
<1>3. ASSUME NEW c \in Callers, Send(c) PROVE HalfDone'
  <2>1. /\ at[c] = "checked" /\ lock = "free"
        /\ UNCHANGED <<server, up, store, entry, leave, history>>
    BY <1>3, SendDoes
  <2>2. CASE Returned(c)
    BY CallerNames, SessionFacts, <2>1, <2>2, SMTT(20) DEF Returned
  <2>3. CASE ~Returned(c)
    <3>1. /\ mem # None
          /\ at' = [at EXCEPT ![c] = "sent"]
          /\ token' = [token EXCEPT ![c] = mem.pair]
          /\ UNCHANGED <<stale, reply, ui>>
      BY <1>3, <2>3, SendDoes
    <3> QED
      BY CallerNames, SessionFacts, <2>1, <3>1, SMTT(20)
  <2> QED
    BY <2>2, <2>3
<1>4. ASSUME NEW c \in Callers, Answered(c) PROVE HalfDone'
  <2>1. /\ at[c] = "answered" /\ lock = "free"
        /\ UNCHANGED <<server, up, disk, entry, leave, history>>
    BY <1>4, AnsweredDoes
  <2>2. CASE Returned(c) /\ UNCHANGED <<mem, lock>>
    BY CallerNames, SessionFacts, <2>1, <2>2, SMTT(20) DEF Returned
  <2>3. CASE ~(Returned(c) /\ UNCHANGED <<mem, lock>>)
    <3>1. /\ reply[c] # 0 /\ mem # None
          /\ mem' = [mem EXCEPT !.pair = reply[c]]
          /\ lock' = c
          /\ at' = [at EXCEPT ![c] = "write"]
          /\ UNCHANGED <<stale, token, reply, ui>>
      BY <1>4, <2>3, AnsweredDoes
    <3> QED
      BY CallerNames, SessionFacts, <2>1, <3>1, SMTT(20)
  <2> QED
    BY <2>2, <2>3
<1>5. ASSUME NEW c \in Callers, Write(c) PROVE HalfDone'
  <2>1. /\ at[c] = "write" /\ lock' = "free"
        /\ UNCHANGED <<server, up, mem, entry, leave, ended, fault, race>>
        /\ Returned(c)
        /\ disk' \in {mem, disk}
        /\ ~unsaved' => disk' = mem
    BY <1>5, WriteDoes
  <2> QED
    BY CallerNames, SessionFacts, <2>1, SMTT(20) DEF Returned
<1>6. ASSUME NEW c \in Callers, Lost(c) PROVE HalfDone'
  BY CallerNames, SessionFacts, <1>6, SMTT(20) DEF Lost, Returns, Forgets, Goes
<1>7. ASSUME NEW c \in Callers, Rotate(c) PROVE HalfDone'
  BY CallerNames, SessionFacts, <1>7, SMTT(20) DEF Rotate, CanIssue, Goes
<1>8. ASSUME NEW c \in Callers, Refuse(c) PROVE HalfDone'
  BY CallerNames, SessionFacts, <1>8, SMTT(20) DEF Refuse, Goes
<1>9. CASE Launch
  BY CallerNames, SessionFacts, <1>9, SMTT(20) DEF Launch, Goes
<1>10. CASE Reload
  BY CallerNames, SessionFacts, <1>10, SMTT(20) DEF Reload, Goes
<1>11. CASE ReadFile
  BY CallerNames, SessionFacts, <1>11, SMTT(20) DEF ReadFile, Goes
<1>12. CASE ResetMemory
  <2>1. /\ at["restore"] = "reset" /\ lock = "free"
        /\ mem' = found
        /\ ~race' => ~race /\ found = disk /\ mem = disk
        /\ UNCHANGED <<server, up, disk, lock, entry, leave, ended, unsaved, fault>>
    BY <1>12, ResetDoes
  <2>2. CASE Returned("restore")
    BY CallerNames, SessionFacts, <2>1, <2>2, SMTT(20) DEF Returned
  <2>3. CASE ~Returned("restore")
    <3>1. /\ found # None
          /\ at' = [at EXCEPT !["restore"] = "queued"]
          /\ stale' = [stale EXCEPT !["restore"] = found.pair]
          /\ UNCHANGED <<token, reply, ui>>
      BY <1>12, <2>3, ResetDoes
    <3> QED
      BY CallerNames, SessionFacts, <2>1, <3>1, SMTT(20)
  <2> QED
    BY <2>2, <2>3
<1>13. CASE BeginLogin
  BY CallerNames, SessionFacts, <1>13, SMTT(20) DEF BeginLogin, CanIssue, Issue
<1>14. CASE SaveFile
  BY CallerNames, SessionFacts, <1>14, SMTT(20) DEF SaveFile, LockFree
<1>15. CASE SaveMemory
  BY CallerNames, SessionFacts, <1>15, SMTT(20) DEF SaveMemory, RenewalUnderWay
<1>16. CASE BeginLogout
  BY CallerNames, SessionFacts, <1>16, SMTT(20) DEF BeginLogout, LockFree
<1>17. CASE Revoke
  BY CallerNames, SessionFacts, <1>17, SMTT(20) DEF Revoke
<1>18. CASE ClearMemory
  BY CallerNames, SessionFacts, <1>18, SMTT(20) DEF ClearMemory, LockFree
<1>19. CASE RemoveFile
  BY CallerNames, SessionFacts, <1>19, SMTT(20) DEF RemoveFile
<1>20. CASE Crash
  BY CallerNames, SessionFacts, <1>20, SMTT(20) DEF Crash
<1>21. CASE UNCHANGED vars
  BY CallerNames, SessionFacts, <1>21, SMTT(20) DEF vars
<1> QED
  BY <1>1, <1>2, <1>3, <1>4, <1>5, <1>6, <1>7, <1>8, <1>9, <1>10, <1>11, <1>12,
     <1>13, <1>14, <1>15, <1>16, <1>17, <1>18, <1>19, <1>20, <1>21
     DEF Next, CallStep, RestoreStep, LoginStep, LogoutStep

(* Memory and file agree again when the lock is released. *)
LEMMA AgreementInductive ==
    PlacesTyped /\ SessionsTyped /\ LockIsHeld /\ HalfDone /\ MemoryAgreesWithFile
      /\ [Next]_vars => MemoryAgreesWithFile'
<1> SUFFICES ASSUME PlacesTyped, SessionsTyped, LockIsHeld, HalfDone,
                    MemoryAgreesWithFile, [Next]_vars
             PROVE  MemoryAgreesWithFile'
  OBVIOUS
<1> USE DEF PlacesTyped, Steps, Waiting, Holding, SessionsTyped, Issued, LockIsHeld,
         HalfDone, Granted, MemoryAgreesWithFile, LockFree, server, store, callers,
         ui, entry, leave, history
<1>1. CASE Expired
  BY CallerNames, SessionFacts, <1>1, SMTT(20) DEF Expired, Goes
<1>2. ASSUME NEW c \in Callers, Enter(c) PROVE MemoryAgreesWithFile'
  <2>1. /\ at[c] = "queued" /\ lock = "free"
        /\ UNCHANGED <<server, up, store, entry, leave, history>>
    BY <1>2, EnterDoes
  <2>2. CASE Returned(c)
    BY CallerNames, SessionFacts, <2>1, <2>2, SMTT(20) DEF Returned
  <2>3. CASE ~Returned(c)
    <3>1. /\ at' = [at EXCEPT ![c] = "checked"]
          /\ stale' = [stale EXCEPT ![c] = 0]
          /\ UNCHANGED <<token, reply, ui>>
      BY <1>2, <2>3, EnterDoes
    <3> QED
      BY CallerNames, SessionFacts, <2>1, <3>1, SMTT(20)
  <2> QED
    BY <2>2, <2>3
<1>3. ASSUME NEW c \in Callers, Send(c) PROVE MemoryAgreesWithFile'
  <2>1. /\ at[c] = "checked" /\ lock = "free"
        /\ UNCHANGED <<server, up, store, entry, leave, history>>
    BY <1>3, SendDoes
  <2>2. CASE Returned(c)
    BY CallerNames, SessionFacts, <2>1, <2>2, SMTT(20) DEF Returned
  <2>3. CASE ~Returned(c)
    <3>1. /\ mem # None
          /\ at' = [at EXCEPT ![c] = "sent"]
          /\ token' = [token EXCEPT ![c] = mem.pair]
          /\ UNCHANGED <<stale, reply, ui>>
      BY <1>3, <2>3, SendDoes
    <3> QED
      BY CallerNames, SessionFacts, <2>1, <3>1, SMTT(20)
  <2> QED
    BY <2>2, <2>3
<1>4. ASSUME NEW c \in Callers, Answered(c) PROVE MemoryAgreesWithFile'
  <2>1. /\ at[c] = "answered" /\ lock = "free"
        /\ UNCHANGED <<server, up, disk, entry, leave, history>>
    BY <1>4, AnsweredDoes
  <2>2. CASE Returned(c) /\ UNCHANGED <<mem, lock>>
    BY CallerNames, SessionFacts, <2>1, <2>2, SMTT(20) DEF Returned
  <2>3. CASE ~(Returned(c) /\ UNCHANGED <<mem, lock>>)
    <3>1. /\ reply[c] # 0 /\ mem # None
          /\ mem' = [mem EXCEPT !.pair = reply[c]]
          /\ lock' = c
          /\ at' = [at EXCEPT ![c] = "write"]
          /\ UNCHANGED <<stale, token, reply, ui>>
      BY <1>4, <2>3, AnsweredDoes
    <3> QED
      BY CallerNames, SessionFacts, <2>1, <3>1, SMTT(20)
  <2> QED
    BY <2>2, <2>3
<1>5. ASSUME NEW c \in Callers, Write(c) PROVE MemoryAgreesWithFile'
  <2>1. /\ at[c] = "write" /\ lock' = "free"
        /\ UNCHANGED <<server, up, mem, entry, leave, ended, fault, race>>
        /\ Returned(c)
        /\ disk' \in {mem, disk}
        /\ ~unsaved' => disk' = mem
    BY <1>5, WriteDoes
  <2> QED
    BY CallerNames, SessionFacts, <2>1, SMTT(20) DEF Returned
<1>6. ASSUME NEW c \in Callers, Lost(c) PROVE MemoryAgreesWithFile'
  BY CallerNames, SessionFacts, <1>6, SMTT(20) DEF Lost, Returns, Forgets, Goes
<1>7. ASSUME NEW c \in Callers, Rotate(c) PROVE MemoryAgreesWithFile'
  BY CallerNames, SessionFacts, <1>7, SMTT(20) DEF Rotate, CanIssue, Goes
<1>8. ASSUME NEW c \in Callers, Refuse(c) PROVE MemoryAgreesWithFile'
  BY CallerNames, SessionFacts, <1>8, SMTT(20) DEF Refuse, Goes
<1>9. CASE Launch
  BY CallerNames, SessionFacts, <1>9, SMTT(20) DEF Launch, Goes
<1>10. CASE Reload
  BY CallerNames, SessionFacts, <1>10, SMTT(20) DEF Reload, Goes
<1>11. CASE ReadFile
  BY CallerNames, SessionFacts, <1>11, SMTT(20) DEF ReadFile, Goes
<1>12. CASE ResetMemory
  <2>1. /\ at["restore"] = "reset" /\ lock = "free"
        /\ mem' = found
        /\ ~race' => ~race /\ found = disk /\ mem = disk
        /\ UNCHANGED <<server, up, disk, lock, entry, leave, ended, unsaved, fault>>
    BY <1>12, ResetDoes
  <2>2. CASE Returned("restore")
    BY CallerNames, SessionFacts, <2>1, <2>2, SMTT(20) DEF Returned
  <2>3. CASE ~Returned("restore")
    <3>1. /\ found # None
          /\ at' = [at EXCEPT !["restore"] = "queued"]
          /\ stale' = [stale EXCEPT !["restore"] = found.pair]
          /\ UNCHANGED <<token, reply, ui>>
      BY <1>12, <2>3, ResetDoes
    <3> QED
      BY CallerNames, SessionFacts, <2>1, <3>1, SMTT(20)
  <2> QED
    BY <2>2, <2>3
<1>13. CASE BeginLogin
  BY CallerNames, SessionFacts, <1>13, SMTT(20) DEF BeginLogin, CanIssue, Issue
<1>14. CASE SaveFile
  BY CallerNames, SessionFacts, <1>14, SMTT(20) DEF SaveFile
<1>15. CASE SaveMemory
  BY CallerNames, SessionFacts, <1>15, SMTT(20) DEF SaveMemory, RenewalUnderWay
<1>16. CASE BeginLogout
  BY CallerNames, SessionFacts, <1>16, SMTT(20) DEF BeginLogout
<1>17. CASE Revoke
  BY CallerNames, SessionFacts, <1>17, SMTT(20) DEF Revoke
<1>18. CASE ClearMemory
  BY CallerNames, SessionFacts, <1>18, SMTT(20) DEF ClearMemory
<1>19. CASE RemoveFile
  BY CallerNames, SessionFacts, <1>19, SMTT(20) DEF RemoveFile
<1>20. CASE Crash
  BY CallerNames, SessionFacts, <1>20, SMTT(20) DEF Crash
<1>21. CASE UNCHANGED vars
  BY CallerNames, SessionFacts, <1>21, SMTT(20) DEF vars
<1> QED
  BY <1>1, <1>2, <1>3, <1>4, <1>5, <1>6, <1>7, <1>8, <1>9, <1>10, <1>11, <1>12,
     <1>13, <1>14, <1>15, <1>16, <1>17, <1>18, <1>19, <1>20, <1>21
     DEF Next, CallStep, RestoreStep, LoginStep, LogoutStep

(* A login that is being saved stays new. *)
LEMMA LoginInductive ==
    PlacesTyped /\ ServerTyped /\ SessionsTyped /\ CallsTyped /\ LockIsHeld
      /\ HalfDone /\ LoginIsNew /\ [Next]_vars => LoginIsNew'
<1> SUFFICES ASSUME PlacesTyped, ServerTyped, SessionsTyped, CallsTyped, LockIsHeld,
                    HalfDone, LoginIsNew, [Next]_vars
             PROVE  LoginIsNew'
  OBVIOUS
<1> USE DEF PlacesTyped, Steps, Waiting, Holding, ServerTyped, SessionsTyped, Issued,
         CallsTyped, LockIsHeld, HalfDone, Granted, LockFree, LoginIsNew, server,
         store, callers, ui, entry, leave, history
<1>1. CASE Expired
  BY CallerNames, SessionFacts, <1>1, SMTT(20) DEF Expired, Goes
<1>2. ASSUME NEW c \in Callers, Enter(c) PROVE LoginIsNew'
  <2>1. /\ at[c] = "queued" /\ lock = "free"
        /\ UNCHANGED <<server, up, store, entry, leave, history>>
    BY <1>2, EnterDoes
  <2>2. CASE Returned(c)
    BY CallerNames, SessionFacts, <2>1, <2>2, SMTT(20) DEF Returned
  <2>3. CASE ~Returned(c)
    <3>1. /\ at' = [at EXCEPT ![c] = "checked"]
          /\ stale' = [stale EXCEPT ![c] = 0]
          /\ UNCHANGED <<token, reply, ui>>
      BY <1>2, <2>3, EnterDoes
    <3> QED
      BY CallerNames, SessionFacts, <2>1, <3>1, SMTT(20)
  <2> QED
    BY <2>2, <2>3
<1>3. ASSUME NEW c \in Callers, Send(c) PROVE LoginIsNew'
  <2>1. /\ at[c] = "checked" /\ lock = "free"
        /\ UNCHANGED <<server, up, store, entry, leave, history>>
    BY <1>3, SendDoes
  <2>2. CASE Returned(c)
    BY CallerNames, SessionFacts, <2>1, <2>2, SMTT(20) DEF Returned
  <2>3. CASE ~Returned(c)
    <3>1. /\ mem # None
          /\ at' = [at EXCEPT ![c] = "sent"]
          /\ token' = [token EXCEPT ![c] = mem.pair]
          /\ UNCHANGED <<stale, reply, ui>>
      BY <1>3, <2>3, SendDoes
    <3> QED
      BY CallerNames, SessionFacts, <2>1, <3>1, SMTT(20)
  <2> QED
    BY <2>2, <2>3
<1>4. ASSUME NEW c \in Callers, Answered(c) PROVE LoginIsNew'
  <2>1. /\ at[c] = "answered" /\ lock = "free"
        /\ UNCHANGED <<server, up, disk, entry, leave, history>>
    BY <1>4, AnsweredDoes
  <2>2. CASE Returned(c) /\ UNCHANGED <<mem, lock>>
    BY CallerNames, SessionFacts, <2>1, <2>2, SMTT(20) DEF Returned
  <2>3. CASE ~(Returned(c) /\ UNCHANGED <<mem, lock>>)
    <3>1. /\ reply[c] # 0 /\ mem # None
          /\ mem' = [mem EXCEPT !.pair = reply[c]]
          /\ lock' = c
          /\ at' = [at EXCEPT ![c] = "write"]
          /\ UNCHANGED <<stale, token, reply, ui>>
      BY <1>4, <2>3, AnsweredDoes
    <3> QED
      BY CallerNames, SessionFacts, <2>1, <3>1, SMTT(20)
  <2> QED
    BY <2>2, <2>3
<1>5. ASSUME NEW c \in Callers, Write(c) PROVE LoginIsNew'
  <2>1. /\ at[c] = "write" /\ lock' = "free"
        /\ UNCHANGED <<server, up, mem, entry, leave, ended, fault, race>>
        /\ Returned(c)
        /\ disk' \in {mem, disk}
        /\ ~unsaved' => disk' = mem
    BY <1>5, WriteDoes
  <2> QED
    BY CallerNames, SessionFacts, <2>1, SMTT(20) DEF Returned
<1>6. ASSUME NEW c \in Callers, Lost(c) PROVE LoginIsNew'
  <2>1. /\ Returned(c)
        /\ UNCHANGED <<root, up, store, entry, ended, race>>
    BY <1>6, LostDoes
  <2> QED
    BY <2>1, SessionFacts, SMTT(20) DEF Returned
<1>7. ASSUME NEW c \in Callers, Rotate(c) PROVE LoginIsNew'
  <2>1. /\ token[c] \in 1 .. Len(root) /\ Len(root) + 1 <= MaxPairs
        /\ root' \in Seq(1 .. MaxPairs)
        /\ Len(root') = Len(root) + 1
        /\ root'[Len(root) + 1] = root[token[c]]
        /\ \A p \in 1 .. Len(root) : root'[p] = root[p]
    BY <1>7, RotateDoes
  <2>2. /\ UNCHANGED <<up, mem, disk, token, found, login, granted, ended, race>>
        /\ at[c] = "sent"
        /\ at' = [at EXCEPT ![c] = "answered"]
        /\ reply' = [reply EXCEPT ![c] = Len(root) + 1]
    BY <1>7 DEF Rotate, Goes
  <2> QED
    BY SessionFacts, <2>1, <2>2, SMTT(20)
<1>8. ASSUME NEW c \in Callers, Refuse(c) PROVE LoginIsNew'
  <2>1. /\ UNCHANGED <<root, up, mem, disk, token, reply, found, login, granted, ended, race>>
        /\ at[c] = "sent"
        /\ at' = [at EXCEPT ![c] = "answered"]
    BY <1>8 DEF Refuse, Goes
  <2> QED
    BY <2>1, SMTT(20)
<1>9. CASE Launch
  BY CallerNames, SessionFacts, <1>9, SMTT(20) DEF Launch, Goes
<1>10. CASE Reload
  BY CallerNames, SessionFacts, <1>10, SMTT(20) DEF Reload, Goes
<1>11. CASE ReadFile
  BY CallerNames, SessionFacts, <1>11, SMTT(20) DEF ReadFile, Goes
<1>12. CASE ResetMemory
  <2>1. /\ at["restore"] = "reset" /\ lock = "free"
        /\ mem' = found
        /\ ~race' => ~race /\ found = disk /\ mem = disk
        /\ UNCHANGED <<server, up, disk, lock, entry, leave, ended, unsaved, fault>>
    BY <1>12, ResetDoes
  <2>2. CASE Returned("restore")
    BY CallerNames, SessionFacts, <2>1, <2>2, SMTT(20) DEF Returned
  <2>3. CASE ~Returned("restore")
    <3>1. /\ found # None
          /\ at' = [at EXCEPT !["restore"] = "queued"]
          /\ stale' = [stale EXCEPT !["restore"] = found.pair]
          /\ UNCHANGED <<token, reply, ui>>
      BY <1>12, <2>3, ResetDoes
    <3> QED
      BY CallerNames, SessionFacts, <2>1, <3>1, SMTT(20)
  <2> QED
    BY <2>2, <2>3
<1>13. CASE BeginLogin
  <2>1. /\ root' \in Seq(1 .. MaxPairs)
        /\ Len(root') = Len(root) + 1 /\ Len(root') <= MaxPairs
        /\ root'[Len(root) + 1] = Len(root) + 1
        /\ \A p \in 1 .. Len(root) : root'[p] = root[p]
    BY <1>13, LoginDoes
  <2>2. /\ UNCHANGED <<up, mem, disk, at, token, reply, found, ended, race>>
        /\ granted' = Len(root) + 1 /\ login' = "save"
    BY <1>13 DEF BeginLogin
  <2> QED
    BY SessionFacts, <2>1, <2>2, SMTT(20)
<1>14. CASE SaveFile
  BY CallerNames, SessionFacts, <1>14, SMTT(20) DEF SaveFile
<1>15. CASE SaveMemory
  BY CallerNames, SessionFacts, <1>15, SMTT(20) DEF SaveMemory, RenewalUnderWay
<1>16. CASE BeginLogout
  BY CallerNames, SessionFacts, <1>16, SMTT(20) DEF BeginLogout
<1>17. CASE Revoke
  BY CallerNames, SessionFacts, <1>17, SMTT(20) DEF Revoke
<1>18. CASE ClearMemory
  BY CallerNames, SessionFacts, <1>18, SMTT(20) DEF ClearMemory
<1>19. CASE RemoveFile
  BY CallerNames, SessionFacts, <1>19, SMTT(20) DEF RemoveFile
<1>20. CASE Crash
  BY CallerNames, SessionFacts, <1>20, SMTT(20) DEF Crash
<1>21. CASE UNCHANGED vars
  BY CallerNames, SessionFacts, <1>21, SMTT(20) DEF vars
<1> QED
  BY <1>1, <1>2, <1>3, <1>4, <1>5, <1>6, <1>7, <1>8, <1>9, <1>10, <1>11, <1>12,
     <1>13, <1>14, <1>15, <1>16, <1>17, <1>18, <1>19, <1>20, <1>21
     DEF Next, CallStep, RestoreStep, LoginStep, LogoutStep

(* Only an answered call has a reply. *)
LEMMA RepliesInductive ==
    PlacesTyped /\ CallsTyped /\ LockIsHeld /\ Replied /\ [Next]_vars => Replied'
<1> SUFFICES ASSUME PlacesTyped, CallsTyped, LockIsHeld, Replied, [Next]_vars
             PROVE  Replied'
  OBVIOUS
<1> USE DEF PlacesTyped, Steps, Waiting, Holding, CallsTyped, LockIsHeld, Replied,
         server, store, callers, ui, entry, leave, history
<1>1. CASE Expired
  BY CallerNames, SessionFacts, <1>1, SMTT(20) DEF Expired, LockFree, Goes
<1>2. ASSUME NEW c \in Callers, Enter(c) PROVE Replied'
  <2>1. /\ at[c] = "queued" /\ lock = "free"
        /\ UNCHANGED <<server, up, store, entry, leave, history>>
    BY <1>2, EnterDoes
  <2>2. CASE Returned(c)
    BY CallerNames, SessionFacts, <2>1, <2>2, SMTT(20) DEF Returned
  <2>3. CASE ~Returned(c)
    <3>1. /\ at' = [at EXCEPT ![c] = "checked"]
          /\ stale' = [stale EXCEPT ![c] = 0]
          /\ UNCHANGED <<token, reply, ui>>
      BY <1>2, <2>3, EnterDoes
    <3> QED
      BY CallerNames, SessionFacts, <2>1, <3>1, SMTT(20)
  <2> QED
    BY <2>2, <2>3
<1>3. ASSUME NEW c \in Callers, Send(c) PROVE Replied'
  <2>1. /\ at[c] = "checked" /\ lock = "free"
        /\ UNCHANGED <<server, up, store, entry, leave, history>>
    BY <1>3, SendDoes
  <2>2. CASE Returned(c)
    BY CallerNames, SessionFacts, <2>1, <2>2, SMTT(20) DEF Returned
  <2>3. CASE ~Returned(c)
    <3>1. /\ mem # None
          /\ at' = [at EXCEPT ![c] = "sent"]
          /\ token' = [token EXCEPT ![c] = mem.pair]
          /\ UNCHANGED <<stale, reply, ui>>
      BY <1>3, <2>3, SendDoes
    <3> QED
      BY CallerNames, SessionFacts, <2>1, <3>1, SMTT(20)
  <2> QED
    BY <2>2, <2>3
<1>4. ASSUME NEW c \in Callers, Answered(c) PROVE Replied'
  <2>1. /\ at[c] = "answered" /\ lock = "free"
        /\ UNCHANGED <<server, up, disk, entry, leave, history>>
    BY <1>4, AnsweredDoes
  <2>2. CASE Returned(c) /\ UNCHANGED <<mem, lock>>
    BY CallerNames, SessionFacts, <2>1, <2>2, SMTT(20) DEF Returned
  <2>3. CASE ~(Returned(c) /\ UNCHANGED <<mem, lock>>)
    <3>1. /\ reply[c] # 0 /\ mem # None
          /\ mem' = [mem EXCEPT !.pair = reply[c]]
          /\ lock' = c
          /\ at' = [at EXCEPT ![c] = "write"]
          /\ UNCHANGED <<stale, token, reply, ui>>
      BY <1>4, <2>3, AnsweredDoes
    <3> QED
      BY CallerNames, SessionFacts, <2>1, <3>1, SMTT(20)
  <2> QED
    BY <2>2, <2>3
<1>5. ASSUME NEW c \in Callers, Write(c) PROVE Replied'
  <2>1. /\ at[c] = "write" /\ lock' = "free"
        /\ UNCHANGED <<server, up, mem, entry, leave, ended, fault, race>>
        /\ Returned(c)
        /\ disk' \in {mem, disk}
        /\ ~unsaved' => disk' = mem
    BY <1>5, WriteDoes
  <2> QED
    BY CallerNames, SessionFacts, <2>1, SMTT(20) DEF Returned
<1>6. ASSUME NEW c \in Callers, Lost(c) PROVE Replied'
  <2>1. /\ Returned(c)
        /\ UNCHANGED <<root, up, store, entry, ended, race>>
    BY <1>6, LostDoes
  <2> QED
    BY <2>1, SessionFacts, SMTT(20) DEF Returned
<1>7. ASSUME NEW c \in Callers, Rotate(c) PROVE Replied'
  <2>1. \A d \in Callers \ {c} : at'[d] = at[d] /\ reply'[d] = reply[d]
    BY <1>7 DEF Rotate, Goes
  <2>2. at'[c] = "answered"
    BY <1>7 DEF Rotate, Goes
  <2> QED
    BY <2>1, <2>2
<1>8. ASSUME NEW c \in Callers, Refuse(c) PROVE Replied'
  <2>1. /\ UNCHANGED <<root, up, mem, disk, token, reply, found, login, granted, ended, race>>
        /\ at[c] = "sent"
        /\ at' = [at EXCEPT ![c] = "answered"]
    BY <1>8 DEF Refuse, Goes
  <2> QED
    BY <2>1, SMTT(20)
<1>9. CASE Launch
  BY CallerNames, SessionFacts, <1>9, SMTT(20) DEF Launch, Goes
<1>10. CASE Reload
  BY CallerNames, SessionFacts, <1>10, SMTT(20) DEF Reload, Goes
<1>11. CASE ReadFile
  BY CallerNames, SessionFacts, <1>11, SMTT(20) DEF ReadFile, Goes
<1>12. CASE ResetMemory
  <2>1. /\ at["restore"] = "reset" /\ lock = "free"
        /\ mem' = found
        /\ ~race' => ~race /\ found = disk /\ mem = disk
        /\ UNCHANGED <<server, up, disk, lock, entry, leave, ended, unsaved, fault>>
    BY <1>12, ResetDoes
  <2>2. CASE Returned("restore")
    BY CallerNames, SessionFacts, <2>1, <2>2, SMTT(20) DEF Returned
  <2>3. CASE ~Returned("restore")
    <3>1. /\ found # None
          /\ at' = [at EXCEPT !["restore"] = "queued"]
          /\ stale' = [stale EXCEPT !["restore"] = found.pair]
          /\ UNCHANGED <<token, reply, ui>>
      BY <1>12, <2>3, ResetDoes
    <3> QED
      BY CallerNames, SessionFacts, <2>1, <3>1, SMTT(20)
  <2> QED
    BY <2>2, <2>3
<1>13. CASE BeginLogin
  BY <1>13 DEF BeginLogin
<1>14. CASE SaveFile
  BY CallerNames, SessionFacts, <1>14, SMTT(20) DEF SaveFile, LockFree
<1>15. CASE SaveMemory
  BY CallerNames, SessionFacts, <1>15, SMTT(20) DEF SaveMemory, RenewalUnderWay
<1>16. CASE BeginLogout
  BY CallerNames, SessionFacts, <1>16, SMTT(20) DEF BeginLogout, LockFree
<1>17. CASE Revoke
  BY CallerNames, SessionFacts, <1>17, SMTT(20) DEF Revoke
<1>18. CASE ClearMemory
  BY CallerNames, SessionFacts, <1>18, SMTT(20) DEF ClearMemory, LockFree
<1>19. CASE RemoveFile
  BY CallerNames, SessionFacts, <1>19, SMTT(20) DEF RemoveFile
<1>20. CASE Crash
  BY CallerNames, SessionFacts, <1>20, SMTT(20) DEF Crash
<1>21. CASE UNCHANGED vars
  BY CallerNames, SessionFacts, <1>21, SMTT(20) DEF vars
<1> QED
  BY <1>1, <1>2, <1>3, <1>4, <1>5, <1>6, <1>7, <1>8, <1>9, <1>10, <1>11, <1>12,
     <1>13, <1>14, <1>15, <1>16, <1>17, <1>18, <1>19, <1>20, <1>21
     DEF Next, CallStep, RestoreStep, LoginStep, LogoutStep

(* No renewal revives a login that has ended. *)
LEMMA RenewalsInductive ==
    PlacesTyped /\ ServerTyped /\ SessionsTyped /\ CallsTyped /\ LockIsHeld
      /\ HalfDone /\ LoginIsNew /\ Replied /\ SessionsLive /\ RenewalsLive
      /\ [Next]_vars => RenewalsLive'
<1> SUFFICES ASSUME PlacesTyped, ServerTyped, SessionsTyped, CallsTyped, LockIsHeld,
                    HalfDone, LoginIsNew, Replied, SessionsLive, RenewalsLive,
                    [Next]_vars
             PROVE  RenewalsLive'
  OBVIOUS
<1> USE DEF PlacesTyped, Steps, Waiting, Holding, ServerTyped, SessionsTyped, Issued,
         CallsTyped, LockIsHeld, HalfDone, Granted, LockFree, LoginIsNew, Replied,
         RenewalsLive, SessionsLive, LogoutIsFinal, FileLives, server, store,
         callers, ui, entry, leave, history
<1>1. CASE Expired
  BY CallerNames, SessionFacts, <1>1, SMTT(20) DEF Expired, Goes
<1>2. ASSUME NEW c \in Callers, Enter(c) PROVE RenewalsLive'
  <2>1. /\ at[c] = "queued" /\ lock = "free"
        /\ UNCHANGED <<server, up, store, entry, leave, history>>
    BY <1>2, EnterDoes
  <2>2. CASE Returned(c)
    BY CallerNames, SessionFacts, <2>1, <2>2, SMTT(20) DEF Returned
  <2>3. CASE ~Returned(c)
    <3>1. /\ at' = [at EXCEPT ![c] = "checked"]
          /\ stale' = [stale EXCEPT ![c] = 0]
          /\ UNCHANGED <<token, reply, ui>>
      BY <1>2, <2>3, EnterDoes
    <3> QED
      BY CallerNames, SessionFacts, <2>1, <3>1, SMTT(20)
  <2> QED
    BY <2>2, <2>3
<1>3. ASSUME NEW c \in Callers, Send(c) PROVE RenewalsLive'
  <2>1. /\ at[c] = "checked" /\ lock = "free"
        /\ UNCHANGED <<server, up, store, entry, leave, history>>
    BY <1>3, SendDoes
  <2>2. CASE Returned(c)
    BY CallerNames, SessionFacts, <2>1, <2>2, SMTT(20) DEF Returned
  <2>3. CASE ~Returned(c)
    <3>1. /\ mem # None
          /\ at' = [at EXCEPT ![c] = "sent"]
          /\ token' = [token EXCEPT ![c] = mem.pair]
          /\ UNCHANGED <<stale, reply, ui>>
      BY <1>3, <2>3, SendDoes
    <3> QED
      BY CallerNames, SessionFacts, <2>1, <3>1, SMTT(20)
  <2> QED
    BY <2>2, <2>3
<1>4. ASSUME NEW c \in Callers, Answered(c) PROVE RenewalsLive'
  <2>1. /\ at[c] = "answered" /\ lock = "free"
        /\ UNCHANGED <<server, up, disk, entry, leave, history>>
    BY <1>4, AnsweredDoes
  <2>2. CASE Returned(c) /\ UNCHANGED <<mem, lock>>
    BY CallerNames, SessionFacts, <2>1, <2>2, SMTT(20) DEF Returned
  <2>3. CASE ~(Returned(c) /\ UNCHANGED <<mem, lock>>)
    <3>1. /\ reply[c] # 0 /\ mem # None
          /\ mem' = [mem EXCEPT !.pair = reply[c]]
          /\ lock' = c
          /\ at' = [at EXCEPT ![c] = "write"]
          /\ UNCHANGED <<stale, token, reply, ui>>
      BY <1>4, <2>3, AnsweredDoes
    <3> QED
      BY CallerNames, SessionFacts, <2>1, <3>1, SMTT(20)
  <2> QED
    BY <2>2, <2>3
<1>5. ASSUME NEW c \in Callers, Write(c) PROVE RenewalsLive'
  <2>1. /\ at[c] = "write" /\ lock' = "free"
        /\ UNCHANGED <<server, up, mem, entry, leave, ended, fault, race>>
        /\ Returned(c)
        /\ disk' \in {mem, disk}
        /\ ~unsaved' => disk' = mem
    BY <1>5, WriteDoes
  <2> QED
    BY CallerNames, SessionFacts, <2>1, SMTT(20) DEF Returned
<1>6. ASSUME NEW c \in Callers, Lost(c) PROVE RenewalsLive'
  <2>1. /\ Returned(c)
        /\ UNCHANGED <<root, up, store, entry, ended, race>>
    BY <1>6, LostDoes
  <2> QED
    BY <2>1, SessionFacts, SMTT(20) DEF Returned
<1>7. ASSUME NEW c \in Callers, Rotate(c) PROVE RenewalsLive'
  <2>1. /\ token[c] \in 1 .. Len(root) /\ Len(root) + 1 <= MaxPairs
        /\ root' \in Seq(1 .. MaxPairs)
        /\ Len(root') = Len(root) + 1
        /\ root'[Len(root) + 1] = root[token[c]]
        /\ \A p \in 1 .. Len(root) : root'[p] = root[p]
    BY <1>7, RotateDoes
  <2>2. /\ UNCHANGED <<up, mem, disk, token, found, login, granted, ended, race>>
        /\ at[c] = "sent"
        /\ at' = [at EXCEPT ![c] = "answered"]
        /\ reply' = [reply EXCEPT ![c] = Len(root) + 1]
    BY <1>7 DEF Rotate, Goes
  <2> SUFFICES ASSUME NEW d \in Callers, mem # None, ~race
               PROVE  /\ at'[d] = "sent" => token[d] # 0 /\ root'[token[d]] \notin ended
                      /\ at'[d] = "answered" /\ reply'[d] # 0 => root'[reply'[d]] \notin ended
    BY <2>2
  <2>3. CASE d = c
    <3>1. root[token[c]] \notin ended
      BY <2>2
    <3>2. at'[d] = "answered" /\ reply'[d] = Len(root) + 1
      BY <2>2, <2>3
    <3> QED
      BY <2>1, <3>1, <3>2
  <2>4. CASE d # c
    <3>1. at'[d] = at[d] /\ reply'[d] = reply[d]
      BY <2>2, <2>4
    <3>2. token[d] \in 0 .. Len(root) /\ reply[d] \in 0 .. Len(root) /\ Len(root) \in Nat
      OBVIOUS
    <3>3. token[d] # 0 => root'[token[d]] = root[token[d]]
      BY <2>1, <3>2, Kept
    <3>4. reply[d] # 0 => root'[reply[d]] = root[reply[d]]
      BY <2>1, <3>2, Kept
    <3> QED
      BY <3>1, <3>3, <3>4
  <2> QED
    BY <2>3, <2>4
<1>8. ASSUME NEW c \in Callers, Refuse(c) PROVE RenewalsLive'
  <2>1. /\ UNCHANGED <<root, up, mem, disk, token, reply, found, login, granted, ended, race>>
        /\ at[c] = "sent"
        /\ at' = [at EXCEPT ![c] = "answered"]
    BY <1>8 DEF Refuse, Goes
  <2> QED
    BY <2>1, SMTT(20)
<1>9. CASE Launch
  BY CallerNames, SessionFacts, <1>9, SMTT(20) DEF Launch, Goes
<1>10. CASE Reload
  BY CallerNames, SessionFacts, <1>10, SMTT(20) DEF Reload, Goes
<1>11. CASE ReadFile
  BY CallerNames, SessionFacts, <1>11, SMTT(20) DEF ReadFile, Goes
<1>12. CASE ResetMemory
  <2>1. /\ at["restore"] = "reset" /\ lock = "free"
        /\ mem' = found
        /\ ~race' => ~race /\ found = disk /\ mem = disk
        /\ UNCHANGED <<server, up, disk, lock, entry, leave, ended, unsaved, fault>>
    BY <1>12, ResetDoes
  <2>2. CASE Returned("restore")
    BY CallerNames, SessionFacts, <2>1, <2>2, SMTT(20) DEF Returned
  <2>3. CASE ~Returned("restore")
    <3>1. /\ found # None
          /\ at' = [at EXCEPT !["restore"] = "queued"]
          /\ stale' = [stale EXCEPT !["restore"] = found.pair]
          /\ UNCHANGED <<token, reply, ui>>
      BY <1>12, <2>3, ResetDoes
    <3> QED
      BY CallerNames, SessionFacts, <2>1, <3>1, SMTT(20)
  <2> QED
    BY <2>2, <2>3
<1>13. CASE BeginLogin
  <2>1. /\ root' \in Seq(1 .. MaxPairs)
        /\ Len(root') = Len(root) + 1 /\ Len(root') <= MaxPairs
        /\ root'[Len(root) + 1] = Len(root) + 1
        /\ \A p \in 1 .. Len(root) : root'[p] = root[p]
    BY <1>13, LoginDoes
  <2>2. /\ UNCHANGED <<up, mem, disk, at, token, reply, found, ended, race>>
        /\ granted' = Len(root) + 1 /\ login' = "save"
    BY <1>13 DEF BeginLogin
  <2> SUFFICES ASSUME NEW d \in Callers, mem # None, ~race
               PROVE  /\ at[d] = "sent" => token[d] # 0 /\ root'[token[d]] \notin ended
                      /\ at[d] = "answered" /\ reply[d] # 0 => root'[reply[d]] \notin ended
    BY <2>2
  <2>3. token[d] \in 0 .. Len(root) /\ reply[d] \in 0 .. Len(root) /\ Len(root) \in Nat
    OBVIOUS
  <2>4. token[d] # 0 => root'[token[d]] = root[token[d]]
    BY <2>1, <2>3, Kept
  <2>5. reply[d] # 0 => root'[reply[d]] = root[reply[d]]
    BY <2>1, <2>3, Kept
  <2> QED
    BY <2>4, <2>5
<1>14. CASE SaveFile
  BY CallerNames, SessionFacts, <1>14, SMTT(20) DEF SaveFile
<1>15. CASE SaveMemory
  BY CallerNames, SessionFacts, <1>15, SMTT(20) DEF SaveMemory, RenewalUnderWay
<1>16. CASE BeginLogout
  BY CallerNames, SessionFacts, <1>16, SMTT(20) DEF BeginLogout
<1>17. CASE Revoke
  BY CallerNames, SessionFacts, <1>17, SMTT(20) DEF Revoke
<1>18. CASE ClearMemory
  BY CallerNames, SessionFacts, <1>18, SMTT(20) DEF ClearMemory
<1>19. CASE RemoveFile
  BY CallerNames, SessionFacts, <1>19, SMTT(20) DEF RemoveFile
<1>20. CASE Crash
  BY CallerNames, SessionFacts, <1>20, SMTT(20) DEF Crash
<1>21. CASE UNCHANGED vars
  BY CallerNames, SessionFacts, <1>21, SMTT(20) DEF vars
<1> QED
  BY <1>1, <1>2, <1>3, <1>4, <1>5, <1>6, <1>7, <1>8, <1>9, <1>10, <1>11, <1>12,
     <1>13, <1>14, <1>15, <1>16, <1>17, <1>18, <1>19, <1>20, <1>21
     DEF Next, CallStep, RestoreStep, LoginStep, LogoutStep

(* No step brings back a pair of a login that has ended. *)
LEMMA SessionsLiveInductive ==
    PlacesTyped /\ ServerTyped /\ SessionsTyped /\ CallsTyped /\ LockIsHeld
      /\ HalfDone /\ LoginIsNew /\ RenewalsLive /\ SessionsLive
      /\ [Next]_vars => SessionsLive'
<1> SUFFICES ASSUME PlacesTyped, ServerTyped, SessionsTyped, CallsTyped, LockIsHeld,
                    HalfDone, LoginIsNew, RenewalsLive, SessionsLive, [Next]_vars
             PROVE  SessionsLive'
  OBVIOUS
<1> USE DEF PlacesTyped, Steps, Waiting, Holding, ServerTyped, SessionsTyped, Issued,
         CallsTyped, LockIsHeld, HalfDone, Granted, LockFree, LoginIsNew,
         RenewalsLive, SessionsLive, LogoutIsFinal, FileLives, server, store,
         callers, ui, entry, leave, history
<1>1. CASE Expired
  BY CallerNames, SessionFacts, <1>1, SMTT(20) DEF Expired, Goes
<1>2. ASSUME NEW c \in Callers, Enter(c) PROVE SessionsLive'
  <2>1. /\ at[c] = "queued" /\ lock = "free"
        /\ UNCHANGED <<server, up, store, entry, leave, history>>
    BY <1>2, EnterDoes
  <2>2. CASE Returned(c)
    BY CallerNames, SessionFacts, <2>1, <2>2, SMTT(20) DEF Returned
  <2>3. CASE ~Returned(c)
    <3>1. /\ at' = [at EXCEPT ![c] = "checked"]
          /\ stale' = [stale EXCEPT ![c] = 0]
          /\ UNCHANGED <<token, reply, ui>>
      BY <1>2, <2>3, EnterDoes
    <3> QED
      BY CallerNames, SessionFacts, <2>1, <3>1, SMTT(20)
  <2> QED
    BY <2>2, <2>3
<1>3. ASSUME NEW c \in Callers, Send(c) PROVE SessionsLive'
  <2>1. /\ at[c] = "checked" /\ lock = "free"
        /\ UNCHANGED <<server, up, store, entry, leave, history>>
    BY <1>3, SendDoes
  <2>2. CASE Returned(c)
    BY CallerNames, SessionFacts, <2>1, <2>2, SMTT(20) DEF Returned
  <2>3. CASE ~Returned(c)
    <3>1. /\ mem # None
          /\ at' = [at EXCEPT ![c] = "sent"]
          /\ token' = [token EXCEPT ![c] = mem.pair]
          /\ UNCHANGED <<stale, reply, ui>>
      BY <1>3, <2>3, SendDoes
    <3> QED
      BY CallerNames, SessionFacts, <2>1, <3>1, SMTT(20)
  <2> QED
    BY <2>2, <2>3
<1>4. ASSUME NEW c \in Callers, Answered(c) PROVE SessionsLive'
  <2>1. /\ at[c] = "answered" /\ lock = "free"
        /\ UNCHANGED <<server, up, disk, entry, leave, history>>
    BY <1>4, AnsweredDoes
  <2>2. CASE Returned(c) /\ UNCHANGED <<mem, lock>>
    BY CallerNames, SessionFacts, <2>1, <2>2, SMTT(20) DEF Returned
  <2>3. CASE ~(Returned(c) /\ UNCHANGED <<mem, lock>>)
    <3>1. /\ reply[c] # 0 /\ mem # None
          /\ mem' = [mem EXCEPT !.pair = reply[c]]
          /\ lock' = c
          /\ at' = [at EXCEPT ![c] = "write"]
          /\ UNCHANGED <<stale, token, reply, ui>>
      BY <1>4, <2>3, AnsweredDoes
    <3> QED
      BY CallerNames, SessionFacts, <2>1, <3>1, SMTT(20)
  <2> QED
    BY <2>2, <2>3
<1>5. ASSUME NEW c \in Callers, Write(c) PROVE SessionsLive'
  <2>1. /\ at[c] = "write" /\ lock' = "free"
        /\ UNCHANGED <<server, up, mem, entry, leave, ended, fault, race>>
        /\ Returned(c)
        /\ disk' \in {mem, disk}
        /\ ~unsaved' => disk' = mem
    BY <1>5, WriteDoes
  <2> QED
    BY CallerNames, SessionFacts, <2>1, SMTT(20) DEF Returned
<1>6. ASSUME NEW c \in Callers, Lost(c) PROVE SessionsLive'
  <2>1. /\ Returned(c)
        /\ UNCHANGED <<root, up, store, entry, ended, race>>
    BY <1>6, LostDoes
  <2> QED
    BY <2>1, SessionFacts, SMTT(20) DEF Returned
<1>7. ASSUME NEW c \in Callers, Rotate(c) PROVE SessionsLive'
  <2>1. /\ token[c] \in 1 .. Len(root) /\ Len(root) + 1 <= MaxPairs
        /\ root' \in Seq(1 .. MaxPairs)
        /\ Len(root') = Len(root) + 1
        /\ root'[Len(root) + 1] = root[token[c]]
        /\ \A p \in 1 .. Len(root) : root'[p] = root[p]
    BY <1>7, RotateDoes
  <2>2. UNCHANGED <<up, mem, disk, ended, race>>
    BY <1>7 DEF Rotate
  <2>3. /\ mem.pair \in 0 .. Len(root) /\ disk.pair \in 0 .. Len(root)
        /\ mem # None => mem.pair # 0
        /\ disk # None => disk.pair # 0
    BY SessionFacts
  <2> Len(root) \in Nat
    OBVIOUS
  <2>4. mem # None => root'[mem.pair] = root[mem.pair]
    BY <2>1, <2>3, Kept
  <2>5. disk # None => root'[disk.pair] = root[disk.pair]
    BY <2>1, <2>3, Kept
  <2> QED
    BY <2>2, <2>4, <2>5
<1>8. ASSUME NEW c \in Callers, Refuse(c) PROVE SessionsLive'
  <2>1. /\ UNCHANGED <<root, up, mem, disk, token, reply, found, login, granted, ended, race>>
        /\ at[c] = "sent"
        /\ at' = [at EXCEPT ![c] = "answered"]
    BY <1>8 DEF Refuse, Goes
  <2> QED
    BY <2>1, SMTT(20)
<1>9. CASE Launch
  BY CallerNames, SessionFacts, <1>9, SMTT(20) DEF Launch, Goes
<1>10. CASE Reload
  BY CallerNames, SessionFacts, <1>10, SMTT(20) DEF Reload, Goes
<1>11. CASE ReadFile
  BY CallerNames, SessionFacts, <1>11, SMTT(20) DEF ReadFile, Goes
<1>12. CASE ResetMemory
  <2>1. /\ at["restore"] = "reset" /\ lock = "free"
        /\ mem' = found
        /\ ~race' => ~race /\ found = disk /\ mem = disk
        /\ UNCHANGED <<server, up, disk, lock, entry, leave, ended, unsaved, fault>>
    BY <1>12, ResetDoes
  <2>2. CASE Returned("restore")
    BY CallerNames, SessionFacts, <2>1, <2>2, SMTT(20) DEF Returned
  <2>3. CASE ~Returned("restore")
    <3>1. /\ found # None
          /\ at' = [at EXCEPT !["restore"] = "queued"]
          /\ stale' = [stale EXCEPT !["restore"] = found.pair]
          /\ UNCHANGED <<token, reply, ui>>
      BY <1>12, <2>3, ResetDoes
    <3> QED
      BY CallerNames, SessionFacts, <2>1, <3>1, SMTT(20)
  <2> QED
    BY <2>2, <2>3
<1>13. CASE BeginLogin
  <2>1. /\ root' \in Seq(1 .. MaxPairs)
        /\ Len(root') = Len(root) + 1 /\ Len(root') <= MaxPairs
        /\ root'[Len(root) + 1] = Len(root) + 1
        /\ \A p \in 1 .. Len(root) : root'[p] = root[p]
    BY <1>13, LoginDoes
  <2>2. UNCHANGED <<up, mem, disk, ended, race>>
    BY <1>13 DEF BeginLogin
  <2>3. /\ mem.pair \in 0 .. Len(root) /\ disk.pair \in 0 .. Len(root)
        /\ mem # None => mem.pair # 0
        /\ disk # None => disk.pair # 0
    BY SessionFacts
  <2> Len(root) \in Nat
    OBVIOUS
  <2>4. mem # None => root'[mem.pair] = root[mem.pair]
    BY <2>1, <2>3, Kept
  <2>5. disk # None => root'[disk.pair] = root[disk.pair]
    BY <2>1, <2>3, Kept
  <2> QED
    BY <2>2, <2>4, <2>5
<1>14. CASE SaveFile
  BY CallerNames, SessionFacts, <1>14, SMTT(20) DEF SaveFile
<1>15. CASE SaveMemory
  BY CallerNames, SessionFacts, <1>15, SMTT(20) DEF SaveMemory, RenewalUnderWay
<1>16. CASE BeginLogout
  BY CallerNames, SessionFacts, <1>16, SMTT(20) DEF BeginLogout
<1>17. CASE Revoke
  BY CallerNames, SessionFacts, <1>17, SMTT(20) DEF Revoke
<1>18. CASE ClearMemory
  BY CallerNames, SessionFacts, <1>18, SMTT(20) DEF ClearMemory
<1>19. CASE RemoveFile
  BY CallerNames, SessionFacts, <1>19, SMTT(20) DEF RemoveFile
<1>20. CASE Crash
  BY CallerNames, SessionFacts, <1>20, SMTT(20) DEF Crash
<1>21. CASE UNCHANGED vars
  BY CallerNames, SessionFacts, <1>21, SMTT(20) DEF vars
<1> QED
  BY <1>1, <1>2, <1>3, <1>4, <1>5, <1>6, <1>7, <1>8, <1>9, <1>10, <1>11, <1>12,
     <1>13, <1>14, <1>15, <1>16, <1>17, <1>18, <1>19, <1>20, <1>21
     DEF Next, CallStep, RestoreStep, LoginStep, LogoutStep

-----------------------------------------------------------------------------
(* Every step keeps the inductive invariant. *)
LEMMA Preservation == IInv /\ [Next]_vars => IInv'
<1> SUFFICES ASSUME SwitchesTyped, PlacesTyped, ServerTyped, SessionsTyped, CallsTyped,
                    LockIsHeld, HalfDone, MemoryAgreesWithFile,
                    LoginIsNew, Replied, RenewalsLive, SessionsLive, [Next]_vars
             PROVE  IInv'
  BY DEF IInv
<1>1. SwitchesTyped' /\ PlacesTyped' /\ ServerTyped' /\ SessionsTyped' /\ CallsTyped'
  BY SwitchesInductive, PlacesInductive, ServerInductive, SessionsInductive, CallsInductive
<1>2. LockIsHeld' /\ HalfDone' /\ MemoryAgreesWithFile'
  BY LockInductive, HalfDoneInductive, AgreementInductive
<1>3. LoginIsNew' /\ Replied' /\ RenewalsLive' /\ SessionsLive'
  BY LoginInductive, RepliesInductive, RenewalsInductive, SessionsLiveInductive
<1> QED
  BY <1>1, <1>2, <1>3 DEF IInv

(* The inductive invariant holds in every state. *)
LEMMA Invariance == Spec => []IInv
<1>1. Init => IInv
  BY Initially
<1>2. IInv /\ [Next]_vars => IInv'
  BY Preservation
<1> QED
  BY <1>1, <1>2, PTL DEF Spec

(* Every variable keeps its type; every pair anybody holds was issued. *)
THEOREM TypeCorrect == Spec => []TypeOK
<1>1. IInv => TypeOK
  <2> SUFFICES ASSUME IInv PROVE TypeOK
    OBVIOUS
  <2>1. ended \in SUBSET (1 .. MaxPairs)
    BY DEF IInv, ServerTyped
  <2> QED
    BY <2>1
       DEF IInv, SwitchesTyped, PlacesTyped, ServerTyped, SessionsTyped, CallsTyped,
       TypeOK
<1> QED
  BY <1>1, Invariance, PTL

(* Saving, renewing and clearing a session change memory and file together, *)
(* whoever else runs and wherever the application died before.              *)
THEOREM StoresAgree == Spec => []MemoryAgreesWithFile
<1>1. IInv => MemoryAgreesWithFile
  BY DEF IInv
<1> QED
  BY <1>1, Invariance, PTL

(* But for the two races, no renewal, restore or relaunch brings back a     *)
(* login that a logout has ended.                                           *)
THEOREM LogoutsAreFinal == Spec => []LogoutIsFinal
<1>1. IInv => LogoutIsFinal
  BY DEF IInv, SessionsLive
<1> QED
  BY <1>1, Invariance, PTL

-----------------------------------------------------------------------------
(* The invariant of the renewals: who has a token, which login it and the   *)
(* file belong to, which pairs are new, and what the server has revoked.    *)

(* No renewal is lost: neither a lost answer nor a race has happened since *)
(* the last login.                                                          *)
Healthy == ~fault /\ ~race
UnderWay(c) == at[c] \in {"sent", "answered"}

(* The gate admits one caller, which alone has a token. *)
OneRenewal ==
    /\ \A c, d \in Callers : at[c] \in Holding /\ at[d] \in Holding => c = d
    /\ \A c \in Callers : token[c] # 0 <=> at[c] \in {"sent", "answered", "write"}

(* A session and its file belong to the login their pair descends from, and*)
(* a renewal under way is one of that login.                                *)
LoginsFit ==
    ~race => /\ mem # None => root[mem.pair] = mem.login
             /\ disk # None => root[disk.pair] = disk.login
             /\ \A c \in Callers : UnderWay(c) /\ mem # None => mem.login = root[token[c]]

(* Memory and file are of one login, whatever writes have failed. *)
FileFits == up /\ Healthy /\ lock \notin {"login", "logout"} => mem.login = disk.login

(* Who renews, renews the login in the file, or one that has been ended or *)
(* is being replaced.                                                       *)
TokensBelong ==
    \A c \in Callers :
        Healthy /\ UnderWay(c)
            => \/ root[token[c]] \in ended
               \/ disk.login = root[token[c]]
               \/ login = "set"

(* An answer brings a live pair nobody has seen. *)
RepliesAreNew ==
    \A c \in Callers :
        at[c] = "answered" /\ reply[c] # 0
            => /\ root[reply[c]] = root[token[c]] /\ reply[c] \in live
               /\ reply[c] \notin {mem.pair, disk.pair, found.pair, revoked, granted}

(* So does a login. *)
GrantedIsNew ==
    login # "idle"
        => /\ granted \in live /\ granted \notin {mem.pair, revoked}
           /\ \A c \in Callers : token[c] # granted
           /\ login = "save" => granted \notin {disk.pair, found.pair}

(* What an application that is down will find can be renewed. *)
FileRenewable == ~up /\ Healthy /\ disk # None => disk.pair \in live

(* The server refuses what a logout has revoked. *)
Revoked(p) == logout \in {"clear", "remove"} /\ revoked = p

Refusals ==
    \A c \in Callers :
        Healthy
            => /\ at[c] = "sent"
                    => token[c] \in live \/ root[token[c]] \in ended \/ Revoked(token[c])
               /\ at[c] = "answered" /\ reply[c] = 0
                    => root[token[c]] \in ended \/ Revoked(token[c])

RInv ==
    /\ OneRenewal
    /\ LoginsFit
    /\ FileFits
    /\ TokensBelong
    /\ RepliesAreNew
    /\ GrantedIsNew
    /\ FileRenewable
    /\ Refusals
    /\ SessionIsRenewable

-----------------------------------------------------------------------------
(* What the proofs use of the types of the state. *)
Facts ==
    /\ Len(root) \in Nat
    /\ \A p \in 1 .. Len(root) : root[p] \in 1 .. MaxPairs
    /\ live \subseteq 1 .. Len(root)
    /\ mem.pair \in 0 .. Len(root) /\ disk.pair \in 0 .. Len(root)
    /\ found.pair \in 0 .. Len(root)
    /\ granted \in 0 .. Len(root) /\ revoked \in 0 .. Len(root)
    /\ None.pair = 0 /\ None.login = 0
    /\ mem # None => mem.pair # 0 /\ mem.login # 0
    /\ disk # None => disk.pair # 0 /\ disk.login # 0
    /\ login # "idle" => granted # 0
    /\ \A c \in Callers :
          /\ token[c] \in 0 .. Len(root) /\ reply[c] \in 0 .. Len(root)
          /\ at[c] \in Steps

(* They follow from the inductive invariant. *)
LEMMA TypeFacts == IInv => Facts
<1> SUFFICES ASSUME IInv PROVE Facts
  OBVIOUS
<1>1. /\ Len(root) \in Nat
      /\ \A p \in 1 .. Len(root) : root[p] \in 1 .. MaxPairs
      /\ live \subseteq 1 .. Len(root)
  <2>1. ServerTyped
    BY DEF IInv
  <2>2. root \in Seq(1 .. MaxPairs) /\ live \in SUBSET (1 .. Len(root))
    BY <2>1 DEF ServerTyped
  <2>3. Len(root) \in Nat
    BY <2>2
  <2>4. ASSUME NEW p \in 1 .. Len(root) PROVE root[p] \in 1 .. MaxPairs
    BY <2>2
  <2>5. live \subseteq 1 .. Len(root)
    BY <2>2
  <2> QED
    BY <2>3, <2>4, <2>5
<1>2. /\ mem.pair \in 0 .. Len(root) /\ disk.pair \in 0 .. Len(root)
      /\ found.pair \in 0 .. Len(root)
      /\ granted \in 0 .. Len(root) /\ revoked \in 0 .. Len(root)
      /\ login # "idle" => granted # 0
      /\ mem \in Sessions /\ disk \in Sessions
  BY DEF IInv, SessionsTyped, Issued
<1>3. /\ None.pair = 0 /\ None.login = 0
      /\ mem # None => mem.pair # 0 /\ mem.login # 0
      /\ disk # None => disk.pair # 0 /\ disk.login # 0
  BY <1>2, SessionFacts
<1>4. \A c \in Callers :
         /\ token[c] \in 0 .. Len(root) /\ reply[c] \in 0 .. Len(root)
         /\ at[c] \in Steps
  BY DEF IInv, CallsTyped, PlacesTyped
<1> QED
  BY <1>1, <1>2, <1>3, <1>4 DEF Facts

(* Callers that are not under way may move, and the restore may read the file. *)
LEMMA QuietRenews ==
    ASSUME IInv, RInv, OneRenewal',
           UNCHANGED <<root, live, up, mem, disk, lock>>,
           UNCHANGED <<login, granted, logout, revoked, ended, fault, race>>,
           found' \in {found, None, disk},
           \A c \in Callers :
              \/ at'[c] = at[c] /\ token'[c] = token[c] /\ reply'[c] = reply[c]
              \/ ~UnderWay(c) /\ at'[c] \notin {"sent", "answered"} /\ token'[c] \in {token[c], 0}
    PROVE  RInv'
<1>1. Facts
  BY TypeFacts
<1>2. OneRenewal'
  BY <1>1, SMTT(30)
     DEF Facts, RInv, OneRenewal, Holding, UnderWay, Healthy, Revoked
<1>3. LoginsFit'
  BY <1>1, SMTT(30)
     DEF Facts, RInv, LoginsFit, Holding, UnderWay, Healthy, Revoked
<1>4. FileFits'
  BY <1>1, SMTT(30)
     DEF Facts, RInv, FileFits, Holding, UnderWay, Healthy, Revoked
<1>5. TokensBelong'
  BY <1>1, SMTT(30)
     DEF Facts, RInv, TokensBelong, Holding, UnderWay, Healthy, Revoked
<1>6. RepliesAreNew'
  BY <1>1, SMTT(30)
     DEF Facts, RInv, RepliesAreNew, Holding, UnderWay, Healthy, Revoked
<1>7. GrantedIsNew'
  BY <1>1, SMTT(30)
     DEF Facts, RInv, GrantedIsNew, Holding, UnderWay, Healthy, Revoked
<1>8. FileRenewable'
  BY <1>1, SMTT(30)
     DEF Facts, RInv, FileRenewable, Holding, UnderWay, Healthy, Revoked
<1>9. Refusals'
  BY <1>1, SMTT(30)
     DEF Facts, RInv, Refusals, Holding, UnderWay, Healthy, Revoked
<1>10. SessionIsRenewable'
  BY <1>1, SMTT(30)
     DEF Facts, RInv, SessionIsRenewable, Holding, UnderWay, Healthy, Revoked
<1> QED
  BY <1>2, <1>3, <1>4, <1>5, <1>6, <1>7, <1>8, <1>9, <1>10 DEF RInv

(* The server rotates the token of a renewal. *)
LEMMA RotateRenews ==
    ASSUME IInv, RInv, NEW c \in Callers, Rotate(c)
    PROVE  RInv'
<1>1. Facts
  BY TypeFacts
<1>2. /\ token[c] \in 1 .. Len(root) /\ Len(root') = Len(root) + 1
      /\ root'[Len(root) + 1] = root[token[c]]
      /\ \A p \in 1 .. Len(root) : root'[p] = root[p]
  BY RotateDoes DEF IInv
<1>3. /\ at[c] = "sent" /\ at' = [at EXCEPT ![c] = "answered"]
      /\ live' = (live \ {token[c]}) \cup {Len(root) + 1}
      /\ reply' = [reply EXCEPT ![c] = Len(root) + 1]
      /\ UNCHANGED <<up, mem, disk, token, found, login, granted, logout, revoked>>
      /\ UNCHANGED <<lock, ended, fault, race>>
  BY DEF Rotate, Goes, server, store, callers, ui, entry, leave, history
<1>4. /\ mem # None => root'[mem.pair] = root[mem.pair]
      /\ disk # None => root'[disk.pair] = root[disk.pair]
  BY <1>1, <1>2 DEF Facts
<1>5. \A d \in Callers : d # c => at[d] \notin Holding /\ at'[d] = at[d] /\ reply'[d] = reply[d]
  BY <1>3 DEF RInv, OneRenewal, Holding
<1>6. /\ at'[c] = "answered" /\ reply'[c] = Len(root) + 1 /\ token[c] # 0
      /\ root'[token[c]] = root[token[c]] /\ up
  BY <1>1, <1>2, <1>3 DEF IInv, PlacesTyped, CallsTyped, LockIsHeld, Facts
<1>7. at \in [Callers -> Steps] /\ reply \in [Callers -> 0 .. Len(root)]
  BY DEF IInv, PlacesTyped, CallsTyped
<1>8. OneRenewal'
  BY <1>1, <1>2, <1>3, <1>4, <1>5, <1>6, <1>7, SMTT(30)
     DEF Facts, RInv, OneRenewal, Holding, UnderWay, Healthy, Revoked
<1>9. LoginsFit'
  BY <1>1, <1>2, <1>3, <1>4, <1>5, <1>6, <1>7, SMTT(30)
     DEF Facts, RInv, LoginsFit, Holding, UnderWay, Healthy, Revoked
<1>10. FileFits'
  BY <1>1, <1>2, <1>3, <1>4, <1>5, <1>6, <1>7, SMTT(30)
     DEF Facts, RInv, FileFits, Holding, UnderWay, Healthy, Revoked
<1>11. TokensBelong'
  BY <1>1, <1>2, <1>3, <1>4, <1>5, <1>6, <1>7, SMTT(30)
     DEF Facts, RInv, TokensBelong, Holding, UnderWay, Healthy, Revoked
<1>12. RepliesAreNew'
  BY <1>1, <1>2, <1>3, <1>4, <1>5, <1>6, <1>7, SMTT(30)
     DEF Facts, RInv, RepliesAreNew, Holding, UnderWay, Healthy, Revoked
<1>13. GrantedIsNew'
  BY <1>1, <1>2, <1>3, <1>4, <1>5, <1>6, <1>7, SMTT(30)
     DEF Facts, RInv, GrantedIsNew, Holding, UnderWay, Healthy, Revoked
<1>14. FileRenewable'
  BY <1>1, <1>2, <1>3, <1>4, <1>5, <1>6, <1>7, SMTT(30)
     DEF Facts, RInv, FileRenewable, Holding, UnderWay, Healthy, Revoked
<1>15. Refusals'
  BY <1>1, <1>2, <1>3, <1>4, <1>5, <1>6, <1>7, SMTT(30)
     DEF Facts, RInv, Refusals, Holding, UnderWay, Healthy, Revoked
<1>16. SessionIsRenewable'
  BY <1>1, <1>2, <1>3, <1>4, <1>5, <1>6, <1>7, SMTT(30)
     DEF Facts, RInv, SessionIsRenewable, Holding, UnderWay, Healthy, Revoked
<1> QED
  BY <1>8, <1>9, <1>10, <1>11, <1>12, <1>13, <1>14, <1>15, <1>16 DEF RInv

(* The server refuses the token of a renewal. *)
LEMMA RefuseRenews ==
    ASSUME IInv, RInv, NEW c \in Callers, Refuse(c)
    PROVE  RInv'
<1>1. Facts
  BY TypeFacts
<1>2. /\ at[c] = "sent" /\ token[c] \notin live /\ at' = [at EXCEPT ![c] = "answered"]
      /\ UNCHANGED <<root, live, reply, up, mem, disk, token, found, login, granted>>
      /\ UNCHANGED <<logout, revoked, lock, ended, fault, race>>
  BY DEF Refuse, Goes, server, store, callers, ui, entry, leave, history
<1>3. at \in [Callers -> Steps] /\ reply[c] = 0
  BY <1>2 DEF IInv, PlacesTyped, Replied
<1>4. OneRenewal'
  BY <1>1, <1>2, <1>3, SMTT(30)
     DEF Facts, RInv, OneRenewal, Holding, UnderWay, Healthy, Revoked
<1>5. LoginsFit'
  BY <1>1, <1>2, <1>3, SMTT(30)
     DEF Facts, RInv, LoginsFit, Holding, UnderWay, Healthy, Revoked
<1>6. FileFits'
  BY <1>1, <1>2, <1>3, SMTT(30)
     DEF Facts, RInv, FileFits, Holding, UnderWay, Healthy, Revoked
<1>7. TokensBelong'
  BY <1>1, <1>2, <1>3, SMTT(30)
     DEF Facts, RInv, TokensBelong, Holding, UnderWay, Healthy, Revoked
<1>8. RepliesAreNew'
  BY <1>1, <1>2, <1>3, SMTT(30)
     DEF Facts, RInv, RepliesAreNew, Holding, UnderWay, Healthy, Revoked
<1>9. GrantedIsNew'
  BY <1>1, <1>2, <1>3, SMTT(30)
     DEF Facts, RInv, GrantedIsNew, Holding, UnderWay, Healthy, Revoked
<1>10. FileRenewable'
  BY <1>1, <1>2, <1>3, SMTT(30)
     DEF Facts, RInv, FileRenewable, Holding, UnderWay, Healthy, Revoked
<1>11. Refusals'
  BY <1>1, <1>2, <1>3, SMTT(30)
     DEF Facts, RInv, Refusals, Holding, UnderWay, Healthy, Revoked
<1>12. SessionIsRenewable'
  BY <1>1, <1>2, <1>3, SMTT(30)
     DEF Facts, RInv, SessionIsRenewable, Holding, UnderWay, Healthy, Revoked
<1> QED
  BY <1>4, <1>5, <1>6, <1>7, <1>8, <1>9, <1>10, <1>11, <1>12 DEF RInv

(* A caller sends the token of the session. *)
LEMMA SendRenews ==
    ASSUME IInv, RInv, NEW c \in Callers, Send(c), ~Returned(c)
    PROVE  RInv'
<1>1. Facts
  BY TypeFacts
<1>2. /\ at[c] = "checked" /\ lock = "free" /\ mem # None
      /\ at' = [at EXCEPT ![c] = "sent"]
      /\ token' = [token EXCEPT ![c] = mem.pair]
      /\ UNCHANGED <<root, live, reply, up, mem, disk, found, login, granted>>
      /\ UNCHANGED <<logout, revoked, lock, ended, fault, race>>
  BY SendDoes DEF server, store, callers, ui, entry, leave, history
<1>3. /\ at \in [Callers -> Steps] /\ reply[c] = 0 /\ up
      /\ token \in [Callers -> 0 .. Len(root)] /\ login # "set"
  BY <1>2 DEF IInv, PlacesTyped, CallsTyped, Replied, LockIsHeld
<1>4. OneRenewal'
  BY <1>1, <1>2, <1>3, SMTT(30)
     DEF Facts, RInv, OneRenewal, Holding, UnderWay, Healthy, Revoked
<1>5. LoginsFit'
  BY <1>1, <1>2, <1>3, SMTT(30)
     DEF Facts, RInv, LoginsFit, Holding, UnderWay, Healthy, Revoked
<1>6. FileFits'
  BY <1>1, <1>2, <1>3, SMTT(30)
     DEF Facts, RInv, FileFits, Holding, UnderWay, Healthy, Revoked
<1>7. TokensBelong'
  BY <1>1, <1>2, <1>3, SMTT(30)
     DEF Facts, RInv, TokensBelong, Holding, UnderWay, Healthy, Revoked, LoginsFit,
         FileFits
<1>8. RepliesAreNew'
  BY <1>1, <1>2, <1>3, SMTT(30)
     DEF Facts, RInv, RepliesAreNew, Holding, UnderWay, Healthy, Revoked, OneRenewal
<1>9. GrantedIsNew'
  BY <1>1, <1>2, <1>3, SMTT(30)
     DEF Facts, RInv, GrantedIsNew, Holding, UnderWay, Healthy, Revoked
<1>10. FileRenewable'
  BY <1>1, <1>2, <1>3, SMTT(30)
     DEF Facts, RInv, FileRenewable, Holding, UnderWay, Healthy, Revoked
<1>11. Refusals'
  BY <1>1, <1>2, <1>3, SMTT(30)
     DEF Facts, RInv, Refusals, Holding, UnderWay, Healthy, Revoked,
         SessionIsRenewable, OneRenewal
<1>12. SessionIsRenewable'
  BY <1>1, <1>2, <1>3, SMTT(30)
     DEF Facts, RInv, SessionIsRenewable, Holding, UnderWay, Healthy, Revoked
<1> QED
  BY <1>4, <1>5, <1>6, <1>7, <1>8, <1>9, <1>10, <1>11, <1>12 DEF RInv

(* A renewal is given up. *)
LEMMA LostRenews ==
    ASSUME IInv, RInv, NEW c \in Callers, Lost(c)
    PROVE  RInv'
<1>1. Facts
  BY TypeFacts
<1>2. /\ Returned(c) /\ at[c] \in {"sent", "answered"}
      /\ live' \in {live, live \ {token[c]}}
      /\ UNCHANGED <<root, up, mem, disk, login, granted>>
      /\ UNCHANGED <<logout, revoked, lock, ended, race>>
  BY LostDoes DEF server, store, callers, ui, entry, leave, history
<1>3. /\ at' = [at EXCEPT ![c] = "idle"]
      /\ token' = [token EXCEPT ![c] = 0]
      /\ reply' = [reply EXCEPT ![c] = 0]
      /\ found' \in {found, None}
  BY <1>2 DEF Returned
<1>4. Healthy' => Healthy /\ at[c] = "answered" /\ reply[c] = 0 /\ live' = live
  BY DEF Lost, Healthy
<1>5. /\ at \in [Callers -> Steps] /\ reply \in [Callers -> 0 .. Len(root)]
      /\ token \in [Callers -> 0 .. Len(root)]
  BY DEF IInv, PlacesTyped, CallsTyped
<1>6. OneRenewal'
  BY <1>1, <1>2, <1>3, <1>4, <1>5, SMTT(30)
     DEF Facts, RInv, OneRenewal, Holding, UnderWay, Healthy, Revoked
<1>7. LoginsFit'
  BY <1>1, <1>2, <1>3, <1>4, <1>5, SMTT(30)
     DEF Facts, RInv, LoginsFit, Holding, UnderWay, Healthy, Revoked
<1>8. FileFits'
  BY <1>1, <1>2, <1>3, <1>4, <1>5, SMTT(30)
     DEF Facts, RInv, FileFits, Holding, UnderWay, Healthy, Revoked
<1>9. TokensBelong'
  BY <1>1, <1>2, <1>3, <1>4, <1>5, SMTT(30)
     DEF Facts, RInv, TokensBelong, Holding, UnderWay, Healthy, Revoked
<1>10. RepliesAreNew'
  BY <1>1, <1>2, <1>3, <1>4, <1>5, SMTT(30)
     DEF Facts, RInv, RepliesAreNew, Holding, UnderWay, Healthy, Revoked, OneRenewal
<1>11. GrantedIsNew'
  BY <1>1, <1>2, <1>3, <1>4, <1>5, SMTT(30)
     DEF Facts, RInv, GrantedIsNew, Holding, UnderWay, Healthy, Revoked
<1>12. FileRenewable'
  BY <1>1, <1>2, <1>3, <1>4, <1>5, SMTT(30)
     DEF Facts, RInv, FileRenewable, Holding, UnderWay, Healthy, Revoked
<1>13. Refusals'
  BY <1>1, <1>2, <1>3, <1>4, <1>5, SMTT(30)
     DEF Facts, RInv, Refusals, Holding, UnderWay, Healthy, Revoked
<1>14. SessionIsRenewable'
  BY <1>1, <1>2, <1>3, <1>4, <1>5, SMTT(30)
     DEF Facts, RInv, SessionIsRenewable, Holding, UnderWay, Healthy, Revoked,
         Refusals, SessionsLive, IInv, LogoutIsFinal, LoginsFit
<1> QED
  BY <1>6, <1>7, <1>8, <1>9, <1>10, <1>11, <1>12, <1>13, <1>14 DEF RInv

(* A renewal ends without a session to put its answer in. *)
LEMMA DropRenews ==
    ASSUME IInv, RInv, NEW c \in Callers, Answered(c), Returned(c),
           UNCHANGED <<mem, lock>>
    PROVE  RInv'
<1>1. Facts
  BY TypeFacts
<1>2. /\ at[c] = "answered"
      /\ UNCHANGED <<root, live, up, disk, login, granted>>
      /\ UNCHANGED <<logout, revoked, ended, fault, race>>
  BY AnsweredDoes DEF server, store, callers, ui, entry, leave, history
<1>3. /\ at' = [at EXCEPT ![c] = "idle"]
      /\ token' = [token EXCEPT ![c] = 0]
      /\ reply' = [reply EXCEPT ![c] = 0]
      /\ found' \in {found, None}
  BY DEF Returned
<1>4. /\ at \in [Callers -> Steps] /\ reply \in [Callers -> 0 .. Len(root)]
      /\ token \in [Callers -> 0 .. Len(root)]
  BY DEF IInv, PlacesTyped, CallsTyped
<1>5. mem = None \/ reply[c] = 0
  BY <1>2, <1>3, <1>4 DEF Answered, Store, Goes
<1>6. OneRenewal'
  BY <1>1, <1>2, <1>3, <1>4, <1>5, SMTT(30)
     DEF Facts, RInv, OneRenewal, Holding, UnderWay, Healthy, Revoked
<1>7. LoginsFit'
  BY <1>1, <1>2, <1>3, <1>4, <1>5, SMTT(30)
     DEF Facts, RInv, LoginsFit, Holding, UnderWay, Healthy, Revoked
<1>8. FileFits'
  BY <1>1, <1>2, <1>3, <1>4, <1>5, SMTT(30)
     DEF Facts, RInv, FileFits, Holding, UnderWay, Healthy, Revoked
<1>9. TokensBelong'
  BY <1>1, <1>2, <1>3, <1>4, <1>5, SMTT(30)
     DEF Facts, RInv, TokensBelong, Holding, UnderWay, Healthy, Revoked
<1>10. RepliesAreNew'
  BY <1>1, <1>2, <1>3, <1>4, <1>5, SMTT(30)
     DEF Facts, RInv, RepliesAreNew, Holding, UnderWay, Healthy, Revoked
<1>11. GrantedIsNew'
  BY <1>1, <1>2, <1>3, <1>4, <1>5, SMTT(30)
     DEF Facts, RInv, GrantedIsNew, Holding, UnderWay, Healthy, Revoked
<1>12. FileRenewable'
  BY <1>1, <1>2, <1>3, <1>4, <1>5, SMTT(30)
     DEF Facts, RInv, FileRenewable, Holding, UnderWay, Healthy, Revoked
<1>13. Refusals'
  BY <1>1, <1>2, <1>3, <1>4, <1>5, SMTT(30)
     DEF Facts, RInv, Refusals, Holding, UnderWay, Healthy, Revoked
<1>14. SessionIsRenewable'
  BY <1>1, <1>2, <1>3, <1>4, <1>5, SMTT(30)
     DEF Facts, RInv, SessionIsRenewable, Holding, UnderWay, Healthy, Revoked,
         Refusals, SessionsLive, IInv, LogoutIsFinal, LoginsFit
<1> QED
  BY <1>6, <1>7, <1>8, <1>9, <1>10, <1>11, <1>12, <1>13, <1>14 DEF RInv

(* The answer of a renewal becomes the session's pair. *)
LEMMA StoreRenews ==
    ASSUME IInv, RInv, NEW c \in Callers, Answered(c),
           ~(Returned(c) /\ UNCHANGED <<mem, lock>>)
    PROVE  RInv'
<1>1. Facts
  BY TypeFacts
<1>2. /\ at[c] = "answered" /\ lock = "free" /\ reply[c] # 0 /\ mem # None
      /\ mem' = [mem EXCEPT !.pair = reply[c]]
      /\ lock' = c /\ at' = [at EXCEPT ![c] = "write"]
      /\ UNCHANGED <<root, live, up, disk, login, granted, token, reply, found>>
      /\ UNCHANGED <<logout, revoked, ended, fault, race>>
  BY AnsweredDoes DEF server, store, callers, ui, entry, leave, history
<1>3. at \in [Callers -> Steps] /\ c \notin {"free", "login", "logout"} /\ up /\ login # "set"
  BY <1>2, CallerNames DEF IInv, PlacesTyped, LockIsHeld
<1>4. mem' # None /\ mem'.pair = reply[c] /\ mem'.login = mem.login
  BY <1>1, <1>2, SessionFacts DEF IInv, SessionsTyped, Facts, ServerTyped
<1>5. OneRenewal'
  BY <1>1, <1>2, <1>3, <1>4, SMTT(30)
     DEF Facts, RInv, OneRenewal, Holding, UnderWay, Healthy, Revoked
<1>6. LoginsFit'
  BY <1>1, <1>2, <1>3, <1>4, SMTT(30)
     DEF Facts, RInv, LoginsFit, Holding, UnderWay, Healthy, Revoked, RepliesAreNew,
         OneRenewal
<1>7. FileFits'
  BY <1>1, <1>2, <1>3, <1>4, SMTT(30)
     DEF Facts, RInv, FileFits, Holding, UnderWay, Healthy, Revoked
<1>8. TokensBelong'
  BY <1>1, <1>2, <1>3, <1>4, SMTT(30)
     DEF Facts, RInv, TokensBelong, Holding, UnderWay, Healthy, Revoked
<1>9. RepliesAreNew'
  BY <1>1, <1>2, <1>3, <1>4, SMTT(30)
     DEF Facts, RInv, RepliesAreNew, Holding, UnderWay, Healthy, Revoked, OneRenewal
<1>10. GrantedIsNew'
  BY <1>1, <1>2, <1>3, <1>4, SMTT(30)
     DEF Facts, RInv, GrantedIsNew, Holding, UnderWay, Healthy, Revoked, RepliesAreNew
<1>11. FileRenewable'
  BY <1>1, <1>2, <1>3, <1>4, SMTT(30)
     DEF Facts, RInv, FileRenewable, Holding, UnderWay, Healthy, Revoked
<1>12. Refusals'
  BY <1>1, <1>2, <1>3, <1>4, SMTT(30)
     DEF Facts, RInv, Refusals, Holding, UnderWay, Healthy, Revoked
<1>13. SessionIsRenewable'
  BY <1>1, <1>2, <1>3, <1>4, SMTT(30)
     DEF Facts, RInv, SessionIsRenewable, Holding, UnderWay, Healthy, Revoked,
         RepliesAreNew
<1> QED
  BY <1>5, <1>6, <1>7, <1>8, <1>9, <1>10, <1>11, <1>12, <1>13 DEF RInv

(* The session is written to its file, or is not. *)
LEMMA WriteRenews ==
    ASSUME IInv, RInv, NEW c \in Callers, Write(c)
    PROVE  RInv'
<1>1. Facts
  BY TypeFacts
<1>2. /\ at[c] = "write" /\ lock' = "free" /\ Returned(c) /\ disk' \in {mem, disk}
      /\ UNCHANGED <<root, live, up, mem, login, granted>>
      /\ UNCHANGED <<logout, revoked, ended, fault, race>>
  BY WriteDoes DEF server, store, callers, ui, entry, leave, history
<1>3. /\ at' = [at EXCEPT ![c] = "idle"]
      /\ token' = [token EXCEPT ![c] = 0]
      /\ reply' = [reply EXCEPT ![c] = 0]
      /\ found' \in {found, None}
  BY <1>2 DEF Returned
<1>4. /\ at \in [Callers -> Steps] /\ reply \in [Callers -> 0 .. Len(root)]
      /\ token \in [Callers -> 0 .. Len(root)]
      /\ lock = c /\ c \notin {"free", "login", "logout"} /\ up
  BY <1>2, CallerNames DEF IInv, PlacesTyped, CallsTyped, LockIsHeld
<1>5. OneRenewal'
  BY <1>1, <1>2, <1>3, <1>4, SMTT(30)
     DEF Facts, RInv, OneRenewal, Holding, UnderWay, Healthy, Revoked
<1>6. LoginsFit'
  BY <1>1, <1>2, <1>3, <1>4, SMTT(30)
     DEF Facts, RInv, LoginsFit, Holding, UnderWay, Healthy, Revoked
<1>7. FileFits'
  BY <1>1, <1>2, <1>3, <1>4, SMTT(30)
     DEF Facts, RInv, FileFits, Holding, UnderWay, Healthy, Revoked
<1>8. TokensBelong'
  BY <1>1, <1>2, <1>3, <1>4, SMTT(30)
     DEF Facts, RInv, TokensBelong, Holding, UnderWay, Healthy, Revoked, OneRenewal
<1>9. RepliesAreNew'
  BY <1>1, <1>2, <1>3, <1>4, SMTT(30)
     DEF Facts, RInv, RepliesAreNew, Holding, UnderWay, Healthy, Revoked, OneRenewal
<1>10. GrantedIsNew'
  BY <1>1, <1>2, <1>3, <1>4, SMTT(30)
     DEF Facts, RInv, GrantedIsNew, Holding, UnderWay, Healthy, Revoked
<1>11. FileRenewable'
  BY <1>1, <1>2, <1>3, <1>4, SMTT(30)
     DEF Facts, RInv, FileRenewable, Holding, UnderWay, Healthy, Revoked
<1>12. Refusals'
  BY <1>1, <1>2, <1>3, <1>4, SMTT(30)
     DEF Facts, RInv, Refusals, Holding, UnderWay, Healthy, Revoked
<1>13. SessionIsRenewable'
  BY <1>1, <1>2, <1>3, <1>4, SMTT(30)
     DEF Facts, RInv, SessionIsRenewable, Holding, UnderWay, Healthy, Revoked
<1> QED
  BY <1>5, <1>6, <1>7, <1>8, <1>9, <1>10, <1>11, <1>12, <1>13 DEF RInv

(* The application is started. *)
LEMMA LaunchRenews ==
    ASSUME IInv, RInv, Launch
    PROVE  RInv'
<1>1. Facts
  BY TypeFacts
<1>2. /\ ~up /\ up' /\ mem' = disk /\ at' = [at EXCEPT !["restore"] = "read"]
      /\ UNCHANGED <<root, live, disk, lock, token, reply, found, login, granted>>
      /\ UNCHANGED <<logout, revoked, ended, fault, race>>
  BY DEF Launch, Goes, server, store, callers, ui, entry, leave, history
<1>3. /\ at \in [Callers -> Steps] /\ login = "idle"
      /\ \A c \in Callers : at[c] = "idle"
  BY <1>2 DEF IInv, PlacesTyped, LockIsHeld
<1>4. OneRenewal'
  BY <1>1, <1>2, <1>3, SMTT(30)
     DEF Facts, RInv, OneRenewal, Holding, UnderWay, Healthy, Revoked
<1>5. LoginsFit'
  BY <1>1, <1>2, <1>3, SMTT(30)
     DEF Facts, RInv, LoginsFit, Holding, UnderWay, Healthy, Revoked
<1>6. FileFits'
  BY <1>1, <1>2, <1>3, SMTT(30)
     DEF Facts, RInv, FileFits, Holding, UnderWay, Healthy, Revoked
<1>7. TokensBelong'
  BY <1>1, <1>2, <1>3, SMTT(30)
     DEF Facts, RInv, TokensBelong, Holding, UnderWay, Healthy, Revoked
<1>8. RepliesAreNew'
  BY <1>1, <1>2, <1>3, SMTT(30)
     DEF Facts, RInv, RepliesAreNew, Holding, UnderWay, Healthy, Revoked
<1>9. GrantedIsNew'
  BY <1>1, <1>2, <1>3, SMTT(30)
     DEF Facts, RInv, GrantedIsNew, Holding, UnderWay, Healthy, Revoked
<1>10. FileRenewable'
  BY <1>1, <1>2, <1>3, SMTT(30)
     DEF Facts, RInv, FileRenewable, Holding, UnderWay, Healthy, Revoked
<1>11. Refusals'
  BY <1>1, <1>2, <1>3, SMTT(30)
     DEF Facts, RInv, Refusals, Holding, UnderWay, Healthy, Revoked
<1>12. SessionIsRenewable'
  BY <1>1, <1>2, <1>3, SMTT(30)
     DEF Facts, RInv, SessionIsRenewable, Holding, UnderWay, Healthy, Revoked,
         FileRenewable
<1> QED
  BY <1>4, <1>5, <1>6, <1>7, <1>8, <1>9, <1>10, <1>11, <1>12 DEF RInv

(* auth_restore makes what it has read the session. *)
LEMMA ResetRenews ==
    ASSUME IInv, RInv, ResetMemory
    PROVE  RInv'
<1>1. Facts
  BY TypeFacts
<1>2. /\ at["restore"] = "reset" /\ lock = "free" /\ mem' = found
      /\ ~race' => ~race /\ found = disk /\ mem = disk
      /\ UNCHANGED <<root, live, up, disk, lock, login, granted>>
      /\ UNCHANGED <<logout, revoked, ended, fault>>
  BY ResetDoes DEF server, store, callers, ui, entry, leave, history
<1>3. /\ at' \in {[at EXCEPT !["restore"] = "idle"], [at EXCEPT !["restore"] = "queued"]}
      /\ token' \in {token, [token EXCEPT !["restore"] = 0]}
      /\ reply' \in {reply, [reply EXCEPT !["restore"] = 0]}
      /\ found' \in {found, None}
  BY ResetDoes DEF Returned, ui
<1>4. /\ at \in [Callers -> Steps] /\ token \in [Callers -> 0 .. Len(root)]
      /\ reply \in [Callers -> 0 .. Len(root)]
      /\ up /\ login \in {"idle", "save"} /\ "restore" \in Callers
  BY <1>2, CallerNames DEF IInv, PlacesTyped, CallsTyped, LockIsHeld
<1>5. \A c \in Callers :
         \/ at'[c] = at[c] /\ token'[c] = token[c] /\ reply'[c] = reply[c]
         \/ ~UnderWay(c) /\ at'[c] \in {"idle", "queued"} /\ token'[c] = 0
  BY <1>2, <1>3, <1>4 DEF UnderWay, RInv, OneRenewal
<1>6. OneRenewal'
  BY <1>1, <1>2, <1>3, <1>4, <1>5, SMTT(30)
     DEF Facts, RInv, OneRenewal, Holding, UnderWay, Healthy, Revoked
<1>7. LoginsFit'
  BY <1>1, <1>2, <1>3, <1>4, <1>5, SMTT(30)
     DEF Facts, RInv, LoginsFit, Holding, UnderWay, Healthy, Revoked
<1>8. FileFits'
  BY <1>1, <1>2, <1>3, <1>4, <1>5, SMTT(30)
     DEF Facts, RInv, FileFits, Holding, UnderWay, Healthy, Revoked
<1>9. TokensBelong'
  BY <1>1, <1>2, <1>3, <1>4, <1>5, SMTT(30)
     DEF Facts, RInv, TokensBelong, Holding, UnderWay, Healthy, Revoked
<1>10. RepliesAreNew'
  BY <1>1, <1>2, <1>3, <1>4, <1>5, SMTT(30)
     DEF Facts, RInv, RepliesAreNew, Holding, UnderWay, Healthy, Revoked
<1>11. GrantedIsNew'
  BY <1>1, <1>2, <1>3, <1>4, <1>5, SMTT(30)
     DEF Facts, RInv, GrantedIsNew, Holding, UnderWay, Healthy, Revoked
<1>12. FileRenewable'
  BY <1>1, <1>2, <1>3, <1>4, <1>5, SMTT(30)
     DEF Facts, RInv, FileRenewable, Holding, UnderWay, Healthy, Revoked
<1>13. Refusals'
  BY <1>1, <1>2, <1>3, <1>4, <1>5, SMTT(30)
     DEF Facts, RInv, Refusals, Holding, UnderWay, Healthy, Revoked
<1>14. SessionIsRenewable'
  BY <1>1, <1>2, <1>3, <1>4, <1>5, SMTT(30)
     DEF Facts, RInv, SessionIsRenewable, Holding, UnderWay, Healthy, Revoked
<1> QED
  BY <1>6, <1>7, <1>8, <1>9, <1>10, <1>11, <1>12, <1>13, <1>14 DEF RInv

(* The server grants a login. *)
LEMMA BeginLoginRenews ==
    ASSUME IInv, RInv, BeginLogin
    PROVE  RInv'
<1>1. Facts
  BY TypeFacts
<1>2. /\ Len(root') = Len(root) + 1
      /\ \A p \in 1 .. Len(root) : root'[p] = root[p]
  BY LoginDoes DEF IInv
<1>3. /\ login = "idle" /\ login' = "save" /\ granted' = Len(root) + 1 /\ up
      /\ live' = live \cup {Len(root) + 1}
      /\ UNCHANGED <<up, mem, disk, lock, at, token, reply, found>>
      /\ UNCHANGED <<logout, revoked, ended, fault, race>>
  BY DEF BeginLogin, Issue, server, store, callers, ui, entry, leave, history
<1>4. /\ mem # None => root'[mem.pair] = root[mem.pair]
      /\ disk # None => root'[disk.pair] = root[disk.pair]
  BY <1>1, <1>2 DEF Facts
<1>5. \A c \in Callers :
         /\ UnderWay(c) => root'[token[c]] = root[token[c]]
         /\ reply[c] # 0 => root'[reply[c]] = root[reply[c]]
  BY <1>1, <1>2 DEF Facts, RInv, OneRenewal, UnderWay
<1>6. OneRenewal'
  BY <1>1, <1>2, <1>3, <1>4, <1>5, SMTT(30)
     DEF Facts, RInv, OneRenewal, Holding, UnderWay, Healthy, Revoked
<1>7. LoginsFit'
  BY <1>1, <1>2, <1>3, <1>4, <1>5, SMTT(30)
     DEF Facts, RInv, LoginsFit, Holding, UnderWay, Healthy, Revoked
<1>8. FileFits'
  BY <1>1, <1>2, <1>3, <1>4, <1>5, SMTT(30)
     DEF Facts, RInv, FileFits, Holding, UnderWay, Healthy, Revoked
<1>9. TokensBelong'
  BY <1>1, <1>2, <1>3, <1>4, <1>5, SMTT(30)
     DEF Facts, RInv, TokensBelong, Holding, UnderWay, Healthy, Revoked
<1>10. RepliesAreNew'
  BY <1>1, <1>2, <1>3, <1>4, <1>5, SMTT(30)
     DEF Facts, RInv, RepliesAreNew, Holding, UnderWay, Healthy, Revoked
<1>11. GrantedIsNew'
  BY <1>1, <1>2, <1>3, <1>4, <1>5, SMTT(30)
     DEF Facts, RInv, GrantedIsNew, Holding, UnderWay, Healthy, Revoked
<1>12. FileRenewable'
  BY <1>1, <1>2, <1>3, <1>4, <1>5, SMTT(30)
     DEF Facts, RInv, FileRenewable, Holding, UnderWay, Healthy, Revoked
<1>13. Refusals'
  BY <1>1, <1>2, <1>3, <1>4, <1>5, SMTT(30)
     DEF Facts, RInv, Refusals, Holding, UnderWay, Healthy, Revoked
<1>14. SessionIsRenewable'
  BY <1>1, <1>2, <1>3, <1>4, <1>5, SMTT(30)
     DEF Facts, RInv, SessionIsRenewable, Holding, UnderWay, Healthy, Revoked
<1> QED
  BY <1>6, <1>7, <1>8, <1>9, <1>10, <1>11, <1>12, <1>13, <1>14 DEF RInv

(* A login is written to the file, or fails. *)
LEMMA SaveFileRenews ==
    ASSUME IInv, RInv, SaveFile
    PROVE  RInv'
<1>1. Facts
  BY TypeFacts
<1>2. /\ login = "save" /\ lock = "free" /\ up
      /\ UNCHANGED <<root, live, up, mem, at, token, reply, found>>
      /\ UNCHANGED <<logout, revoked, ended, fault, race>>
  BY
     DEF SaveFile, LockFree, IInv, LockIsHeld, server, store, callers, ui, entry,
         leave, history
<1>3. \/ /\ disk' = Granted /\ lock' = "login" /\ login' = "set" /\ granted' = granted
      \/ /\ login' = "idle" /\ granted' = 0 /\ UNCHANGED <<disk, lock>>
  BY DEF SaveFile, Granted
<1>4. /\ Granted # None /\ Granted.pair = granted /\ Granted.login = granted
      /\ root[granted] = granted /\ granted # 0
  BY <1>2, GrantedFits DEF IInv, LoginIsNew, SessionsTyped
<1>5. OneRenewal'
  BY <1>1, <1>2, <1>3, <1>4, SMTT(30)
     DEF Facts, RInv, OneRenewal, Holding, UnderWay, Healthy, Revoked
<1>6. LoginsFit'
  BY <1>1, <1>2, <1>3, <1>4, SMTT(30)
     DEF Facts, RInv, LoginsFit, Holding, UnderWay, Healthy, Revoked
<1>7. FileFits'
  BY <1>1, <1>2, <1>3, <1>4, SMTT(30)
     DEF Facts, RInv, FileFits, Holding, UnderWay, Healthy, Revoked
<1>8. TokensBelong'
  BY <1>1, <1>2, <1>3, <1>4, SMTT(30)
     DEF Facts, RInv, TokensBelong, Holding, UnderWay, Healthy, Revoked
<1>9. RepliesAreNew'
  BY <1>1, <1>2, <1>3, <1>4, SMTT(30)
     DEF Facts, RInv, RepliesAreNew, Holding, UnderWay, Healthy, Revoked
<1>10. GrantedIsNew'
  BY <1>1, <1>2, <1>3, <1>4, SMTT(30)
     DEF Facts, RInv, GrantedIsNew, Holding, UnderWay, Healthy, Revoked
<1>11. FileRenewable'
  BY <1>1, <1>2, <1>3, <1>4, SMTT(30)
     DEF Facts, RInv, FileRenewable, Holding, UnderWay, Healthy, Revoked
<1>12. Refusals'
  BY <1>1, <1>2, <1>3, <1>4, SMTT(30)
     DEF Facts, RInv, Refusals, Holding, UnderWay, Healthy, Revoked
<1>13. SessionIsRenewable'
  BY <1>1, <1>2, <1>3, <1>4, SMTT(30)
     DEF Facts, RInv, SessionIsRenewable, Holding, UnderWay, Healthy, Revoked
<1> QED
  BY <1>5, <1>6, <1>7, <1>8, <1>9, <1>10, <1>11, <1>12, <1>13 DEF RInv

(* A login becomes the session. *)
LEMMA SaveMemoryRenews ==
    ASSUME IInv, RInv, SaveMemory
    PROVE  RInv'
<1>1. Facts
  BY TypeFacts
<1>2. /\ login = "set" /\ mem' = Granted /\ lock' = "free" /\ login' = "idle" /\ granted' = 0
      /\ race' = RenewalUnderWay /\ fault' = FALSE
      /\ UNCHANGED <<root, live, up, disk, at, token, reply, found>>
      /\ UNCHANGED <<logout, revoked, ended>>
  BY DEF SaveMemory, Granted, server, store, callers, ui, entry, leave, history
<1>3. /\ Granted # None /\ Granted.pair = granted /\ Granted.login = granted
      /\ root[granted] = granted /\ granted # 0 /\ disk = Granted /\ up
  BY <1>2, GrantedFits DEF IInv, LoginIsNew, SessionsTyped, HalfDone, LockIsHeld
<1>4. ~race' => \A c \in Callers : ~UnderWay(c)
  BY <1>2, Zenon DEF RenewalUnderWay, UnderWay
<1>5. OneRenewal'
  BY <1>1, <1>2, <1>3, <1>4, SMTT(30)
     DEF Facts, RInv, OneRenewal, Holding, UnderWay, Healthy, Revoked
<1>6. LoginsFit'
  BY <1>1, <1>2, <1>3, <1>4, SMTT(30)
     DEF Facts, RInv, LoginsFit, Holding, UnderWay, Healthy, Revoked
<1>7. FileFits'
  BY <1>1, <1>2, <1>3, <1>4, SMTT(30)
     DEF Facts, RInv, FileFits, Holding, UnderWay, Healthy, Revoked
<1>8. TokensBelong'
  BY <1>1, <1>2, <1>3, <1>4, SMTT(30)
     DEF Facts, RInv, TokensBelong, Holding, UnderWay, Healthy, Revoked
<1>9. RepliesAreNew'
  BY <1>1, <1>2, <1>3, <1>4, SMTT(30)
     DEF Facts, RInv, RepliesAreNew, Holding, UnderWay, Healthy, Revoked, GrantedIsNew
<1>10. GrantedIsNew'
  BY <1>1, <1>2, <1>3, <1>4, SMTT(30)
     DEF Facts, RInv, GrantedIsNew, Holding, UnderWay, Healthy, Revoked
<1>11. FileRenewable'
  BY <1>1, <1>2, <1>3, <1>4, SMTT(30)
     DEF Facts, RInv, FileRenewable, Holding, UnderWay, Healthy, Revoked
<1>12. Refusals'
  BY <1>1, <1>2, <1>3, <1>4, SMTT(30)
     DEF Facts, RInv, Refusals, Holding, UnderWay, Healthy, Revoked
<1>13. SessionIsRenewable'
  BY <1>1, <1>2, <1>3, <1>4, SMTT(30)
     DEF Facts, RInv, SessionIsRenewable, Holding, UnderWay, Healthy, Revoked,
         GrantedIsNew
<1> QED
  BY <1>5, <1>6, <1>7, <1>8, <1>9, <1>10, <1>11, <1>12, <1>13 DEF RInv

(* The page logs out. *)
LEMMA BeginLogoutRenews ==
    ASSUME IInv, RInv, BeginLogout
    PROVE  RInv'
<1>1. Facts
  BY TypeFacts
<1>2. /\ logout = "idle" /\ lock = "free" /\ up /\ revoked' = mem.pair
      /\ logout' \in {"clear", "revoke"} /\ (logout' = "clear" => mem = None)
      /\ UNCHANGED <<root, live, up, mem, disk, lock, at, token, reply, found>>
      /\ UNCHANGED <<login, granted, ended, fault, race>>
  BY DEF BeginLogout, LockFree, server, store, callers, ui, entry, leave, history
<1>3. OneRenewal'
  BY <1>1, <1>2, SMTT(30)
     DEF Facts, RInv, OneRenewal, Holding, UnderWay, Healthy, Revoked
<1>4. LoginsFit'
  BY <1>1, <1>2, SMTT(30)
     DEF Facts, RInv, LoginsFit, Holding, UnderWay, Healthy, Revoked
<1>5. FileFits'
  BY <1>1, <1>2, SMTT(30)
     DEF Facts, RInv, FileFits, Holding, UnderWay, Healthy, Revoked
<1>6. TokensBelong'
  BY <1>1, <1>2, SMTT(30)
     DEF Facts, RInv, TokensBelong, Holding, UnderWay, Healthy, Revoked
<1>7. RepliesAreNew'
  BY <1>1, <1>2, SMTT(30)
     DEF Facts, RInv, RepliesAreNew, Holding, UnderWay, Healthy, Revoked
<1>8. GrantedIsNew'
  BY <1>1, <1>2, SMTT(30)
     DEF Facts, RInv, GrantedIsNew, Holding, UnderWay, Healthy, Revoked
<1>9. FileRenewable'
  BY <1>1, <1>2, SMTT(30)
     DEF Facts, RInv, FileRenewable, Holding, UnderWay, Healthy, Revoked
<1>10. Refusals'
  BY <1>1, <1>2, SMTT(30)
     DEF Facts, RInv, Refusals, Holding, UnderWay, Healthy, Revoked
<1>11. SessionIsRenewable'
  BY <1>1, <1>2, SMTT(30)
     DEF Facts, RInv, SessionIsRenewable, Holding, UnderWay, Healthy, Revoked
<1> QED
  BY <1>3, <1>4, <1>5, <1>6, <1>7, <1>8, <1>9, <1>10, <1>11 DEF RInv

(* The server revokes the pair of a logout, or is not reached. *)
LEMMA RevokeRenews ==
    ASSUME IInv, RInv, Revoke
    PROVE  RInv'
<1>1. Facts
  BY TypeFacts
<1>2. /\ logout = "revoke" /\ live' \in {live, live \ {revoked}} /\ logout' = "clear"
      /\ UNCHANGED <<root, up, mem, disk, lock, at, token, reply, found>>
      /\ UNCHANGED <<login, granted, revoked, ended, fault, race>>
  BY DEF Revoke, server, store, callers, ui, entry, leave, history
<1>3. up
  BY <1>2 DEF IInv, LockIsHeld
<1>4. OneRenewal'
  BY <1>1, <1>2, <1>3, SMTT(30)
     DEF Facts, RInv, OneRenewal, Holding, UnderWay, Healthy, Revoked
<1>5. LoginsFit'
  BY <1>1, <1>2, <1>3, SMTT(30)
     DEF Facts, RInv, LoginsFit, Holding, UnderWay, Healthy, Revoked
<1>6. FileFits'
  BY <1>1, <1>2, <1>3, SMTT(30)
     DEF Facts, RInv, FileFits, Holding, UnderWay, Healthy, Revoked
<1>7. TokensBelong'
  BY <1>1, <1>2, <1>3, SMTT(30)
     DEF Facts, RInv, TokensBelong, Holding, UnderWay, Healthy, Revoked
<1>8. RepliesAreNew'
  BY <1>1, <1>2, <1>3, SMTT(30)
     DEF Facts, RInv, RepliesAreNew, Holding, UnderWay, Healthy, Revoked
<1>9. GrantedIsNew'
  BY <1>1, <1>2, <1>3, SMTT(30)
     DEF Facts, RInv, GrantedIsNew, Holding, UnderWay, Healthy, Revoked
<1>10. FileRenewable'
  BY <1>1, <1>2, <1>3, SMTT(30)
     DEF Facts, RInv, FileRenewable, Holding, UnderWay, Healthy, Revoked
<1>11. Refusals'
  BY <1>1, <1>2, <1>3, SMTT(30)
     DEF Facts, RInv, Refusals, Holding, UnderWay, Healthy, Revoked
<1>12. SessionIsRenewable'
  BY <1>1, <1>2, <1>3, SMTT(30)
     DEF Facts, RInv, SessionIsRenewable, Holding, UnderWay, Healthy, Revoked
<1> QED
  BY <1>4, <1>5, <1>6, <1>7, <1>8, <1>9, <1>10, <1>11, <1>12 DEF RInv

(* A logout clears the session in memory. *)
LEMMA ClearRenews ==
    ASSUME IInv, RInv, ClearMemory
    PROVE  RInv'
<1>1. Facts
  BY TypeFacts
<1>2. /\ logout = "clear" /\ lock = "free" /\ logout' = "remove" /\ lock' = "logout" /\ mem' = None
      /\ UNCHANGED <<root, live, up, disk, at, token, reply, found>>
      /\ UNCHANGED <<login, granted, revoked, ended, fault, race>>
  BY DEF ClearMemory, LockFree, server, store, callers, ui, entry, leave, history
<1>3. up
  BY <1>2 DEF IInv, LockIsHeld
<1>4. OneRenewal'
  BY <1>1, <1>2, <1>3, SMTT(30)
     DEF Facts, RInv, OneRenewal, Holding, UnderWay, Healthy, Revoked
<1>5. LoginsFit'
  BY <1>1, <1>2, <1>3, SMTT(30)
     DEF Facts, RInv, LoginsFit, Holding, UnderWay, Healthy, Revoked
<1>6. FileFits'
  BY <1>1, <1>2, <1>3, SMTT(30)
     DEF Facts, RInv, FileFits, Holding, UnderWay, Healthy, Revoked
<1>7. TokensBelong'
  BY <1>1, <1>2, <1>3, SMTT(30)
     DEF Facts, RInv, TokensBelong, Holding, UnderWay, Healthy, Revoked
<1>8. RepliesAreNew'
  BY <1>1, <1>2, <1>3, SMTT(30)
     DEF Facts, RInv, RepliesAreNew, Holding, UnderWay, Healthy, Revoked
<1>9. GrantedIsNew'
  BY <1>1, <1>2, <1>3, SMTT(30)
     DEF Facts, RInv, GrantedIsNew, Holding, UnderWay, Healthy, Revoked
<1>10. FileRenewable'
  BY <1>1, <1>2, <1>3, SMTT(30)
     DEF Facts, RInv, FileRenewable, Holding, UnderWay, Healthy, Revoked
<1>11. Refusals'
  BY <1>1, <1>2, <1>3, SMTT(30)
     DEF Facts, RInv, Refusals, Holding, UnderWay, Healthy, Revoked
<1>12. SessionIsRenewable'
  BY <1>1, <1>2, <1>3, SMTT(30)
     DEF Facts, RInv, SessionIsRenewable, Holding, UnderWay, Healthy, Revoked
<1> QED
  BY <1>4, <1>5, <1>6, <1>7, <1>8, <1>9, <1>10, <1>11, <1>12 DEF RInv

(* A logout removes the file, or fails to. *)
LEMMA RemoveRenews ==
    ASSUME IInv, RInv, RemoveFile
    PROVE  RInv'
<1>1. Facts
  BY TypeFacts
<1>2. /\ logout = "remove" /\ lock' = "free" /\ logout' = "idle" /\ revoked' = 0
      /\ UNCHANGED <<root, live, up, mem, at, token, reply, found>>
      /\ UNCHANGED <<login, granted, race>>
  BY DEF RemoveFile, server, store, callers, ui, entry, leave, history
<1>3. \/ /\ disk' = None /\ ended' = ended \cup ({disk.login} \ {0})
         /\ fault' = fault
      \/ fault' /\ UNCHANGED <<disk, ended>>
  BY DEF RemoveFile
<1>4. /\ up /\ mem = None /\ login # "set"
  BY <1>2 DEF IInv, LockIsHeld, HalfDone
<1>5. \A c \in Callers : UnderWay(c) => token[c] # 0
  BY DEF RInv, OneRenewal, UnderWay
<1>6. OneRenewal'
  BY <1>1, <1>2, <1>3, <1>4, <1>5, SMTT(30)
     DEF Facts, RInv, OneRenewal, Holding, UnderWay, Healthy, Revoked
<1>7. LoginsFit'
  BY <1>1, <1>2, <1>3, <1>4, <1>5, SMTT(30)
     DEF Facts, RInv, LoginsFit, Holding, UnderWay, Healthy, Revoked
<1>8. FileFits'
  BY <1>1, <1>2, <1>3, <1>4, <1>5, SMTT(30)
     DEF Facts, RInv, FileFits, Holding, UnderWay, Healthy, Revoked
<1>9. TokensBelong'
  BY <1>1, <1>2, <1>3, <1>4, <1>5, SMTT(30)
     DEF Facts, RInv, TokensBelong, Holding, UnderWay, Healthy, Revoked
<1>10. RepliesAreNew'
  BY <1>1, <1>2, <1>3, <1>4, <1>5, SMTT(30)
     DEF Facts, RInv, RepliesAreNew, Holding, UnderWay, Healthy, Revoked
<1>11. GrantedIsNew'
  BY <1>1, <1>2, <1>3, <1>4, <1>5, SMTT(30)
     DEF Facts, RInv, GrantedIsNew, Holding, UnderWay, Healthy, Revoked
<1>12. FileRenewable'
  BY <1>1, <1>2, <1>3, <1>4, <1>5, SMTT(30)
     DEF Facts, RInv, FileRenewable, Holding, UnderWay, Healthy, Revoked
<1>13. Refusals'
  BY <1>1, <1>2, <1>3, <1>4, <1>5, SMTT(30)
     DEF Facts, RInv, Refusals, Holding, UnderWay, Healthy, Revoked, TokensBelong
<1>14. SessionIsRenewable'
  BY <1>1, <1>2, <1>3, <1>4, <1>5, SMTT(30)
     DEF Facts, RInv, SessionIsRenewable, Holding, UnderWay, Healthy, Revoked
<1> QED
  BY <1>6, <1>7, <1>8, <1>9, <1>10, <1>11, <1>12, <1>13, <1>14 DEF RInv

(* The application dies. *)
LEMMA CrashRenews ==
    ASSUME IInv, RInv, Crash
    PROVE  RInv'
<1>1. Facts
  BY TypeFacts
<1>2. /\ ~up' /\ mem' = None /\ lock' = "free" /\ login' = "idle" /\ granted' = 0
      /\ \A c \in Callers : at'[c] = "idle" /\ token'[c] = 0 /\ reply'[c] = 0
      /\ UNCHANGED <<root, disk, ended, race>> /\ up
  BY DEF Crash
<1>3. disk # None => disk.pair \in 1 .. Len(root)
  BY <1>1 DEF Facts
<1>4. Healthy' => disk = None \/ disk.pair \in live'
  <2> SUFFICES ASSUME Healthy', disk # None PROVE disk.pair \in live'
    OBVIOUS
  <2>1. /\ Healthy /\ ~unsaved /\ logout = "idle"
        /\ \A c \in Callers : at[c] \notin {"sent", "answered", "write"}
    BY Zenon DEF Crash, Healthy
  <2>2. \A c \in Callers : token[c] = 0
    BY <2>1 DEF RInv, OneRenewal
  <2>3. live' = live
    <3>1. \A gone \in SUBSET {token[c] : c \in Callers} : live \ gone = live
      BY <2>2, <1>1 DEF Facts
    <3>2. PICK gone \in SUBSET {token[c] : c \in Callers} : live' = live \ gone
      BY DEF Crash
    <3> QED
      BY <3>1, <3>2
  <2>4. lock \in {"free", "login"}
    BY <2>1 DEF IInv, LockIsHeld, PlacesTyped
  <2>5. CASE lock = "free"
    <3>1. mem = disk
      BY <2>1, <2>5, <1>2 DEF IInv, MemoryAgreesWithFile, LockFree, Healthy
    <3>2. SessionIsRenewable /\ up /\ ~fault /\ ~race
      BY <2>1, <1>2 DEF RInv, Healthy
    <3> QED
      BY <3>1, <3>2, <2>1, <2>3 DEF SessionIsRenewable
  <2>6. CASE lock = "login"
    <3>1. login = "set" /\ disk = Granted
      BY <2>6 DEF IInv, LockIsHeld, HalfDone
    <3> QED
      BY <3>1, <2>3 DEF RInv, GrantedIsNew, Granted
  <2> QED
    BY <2>4, <2>5, <2>6
<1>5. OneRenewal'
  BY <1>1, <1>2, <1>3, <1>4, SMTT(30)
     DEF Facts, RInv, OneRenewal, Holding, UnderWay, Healthy, Revoked
<1>6. LoginsFit'
  BY <1>1, <1>2, <1>3, <1>4, SMTT(30)
     DEF Facts, RInv, LoginsFit, Holding, UnderWay, Healthy, Revoked
<1>7. FileFits'
  BY <1>1, <1>2, <1>3, <1>4, SMTT(30)
     DEF Facts, RInv, FileFits, Holding, UnderWay, Healthy, Revoked
<1>8. TokensBelong'
  BY <1>1, <1>2, <1>3, <1>4, SMTT(30)
     DEF Facts, RInv, TokensBelong, Holding, UnderWay, Healthy, Revoked
<1>9. RepliesAreNew'
  BY <1>1, <1>2, <1>3, <1>4, SMTT(30)
     DEF Facts, RInv, RepliesAreNew, Holding, UnderWay, Healthy, Revoked
<1>10. GrantedIsNew'
  BY <1>1, <1>2, <1>3, <1>4, SMTT(30)
     DEF Facts, RInv, GrantedIsNew, Holding, UnderWay, Healthy, Revoked
<1>11. FileRenewable'
  BY <1>1, <1>2, <1>3, <1>4, SMTT(30)
     DEF Facts, RInv, FileRenewable, Holding, UnderWay, Healthy, Revoked
<1>12. Refusals'
  BY <1>1, <1>2, <1>3, <1>4, SMTT(30)
     DEF Facts, RInv, Refusals, Holding, UnderWay, Healthy, Revoked
<1>13. SessionIsRenewable'
  BY <1>1, <1>2, <1>3, <1>4, SMTT(30)
     DEF Facts, RInv, SessionIsRenewable, Holding, UnderWay, Healthy, Revoked
<1> QED
  BY <1>5, <1>6, <1>7, <1>8, <1>9, <1>10, <1>11, <1>12, <1>13 DEF RInv

(* Every step preserves the invariant of the renewals. *)
LEMMA RenewalsPreserved == IInv /\ RInv /\ [Next]_vars => RInv'
<1> SUFFICES ASSUME IInv, RInv, [Next]_vars PROVE RInv'
  OBVIOUS
<1> USE DEF server, store, callers, ui, entry, leave, history
<1>0. /\ at \in [Callers -> Steps] /\ stale \in [Callers -> 0 .. Len(root)]
      /\ token \in [Callers -> 0 .. Len(root)] /\ reply \in [Callers -> 0 .. Len(root)]
  BY DEF IInv, PlacesTyped, CallsTyped
<1>1. CASE Expired
  <2>1. at["operation"] = "idle" /\ at' = [at EXCEPT !["operation"] = "queued"]
    BY <1>1 DEF Expired, Goes
  <2>2. OneRenewal'
    BY <1>0, <1>1, <2>1, OperationCalls DEF Expired, RInv, OneRenewal, Holding
  <2> QED
    BY <1>0, <1>1, <2>1, <2>2, OperationCalls, QuietRenews DEF Expired, UnderWay
<1>2. ASSUME NEW c \in Callers, Enter(c) PROVE RInv'
  <2>1. /\ at[c] = "queued" /\ UNCHANGED <<server, up, store, entry, leave, history>>
    BY <1>2, EnterDoes
  <2>2. /\ at' \in {[at EXCEPT ![c] = "idle"], [at EXCEPT ![c] = "checked"]}
        /\ token' \in {token, [token EXCEPT ![c] = 0]}
        /\ found' \in {found, None}
        /\ \A d \in Callers \ {c} : reply'[d] = reply[d]
    BY <1>0, <1>2, EnterDoes DEF Returned
  <2>3. token[c] = 0 /\ \A d \in Callers : at[d] \notin Holding
    BY <1>2, <2>1 DEF Enter, GateFree, RInv, OneRenewal
  <2>4. OneRenewal'
    BY <1>0, <2>1, <2>2, <2>3 DEF RInv, OneRenewal, Holding
  <2> QED
    BY <1>0, <2>1, <2>2, <2>3, <2>4, QuietRenews DEF UnderWay
<1>3. ASSUME NEW c \in Callers, Send(c) PROVE RInv'
  <2>1. CASE Returned(c)
    <3>1. at[c] = "checked" /\ UNCHANGED <<server, up, store, entry, leave, history>>
      BY <1>3, SendDoes
    <3>2. /\ at' = [at EXCEPT ![c] = "idle"] /\ token' = [token EXCEPT ![c] = 0]
          /\ reply' = [reply EXCEPT ![c] = 0] /\ found' \in {found, None}
      BY <2>1 DEF Returned
    <3>3. OneRenewal'
      BY <1>0, <3>1, <3>2 DEF RInv, OneRenewal, Holding
    <3> QED
      BY <1>0, <3>1, <3>2, <3>3, QuietRenews DEF UnderWay
  <2> QED
    BY <1>3, <2>1, SendRenews
<1>4. ASSUME NEW c \in Callers, Answered(c) PROVE RInv'
  BY <1>4, DropRenews, StoreRenews
<1>5. CASE Reload
  <2>1. at["restore"] = "idle" /\ at' = [at EXCEPT !["restore"] = "read"]
    BY <1>5 DEF Reload, Goes
  <2>2. OneRenewal'
    BY <1>0, <1>5, <2>1, CallerNames DEF Reload, RInv, OneRenewal, Holding
  <2> QED
    BY <1>0, <1>5, <2>1, <2>2, CallerNames, QuietRenews DEF Reload, UnderWay
<1>6. CASE ReadFile
  <2>1. at["restore"] = "read" /\ at' = [at EXCEPT !["restore"] = "reset"] /\ found' = disk
    BY <1>6 DEF ReadFile, Goes
  <2>2. OneRenewal'
    BY <1>0, <1>6, <2>1, CallerNames DEF ReadFile, RInv, OneRenewal, Holding
  <2> QED
    BY <1>0, <1>6, <2>1, <2>2, CallerNames, QuietRenews DEF ReadFile, UnderWay
<1>7. CASE UNCHANGED vars
  <2>1. OneRenewal'
    BY <1>7 DEF vars, RInv, OneRenewal
  <2> QED
    BY <1>7, <2>1, QuietRenews DEF vars
<1> QED
  BY <1>1, <1>2, <1>3, <1>4, <1>5, <1>6, <1>7, WriteRenews, LostRenews, RotateRenews,
     RefuseRenews, LaunchRenews, ResetRenews, BeginLoginRenews, SaveFileRenews,
     SaveMemoryRenews, BeginLogoutRenews, RevokeRenews, ClearRenews, RemoveRenews,
     CrashRenews
     DEF Next, CallStep, RestoreStep, LoginStep, LogoutStep

(* Nobody renews anything in an initial state. *)
LEMMA RenewalsInitially == Init => RInv
<1> SUFFICES ASSUME Init PROVE RInv
  OBVIOUS
<1>1. OneRenewal /\ TokensBelong /\ RepliesAreNew /\ Refusals
  BY DEF Init, OneRenewal, TokensBelong, RepliesAreNew, Refusals, UnderWay, Holding
<1>2. LoginsFit /\ FileFits /\ GrantedIsNew /\ FileRenewable /\ SessionIsRenewable
  BY DEF Init, LoginsFit, FileFits, GrantedIsNew, FileRenewable, SessionIsRenewable
<1> QED
  BY <1>1, <1>2 DEF RInv

(* The invariant of the renewals is one of the specification. *)
LEMMA RenewalsInvariant == Spec => []RInv
<1>1. Init => RInv
  BY RenewalsInitially
<1>2. IInv /\ RInv /\ [Next]_vars => RInv'
  BY RenewalsPreserved
<1> QED
  BY <1>1, <1>2, Invariance, PTL DEF Spec

(* SessionIsRenewable: unless a fault or a race has cost it, the refresh   *)
(* token in memory is one the server accepts, whatever else is going on.    *)
THEOREM SessionsRenew == Spec => []SessionIsRenewable
<1>1. RInv => SessionIsRenewable
  BY DEF RInv
<1> QED
  BY <1>1, RenewalsInvariant, PTL

(* NoSpuriousRefusal: the server refuses a caller of refresh_access_token  *)
(* only what a logout ended or is ending.                                   *)
THEOREM RefusalsAreDue == Spec => []NoSpuriousRefusal
<1>1. RInv => NoSpuriousRefusal
  BY DEF RInv, Refusals, NoSpuriousRefusal, Revoked, Healthy
<1> QED
  BY <1>1, RenewalsInvariant, PTL
=============================================================================
