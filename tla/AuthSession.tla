---------------------------- MODULE AuthSession ----------------------------
(***************************************************************************)
(* `AuthState` and the auth commands: one login session, kept in memory and*)
(* in auth-session.json, renewed through refresh tokens the server rotates.*)
(*                                                                         *)
(* Beside each other run the page's login, logout and auth_restore (once   *)
(* for every load of the page), a subscription sync or usage report that   *)
(* renews an expired token (the operation gate admits one of them), the    *)
(* server, and crashes of the application.                                 *)
(* Every hold of `AuthState::inner` is one step, or two when it writes a   *)
(* file, so that the application may die in between.                       *)
(*                                                                         *)
(* A token pair is a number in the order the server issued them.  A login  *)
(* is named by its first pair; it stands for the user, whom a session      *)
(* remembers from its login.                                               *)
(***************************************************************************)
EXTENDS Naturals, Sequences

CONSTANT MaxPairs       \* bound on the token pairs the server issues
ASSUME MaxPairsAssumption == MaxPairs \in Nat \ {0}

VARIABLES
    (* the server *)
    root,       \* root[p]: the login pair p descends from
    live,       \* pairs whose refresh token the server accepts
    (* the application *)
    up,         \* it runs
    mem,        \* AuthState.inner
    disk,       \* auth-session.json
    lock,       \* who holds AuthState::inner across a file operation
    (* the callers of refresh_access_token *)
    at,         \* where each of them is
    stale,      \* the pair it wants to replace
    token,      \* the refresh token it sends
    reply,      \* the pair it was given, 0 for a refusal
    (* the page *)
    page,       \* "loading" until auth_restore returns, then "ready"
    shown,      \* it shows a user
    kick,       \* a sync failed for want of a valid token: it will log out
    found,      \* what auth_restore read from the file
    login, granted,   \* where the login is, the pair it was given
    logout, revoked,  \* where the logout is, the pair it revokes
    (* history *)
    ended,      \* logins a logout has ended
    unsaved,    \* the last write or removal of the file failed
    fault,      \* an answer was lost, or the app died, during a renewal
    race        \* a renewal or a restore overtook a change of the session

server  == <<root, live>>
store   == <<mem, disk, lock>>
callers == <<at, stale, token, reply>>
ui      == <<page, shown, kick, found>>
entry   == <<login, granted>>
leave   == <<logout, revoked>>
history == <<ended, unsaved, fault, race>>
vars    == <<root, live, up, mem, disk, lock, at, stale, token, reply, page,
             shown, kick, found, login, granted, logout, revoked, ended, unsaved,
             fault, race>>

Callers   == {"restore", "operation"}
None      == [pair |-> 0, login |-> 0]
Sessions  == {None} \cup [pair : 1 .. MaxPairs, login : 1 .. MaxPairs]
Waiting   == {"queued"}
Holding   == {"checked", "sent", "answered", "write"}
Steps     == {"idle", "read", "reset"} \cup Waiting \cup Holding

TypeOK ==
    /\ root \in Seq(1 .. MaxPairs) /\ Len(root) <= MaxPairs
    /\ live \in SUBSET (1 .. Len(root))
    /\ up \in BOOLEAN
    /\ mem \in Sessions /\ disk \in Sessions
    /\ lock \in {"free", "login", "logout"} \cup Callers
    /\ at \in [Callers -> Steps]
    /\ stale \in [Callers -> 0 .. Len(root)]
    /\ token \in [Callers -> 0 .. Len(root)]
    /\ reply \in [Callers -> 0 .. Len(root)]
    /\ page \in {"loading", "ready"}
    /\ shown \in BOOLEAN /\ kick \in BOOLEAN
    /\ found \in Sessions
    /\ login \in {"idle", "save", "set"} /\ granted \in 0 .. Len(root)
    /\ logout \in {"idle", "revoke", "clear", "remove"} /\ revoked \in 0 .. Len(root)
    /\ ended \in SUBSET (1 .. MaxPairs)
    /\ unsaved \in BOOLEAN /\ fault \in BOOLEAN /\ race \in BOOLEAN

(* A computer on which nobody has logged in. *)
Init ==
    /\ root = <<>> /\ live = {}
    /\ up = FALSE /\ mem = None /\ disk = None /\ lock = "free"
    /\ at = [c \in Callers |-> "idle"]
    /\ stale = [c \in Callers |-> 0]
    /\ token = [c \in Callers |-> 0]
    /\ reply = [c \in Callers |-> 0]
    /\ page = "loading" /\ shown = FALSE /\ kick = FALSE /\ found = None
    /\ login = "idle" /\ granted = 0 /\ logout = "idle" /\ revoked = 0
    /\ ended = {} /\ unsaved = FALSE /\ fault = FALSE /\ race = FALSE

-----------------------------------------------------------------------------
(* Building blocks *)

(* `inner` is not held across a file operation. *)
LockIgnored == TRUE                         \* mutant: the file is written unlocked
LockFree == lock = "free"

(* The refresh gate. *)
GateIgnored == TRUE                         \* mutant: callers are not collapsed
GateFree == \A c \in Callers : at[c] \notin Holding

Issue(login_) == root' = Append(root, login_) /\ live' = live \cup {Len(root) + 1}
CanIssue == Len(root) < MaxPairs

Goes(c, step) == at' = [at EXCEPT ![c] = step]

Forgets(c) ==
    /\ Goes(c, "idle")
    /\ stale' = [stale EXCEPT ![c] = 0]
    /\ token' = [token EXCEPT ![c] = 0]
    /\ reply' = [reply EXCEPT ![c] = 0]

(* The end of a call: auth_restore shows the user unless the server refused *)
(* the token or the session has gone; a sync whose tokens are refused, the   *)
(* renewed one included, makes the page log out.                            *)
Returns(c, outcome) ==
    /\ Forgets(c)
    /\ IF c = "restore"
       THEN /\ page' = "ready" /\ found' = None
            /\ shown' = (outcome \in {"ok", "lost"})
            /\ UNCHANGED kick
       ELSE /\ kick' \in IF page = "ready" /\ outcome # "lost" THEN {kick, TRUE} ELSE {kick}
            /\ UNCHANGED <<page, shown, found>>

-----------------------------------------------------------------------------
(* refresh_access_token *)

(* The server has told a sync or a report that its access token is expired. *)
Expired ==
    /\ up /\ LockFree /\ at["operation"] = "idle" /\ mem # None
    /\ Goes("operation", "queued")
    /\ stale' = [stale EXCEPT !["operation"] = mem.pair]
    /\ UNCHANGED <<server, up, store, token, reply, ui, entry, leave, history>>

(* Behind the gate: another caller may have renewed the token, or a logout *)
(* have ended the session.                                                  *)
AlreadyRenewed(c) == mem # None /\ mem.pair # stale[c]

Enter(c) ==
    /\ at[c] = "queued" /\ GateFree /\ LockFree
    /\ CASE mem = None        -> Returns(c, "refused")
         [] AlreadyRenewed(c) -> Returns(c, "ok")
         [] OTHER             -> /\ Goes(c, "checked")
                                 /\ stale' = [stale EXCEPT ![c] = 0]
                                 /\ UNCHANGED <<token, reply, ui>>
    /\ UNCHANGED <<server, up, store, entry, leave, history>>

Send(c) ==
    /\ at[c] = "checked" /\ LockFree
    /\ IF mem = None
       THEN Returns(c, "refused")
       ELSE /\ Goes(c, "sent")
            /\ token' = [token EXCEPT ![c] = mem.pair]
            /\ UNCHANGED <<stale, reply, ui>>
    /\ UNCHANGED <<server, up, store, entry, leave, history>>

(* update_tokens, its memory half: a cleared session stays cleared. *)
StoreBlindly(c) ==                          \* mutant: there is a session, surely
    /\ mem' = [mem EXCEPT !.pair = reply[c]]
    /\ lock' = c
    /\ Goes(c, "write")
    /\ UNCHANGED <<disk, stale, token, reply, ui>>
StoreAnyway(c) ==                           \* mutant: a cleared session is made anew
    /\ mem' = [pair |-> reply[c], login |-> root[reply[c]]]
    /\ lock' = c
    /\ Goes(c, "write")
    /\ UNCHANGED <<disk, stale, token, reply, ui>>
KeepOldToken(c) ==                          \* mutant: only the access token is stored
    /\ lock' = c
    /\ Goes(c, "write")
    /\ UNCHANGED <<mem, disk, stale, token, reply, ui>>
Store(c) ==
    IF mem = None
    THEN Returns(c, "refused") /\ UNCHANGED store
    ELSE /\ mem' = [mem EXCEPT !.pair = reply[c]]
         /\ lock' = c
         /\ Goes(c, "write")
         /\ UNCHANGED <<disk, stale, token, reply, ui>>

Answered(c) ==
    /\ at[c] = "answered" /\ LockFree
    /\ IF reply[c] = 0
       THEN Returns(c, "refused") /\ UNCHANGED store
       ELSE Store(c)
    /\ UNCHANGED <<server, up, entry, leave, history>>

(* update_tokens, its file half; a failed write is an error of the call. *)
Write(c) ==
    /\ at[c] = "write"
    /\ lock' = "free"
    /\ \/ disk' = mem /\ unsaved' = FALSE /\ Returns(c, "ok")
       \/ disk' = disk /\ unsaved' = TRUE /\ Returns(c, "lost")
    /\ UNCHANGED <<server, up, mem, entry, leave, ended, fault, race>>

(* No answer within the client's or the report's timeout, or an error that *)
(* is no refusal; the request has been handled or has not.                   *)
Lost(c) ==
    /\ at[c] \in {"sent", "answered"}
    /\ live' \in IF at[c] = "sent" THEN {live, live \ {token[c]}} ELSE {live}
    /\ Returns(c, "lost")
    /\ fault' = (fault \/ at[c] = "sent" \/ reply[c] # 0)
    /\ UNCHANGED <<root, up, store, entry, leave, ended, unsaved, race>>

-----------------------------------------------------------------------------
(* The server *)

(* It deletes the refresh token it rotates. *)
Rotate(c) ==
    /\ at[c] = "sent" /\ token[c] \in live /\ CanIssue
    /\ root' = Append(root, root[token[c]])
    /\ live' = (live \ {token[c]}) \cup {Len(root) + 1}
    /\ reply' = [reply EXCEPT ![c] = Len(root) + 1]
    /\ Goes(c, "answered")
    /\ UNCHANGED <<up, store, stale, token, ui, entry, leave, history>>

Refuse(c) ==
    /\ at[c] = "sent" /\ token[c] \notin live
    /\ Goes(c, "answered")
    /\ UNCHANGED <<server, up, store, stale, token, reply, ui, entry, leave, history>>

-----------------------------------------------------------------------------
(* auth_restore *)

(* AuthState::load, then the first page. *)
Launch ==
    /\ ~up
    /\ up' = TRUE /\ mem' = disk
    /\ Goes("restore", "read")
    /\ UNCHANGED <<server, disk, lock, stale, token, reply, ui, entry, leave, history>>

(* The user loads the page again; commands of the page before go on. *)
Reload ==
    /\ up /\ page = "ready" /\ at["restore"] = "idle"
    /\ page' = "loading" /\ shown' = FALSE /\ kick' = FALSE
    /\ Goes("restore", "read")
    /\ UNCHANGED <<server, up, store, stale, token, reply, found, entry, leave, history>>

(* restore_from_disk reads the file outside the lock ... *)
ReadFile ==
    /\ at["restore"] = "read"
    /\ found' = disk
    /\ Goes("restore", "reset")
    /\ UNCHANGED <<server, up, store, stale, token, reply, page, shown, kick, entry,
                   leave, history>>

(* ... and makes what it read the session. *)
ResetMemory ==
    /\ at["restore"] = "reset" /\ LockFree
    /\ mem' = found
    /\ race' = (race \/ found # disk \/ mem # disk)
    /\ IF found = None
       THEN Returns("restore", "none")
       ELSE /\ Goes("restore", "queued")
            /\ stale' = [stale EXCEPT !["restore"] = found.pair]
            /\ UNCHANGED <<token, reply, ui>>
    /\ UNCHANGED <<server, up, disk, lock, entry, leave, ended, unsaved, fault>>

-----------------------------------------------------------------------------
(* auth_login *)

(* The login form is shown to nobody who is logged in; the answer may take *)
(* its time, and a login that fails changes nothing.                        *)
BeginLogin ==
    /\ up /\ page = "ready" /\ ~shown /\ login = "idle" /\ CanIssue
    /\ Issue(Len(root) + 1)
    /\ login' = "save" /\ granted' = Len(root) + 1
    /\ UNCHANGED <<up, store, callers, ui, leave, history>>

(* save: the file, then memory, under one lock. *)
SaveFile ==
    /\ login = "save" /\ LockFree
    /\ \/ /\ disk' = [pair |-> granted, login |-> granted]
          /\ lock' = "login" /\ login' = "set" /\ unsaved' = FALSE
          /\ UNCHANGED granted
       \/ /\ login' = "idle" /\ granted' = 0
          /\ UNCHANGED <<disk, lock, unsaved>>
    /\ UNCHANGED <<server, up, mem, callers, ui, leave, ended, fault, race>>

(* A renewal of another login that is under way now will end in this one. *)
RenewalUnderWay == \E c \in Callers : at[c] \in {"sent", "answered"}

SaveMemory ==
    /\ login = "set"
    /\ mem' = [pair |-> granted, login |-> granted]
    /\ lock' = "free" /\ login' = "idle" /\ granted' = 0
    /\ shown' = TRUE
    /\ race' = RenewalUnderWay /\ fault' = FALSE
    /\ UNCHANGED <<server, up, disk, callers, page, kick, found, leave, ended, unsaved>>

-----------------------------------------------------------------------------
(* auth_logout *)

BeginLogout ==
    /\ up /\ page = "ready" /\ (shown \/ kick) /\ logout = "idle" /\ LockFree
    /\ kick' = FALSE
    /\ revoked' = mem.pair
    /\ logout' = IF mem = None THEN "clear" ELSE "revoke"
    /\ UNCHANGED <<server, up, store, callers, page, shown, found, entry, history>>

(* Best effort: the answer, whatever it is, does not stop the logout. *)
Revoke ==
    /\ logout = "revoke"
    /\ live' \in {live, live \ {revoked}}
    /\ logout' = "clear"
    /\ UNCHANGED <<root, up, store, callers, ui, entry, revoked, history>>

(* clear: memory, then the file, under one lock. *)
ClearMemory ==
    /\ logout = "clear" /\ LockFree
    /\ mem' = None /\ lock' = "logout" /\ logout' = "remove"
    /\ UNCHANGED <<server, up, disk, callers, ui, entry, revoked, history>>

RemoveFile ==
    /\ logout = "remove"
    /\ lock' = "free" /\ logout' = "idle" /\ revoked' = 0
    /\ \/ /\ disk' = None /\ unsaved' = FALSE /\ shown' = FALSE
          /\ ended' = ended \cup ({disk.login} \ {0})
          /\ UNCHANGED fault
       \/ /\ disk # None
          /\ unsaved' = TRUE /\ fault' = TRUE
          /\ UNCHANGED <<disk, ended, shown>>
    /\ UNCHANGED <<server, up, mem, callers, page, kick, found, entry, race>>

-----------------------------------------------------------------------------
(* The application dies, or is quit, anywhere. *)
Crash ==
    /\ up
    /\ up' = FALSE /\ mem' = None /\ lock' = "free"
    /\ at' = [c \in Callers |-> "idle"]
    /\ stale' = [c \in Callers |-> 0]
    /\ token' = [c \in Callers |-> 0]
    /\ reply' = [c \in Callers |-> 0]
    /\ page' = "loading" /\ shown' = FALSE /\ kick' = FALSE /\ found' = None
    /\ login' = "idle" /\ granted' = 0 /\ logout' = "idle" /\ revoked' = 0
    /\ live' \in {live \ gone : gone \in SUBSET {token[c] : c \in Callers}}
    /\ fault' = (fault \/ unsaved \/ logout # "idle"
                 \/ \E c \in Callers : at[c] \in {"sent", "answered", "write"})
    /\ UNCHANGED <<root, disk, ended, unsaved, race>>

-----------------------------------------------------------------------------
CallStep(c) ==
    Enter(c) \/ Send(c) \/ Answered(c) \/ Write(c) \/ Lost(c) \/ Rotate(c) \/ Refuse(c)

RestoreStep == ReadFile \/ ResetMemory
LoginStep   == SaveFile \/ SaveMemory
LogoutStep  == Revoke \/ ClearMemory \/ RemoveFile

Next ==
    \/ Expired \/ \E c \in Callers : CallStep(c)
    \/ Launch \/ Reload \/ RestoreStep
    \/ BeginLogin \/ LoginStep \/ BeginLogout \/ LogoutStep
    \/ Crash

Spec == Init /\ [][Next]_vars

-----------------------------------------------------------------------------
(* Properties *)

(* A logout that has returned is final: unless one of the two races was run,*)
(* no renewal, restore or relaunch brings a pair of that login back.        *)
LogoutIsFinal ==
    up /\ mem # None /\ ~race => root[mem.pair] \notin ended

(* The session can be renewed: but for an answer that was lost, a crash in *)
(* the middle of a renewal, a failed removal or a race, the pair in memory *)
(* is one the server accepts, unless it is just being rotated or revoked.  *)
SessionIsRenewable ==
    up /\ mem # None /\ ~fault /\ ~race
        => \/ mem.pair \in live
           \/ \E c \in Callers : at[c] = "answered" /\ token[c] = mem.pair
           \/ logout \in {"clear", "remove"} /\ revoked = mem.pair

(* Nobody can see memory and file disagree about the session, unless the   *)
(* last file operation failed: saving, renewing and clearing are atomic.   *)
MemoryAgreesWithFile ==
    up /\ LockFree /\ ~unsaved /\ ~race => mem = disk

(* Waiters do not renew again what another caller renewed: the server only *)
(* refuses a token that a logout revoked, or that one of the faults or     *)
(* races cost; nobody is thrown out of a session that lives.               *)
NoSpuriousRefusal ==
    \A c \in Callers :
        at[c] = "answered" /\ reply[c] = 0 /\ ~fault /\ ~race
            => \/ root[token[c]] \in ended
               \/ logout # "idle" /\ revoked = token[c]
=============================================================================
