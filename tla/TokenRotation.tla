---------------------------- MODULE TokenRotation ----------------------------
(***************************************************************************)
(* The life of a refresh token in src/kiro/token_manager.rs: who may send  *)
(* it to the token endpoint, who writes the answer back, and what reaches  *)
(* credentials.json when several callers save, a save fails or the process *)
(* dies.  A token is the login it descends from and its generation there;  *)
(* an endpoint that rotates accepts the newest generation only.            *)
(***************************************************************************)
EXTENDS Naturals

CONSTANTS Callers,       \* the tasks that run at the same time
          Imports,       \* logins whose first token an operator imports
          Reissued,      \* logins a relogin obtains, each of them new
          MaxRefreshes,  \* bound: generations of one login
          MaxCreds       \* bound: credentials ever created

ASSUME TokenRotationAssumption ==
    /\ MaxRefreshes \in Nat /\ MaxCreds \in Nat
    /\ "free" \notin Callers
    /\ Imports # {} /\ Imports \cap Reissued = {}

VARIABLES
    pool,         \* entries: id |-> its token, whether the access token is good
    nextId,       \* next_id
    file,         \* credentials.json: id |-> token
    unsynced,     \* since the last snapshot its save failed or a token was reloaded:
                  \* nothing brings file and memory together before the next one
    crossed,      \* ids for which a reload brought back the token of another
                  \* login than the one that was refused
    refreshLock,  \* refresh_lock: its holder or "free"
    persistLock,  \* persist_lock: its holder or "free"
    caller,       \* what each task is doing
    newest,       \* the endpoint: the generation it accepts, per login
    rotates       \* the endpoint: whether a refresh replaces the token

rotationVars == <<pool, nextId, file, unsynced, crossed, refreshLock, persistLock,
                  caller, newest, rotates>>

Kinds == {"request", "query", "force", "add", "relogin", "delete"}
Token(l, g) == [login |-> l, gen |-> g]
NoToken == Token("none", 0)
Logins == Imports \cup Reissued

\* cred: the clone the caller works with; got: what the endpoint answered;
\* then: where it goes on after its save.
Idle == [kind |-> "none", pc |-> "idle", id |-> 0, cred |-> NoToken,
         got |-> NoToken, snap |-> <<>>, then |-> "idle"]

Tokens(p) == [i \in DOMAIN p |-> p[i].token]
Holds(p, t) == \E i \in DOMAIN p : p[i].token = t
Entry(t) == [token |-> t, fresh |-> FALSE, disabled |-> FALSE]
Without(f, i) == [j \in DOMAIN f \ {i} |-> f[j]]

Become(c, r) == caller' = [caller EXCEPT ![c] = r]
Goto(c, pc) == Become(c, [caller[c] EXCEPT !.pc = pc])
Done(c) == Become(c, Idle)
Saving(c, then) == Become(c, [Idle EXCEPT !.kind = caller[c].kind, !.id = caller[c].id,
                              !.pc = "save", !.then = then])
Release(c) == refreshLock' = IF refreshLock = c THEN "free" ELSE refreshLock

RotationInit ==
    /\ pool = [i \in {1} |-> Entry(Token(CHOOSE l \in Imports : TRUE, 0))]
    /\ nextId = 2 /\ file = Tokens(pool)
    /\ unsynced = FALSE /\ crossed = {}
    /\ refreshLock = "free" /\ persistLock = "free"
    /\ caller = [c \in Callers |-> Idle]
    /\ newest = [l \in Logins |-> 0]
    /\ rotates \in BOOLEAN

-----------------------------------------------------------------------------
(* Entering: the clone a caller takes before it waits for the lock.  A     *)
(* request or a query with a good access token needs no refresh.           *)
Start(c, kind, i) ==
    /\ caller[c] = Idle /\ kind \in {"request", "query", "force"}
    /\ i \in DOMAIN pool
    /\ kind = "request" => ~pool[i].disabled /\ ~pool[i].fresh
    /\ Become(c, [Idle EXCEPT !.kind = kind, !.id = i, !.cred = pool[i].token,
                  !.pc = IF kind = "force" \/ ~pool[i].fresh THEN "queue"
                         ELSE "learn"])
    /\ UNCHANGED <<pool, nextId, file, unsynced, crossed, refreshLock, persistLock,
                   newest, rotates>>

\* The second check of try_ensure_token and its three copies.
RereadSkipped(c) == caller[c].cred      \* mutant: keeps the clone
Reread(c) == pool[caller[c].id].token

\* force_refresh_token_for sends the clone it took before the lock.
Lock(c) ==
    /\ caller[c].pc = "queue" /\ refreshLock = "free"
    /\ LET i == caller[c].id
           gone == i \notin DOMAIN pool /\ caller[c].kind # "force"
           skip == caller[c].kind # "force" /\ ~gone /\ pool[i].fresh
       IN  IF gone \/ skip
           THEN /\ UNCHANGED refreshLock
                /\ IF skip /\ caller[c].kind = "query" THEN Goto(c, "learn") ELSE Done(c)
           ELSE /\ refreshLock' = c
                /\ Become(c, [caller[c] EXCEPT !.pc = "send",
                       !.cred = IF caller[c].kind = "force" THEN @ ELSE Reread(c)])
    /\ UNCHANGED <<pool, nextId, file, unsynced, crossed, persistLock, newest, rotates>>

-----------------------------------------------------------------------------
(* The endpoint, in refresh_token and the three functions behind it: it    *)
(* answers, and the answer may be lost.                                    *)
Granted(c) ==
    /\ caller[c].pc = "send"
    /\ LET l == caller[c].cred.login
       IN  /\ caller[c].cred.gen = newest[l]
           /\ newest[l] < MaxRefreshes
           /\ newest' = [newest EXCEPT ![l] = @ + (IF rotates THEN 1 ELSE 0)]
           /\ Become(c, [caller[c] EXCEPT !.pc = "answer", !.got = Token(l, newest'[l])])
    /\ UNCHANGED <<pool, nextId, file, unsynced, crossed, refreshLock, persistLock, rotates>>

\* The error is not invalid_grant, or the answer never arrives: the caller
\* gives up (a request counts a refresh failure, which is not kept here).
EndpointFails(c) ==
    /\ caller[c].pc \in {"send", "answer"}
    /\ Done(c) /\ Release(c)
    /\ UNCHANGED <<pool, nextId, file, unsynced, crossed, persistLock, newest, rotates>>

\* handle_token_refresh_error, for a request only: try_reload_credential_from_file
\* takes another token of the file over and revives the credential; without one
\* report_refresh_token_invalid disables it.  Neither saves credentials.json.
Refused(c) ==
    /\ caller[c].pc = "send"
    /\ caller[c].cred.gen # newest[caller[c].cred.login]
    /\ Done(c) /\ Release(c)
    /\ LET i == caller[c].id
           counts == caller[c].kind = "request" /\ i \in DOMAIN pool
           other == i \in DOMAIN file /\ file[i] # pool[i].token
       IN  \/ ~counts /\ UNCHANGED <<pool, unsynced, crossed>>
           \/ /\ counts /\ other /\ unsynced' = TRUE
              /\ pool' = [pool EXCEPT ![i] = Entry(file[i])]
              /\ crossed' = IF file[i].login = caller[c].cred.login
                            THEN crossed ELSE crossed \cup {i}
           \/ /\ counts /\ ~other /\ UNCHANGED <<unsynced, crossed>>
              /\ pool' = [pool EXCEPT ![i].disabled = TRUE]
    /\ UNCHANGED <<nextId, file, persistLock, newest, rotates>>

\* Every refresh saves what it wrote back before it lets the lock go.
MustSaveUnlessForced(kind) == kind # "force"             \* mutant
MustSave(kind) == TRUE

WriteBack(c) ==
    /\ caller[c].pc = "answer" /\ caller[c].kind # "add"
    /\ LET i == caller[c].id
       IN  pool' = IF i \in DOMAIN pool
                   THEN [pool EXCEPT ![i].token = caller[c].got, ![i].fresh = TRUE]
                   ELSE pool
    /\ IF MustSave(caller[c].kind)
       THEN Saving(c, IF caller[c].kind = "query" THEN "learn" ELSE "idle")
            /\ UNCHANGED refreshLock
       ELSE Done(c) /\ Release(c)
    /\ UNCHANGED <<nextId, file, unsynced, crossed, persistLock, newest, rotates>>

-----------------------------------------------------------------------------
(* persist_credentials: the snapshot and the write are one section of      *)
(* persist_lock; the write is a rename, so it happens or it does not.      *)
TakeSnapshotUnlocked(c) == UNCHANGED persistLock         \* mutant
TakeSnapshot(c) == persistLock = "free" /\ persistLock' = c

Snapshot(c) ==
    /\ caller[c].pc = "save" /\ TakeSnapshot(c)
    /\ Become(c, [caller[c] EXCEPT !.pc = "write", !.snap = Tokens(pool)])
    /\ unsynced' = FALSE
    /\ UNCHANGED <<pool, nextId, file, crossed, refreshLock, newest, rotates>>

\* A failed save is logged, but it ends a relogin, which returns the error.
Write(c, ok) ==
    /\ caller[c].pc = "write"
    /\ file' = IF ok THEN caller[c].snap ELSE file
    /\ unsynced' = (unsynced \/ ~ok)
    /\ persistLock' = IF persistLock = c THEN "free" ELSE persistLock
    /\ IF caller[c].then = "idle" \/ (caller[c].kind = "relogin" /\ ~ok) THEN Done(c)
       ELSE Become(c, [caller[c] EXCEPT !.pc = caller[c].then, !.snap = <<>>])
    /\ Release(c)
    /\ UNCHANGED <<pool, nextId, crossed, newest, rotates>>

\* get_usage_limits_for and resolve_profile_arn_for: what the upstream says of
\* the account is stored and saved, without the refresh lock.
LearnAccount(c, changed) ==
    /\ caller[c].pc = "learn"
    /\ IF changed /\ caller[c].id \in DOMAIN pool THEN Saving(c, "idle") ELSE Done(c)
    /\ UNCHANGED <<pool, nextId, file, unsynced, crossed, refreshLock, persistLock,
                   newest, rotates>>

-----------------------------------------------------------------------------
(* add_credential: looked up, refreshed without any lock, and looked up    *)
(* again with the token the operator brought, where it is inserted.        *)
StartAdd(c, l) ==
    /\ caller[c] = Idle /\ nextId <= MaxCreds
    /\ ~Holds(pool, Token(l, 0))
    /\ Become(c, [Idle EXCEPT !.kind = "add", !.pc = "send", !.cred = Token(l, 0)])
    /\ UNCHANGED <<pool, nextId, file, unsynced, crossed, refreshLock, persistLock,
                   newest, rotates>>

NeverDuplicate(c) == FALSE              \* mutant: only the first look-up
IsDuplicate(c) == Holds(pool, caller[c].cred)

Insert(c) ==
    /\ caller[c].pc = "answer" /\ caller[c].kind = "add"
    /\ nextId <= MaxCreds /\ nextId' = nextId + 1
    /\ IF IsDuplicate(c)
       THEN Done(c) /\ UNCHANGED pool
       ELSE /\ Saving(c, "idle")
            /\ pool' = [i \in DOMAIN pool \cup {nextId} |->
                           IF i \in DOMAIN pool THEN pool[i]
                           ELSE [Entry(caller[c].got) EXCEPT !.fresh = TRUE]]
    /\ UNCHANGED <<file, unsynced, crossed, refreshLock, persistLock, newest, rotates>>

\* delete_credential.
Delete(c, i) ==
    /\ caller[c] = Idle /\ i \in DOMAIN pool
    /\ pool' = Without(pool, i)
    /\ Become(c, [Idle EXCEPT !.kind = "delete", !.pc = "save"])
    /\ UNCHANGED <<nextId, file, unsynced, crossed, refreshLock, persistLock, newest, rotates>>

-----------------------------------------------------------------------------
(* The login a relogin obtains is new: nobody has heard of it.             *)
Unseen(l) ==
    /\ newest[l] = 0
    /\ \A i \in DOMAIN pool : pool[i].token.login # l
    /\ \A i \in DOMAIN file : file[i].login # l
    /\ \A d \in Callers :
          /\ caller[d].cred.login # l
          /\ \A i \in DOMAIN caller[d].snap : caller[d].snap[i].login # l

(* do_relogin_update: disable, replace the token, enable; every step saves *)
(* and an error leaves the credential where it is.                         *)
StartRelogin(c, i, l) ==
    /\ caller[c] = Idle /\ i \in DOMAIN pool /\ Unseen(l)
    /\ pool' = [pool EXCEPT ![i].disabled = TRUE]
    /\ Become(c, [Idle EXCEPT !.kind = "relogin", !.id = i, !.pc = "save",
                  !.cred = Token(l, 0), !.then = "paste"])
    /\ UNCHANGED <<nextId, file, unsynced, crossed, refreshLock, persistLock, newest, rotates>>

\* update_refresh_token: only a disabled credential, and no token twice.
Paste(c) ==
    /\ caller[c].pc = "paste"
    /\ LET i == caller[c].id  t == caller[c].cred
       IN  IF i \in DOMAIN pool /\ pool[i].disabled /\ ~Holds(Without(pool, i), t)
           THEN /\ pool' = [pool EXCEPT ![i].token = t, ![i].fresh = FALSE]
                /\ Saving(c, "enable")
           ELSE Done(c) /\ UNCHANGED pool
    /\ UNCHANGED <<nextId, file, unsynced, crossed, refreshLock, persistLock, newest, rotates>>

\* reset_and_enable.
Enable(c) ==
    /\ caller[c].pc = "enable"
    /\ LET i == caller[c].id
       IN  IF i \in DOMAIN pool
           THEN /\ pool' = [pool EXCEPT ![i].disabled = FALSE]
                /\ Saving(c, "idle")
           ELSE Done(c) /\ UNCHANGED pool
    /\ UNCHANGED <<nextId, file, unsynced, crossed, refreshLock, persistLock, newest, rotates>>

-----------------------------------------------------------------------------
\* is_token_expired, is_token_expiring_soon: time passes.
Expire(i) ==
    /\ i \in DOMAIN pool /\ pool[i].fresh
    /\ pool' = [pool EXCEPT ![i].fresh = FALSE]
    /\ UNCHANGED <<nextId, file, unsynced, crossed, refreshLock, persistLock, caller,
                   newest, rotates>>

\* The process dies and MultiTokenManager::new reads the file back.
Restart ==
    /\ pool' = [i \in DOMAIN file |-> Entry(file[i])]
    /\ nextId' \in {n \in {1} \cup {m + 1 : m \in DOMAIN file} :
                        \A m \in DOMAIN file : m < n}
    /\ caller' = [c \in Callers |-> Idle]
    /\ refreshLock' = "free" /\ persistLock' = "free"
    /\ unsynced' = FALSE /\ crossed' = {}
    /\ UNCHANGED <<file, newest, rotates>>

RotationNext ==
    \/ \E c \in Callers :
        \/ \E kind \in Kinds, i \in DOMAIN pool : Start(c, kind, i)
        \/ Lock(c) \/ Granted(c) \/ EndpointFails(c) \/ Refused(c) \/ WriteBack(c)
        \/ Snapshot(c)
        \/ \E b \in BOOLEAN : Write(c, b) \/ LearnAccount(c, b)
        \/ \E l \in Imports : StartAdd(c, l)
        \/ Insert(c)
        \/ \E i \in DOMAIN pool : Delete(c, i) \/ \E l \in Reissued : StartRelogin(c, i, l)
        \/ Paste(c) \/ Enable(c)
    \/ \E i \in DOMAIN pool : Expire(i)
    \/ Restart
-----------------------------------------------------------------------------
(* Properties                                                              *)

\* Saves of several tasks never overtake one another: while the endpoint
\* accepts the token the file holds, no save (persist_credentials) puts an
\* older one of the same login in its place. Left out is a credential whose
\* reload crossed a relogin: then memory itself went back, and saves follow.
LiveTokenKept ==
    [][\A i \in (DOMAIN file \cap DOMAIN file') \ crossed :
        (file[i].gen = newest[file[i].login] /\ file'[i].login = file[i].login)
            => file'[i].gen >= file[i].gen]_rotationVars

\* A request or a query that waited for refresh_lock sends the token the pool
\* holds now, not the clone it took before it waited (the double check of
\* try_ensure_token and its copies), unless a relogin replaced the login.
NewestUnderLock ==
    \A c \in Callers :
        LET i == caller[c].id
        IN  (/\ caller[c].pc = "send" /\ caller[c].kind \in {"request", "query"}
             /\ i \in DOMAIN pool /\ pool[i].token.login = caller[c].cred.login)
                => pool[i].token = caller[c].cred

\* However two imports of one token interleave (add_credential awaits the
\* endpoint between its two look-ups), a new credential never holds the token
\* another one holds.
NoDoubleImport ==
    [][nextId' > nextId => \A i \in DOMAIN pool' \ DOMAIN pool, j \in DOMAIN pool :
            pool'[i].token # pool[j].token]_rotationVars

\* With no save under way, failed or undone by a reload, credentials.json holds
\* exactly the credentials and the tokens of memory: a crash then loses none
\* (every operation that changes a token saves before it ends).
SavedWhenQuiet ==
    (~unsynced /\ \A c \in Callers : caller[c].pc \notin {"save", "write"})
        => file = Tokens(pool)
=============================================================================
