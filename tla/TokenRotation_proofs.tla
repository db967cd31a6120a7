------------------------ MODULE TokenRotation_proofs ------------------------
(***************************************************************************)
(* Proofs about TokenRotation, for every set of tasks, logins and bounds:  *)
(* no save puts a spent token over a live one, a task that waited for the  *)
(* refresh lock sends the newest token, no import duplicates a token, and  *)
(* a quiet process has everything in its file.                             *)
(***************************************************************************)
EXTENDS TokenRotation, TLAPS

RotationSpec == RotationInit /\ [][RotationNext]_rotationVars

Known(t) == t \in [login: Logins, gen: Nat] /\ t.gen <= newest[t.login]

At(pc) == {c \in Callers : caller[c].pc = pc}

(* Types: what is in the pool, in the file and in a snapshot is a token    *)
(* the endpoint has issued, under an id below the counter.                 *)
PoolType ==
    /\ nextId \in Nat \ {0} /\ newest \in [Logins -> Nat] /\ rotates \in BOOLEAN
    /\ unsynced \in BOOLEAN
    /\ pool \in [DOMAIN pool -> [token: [login: Logins, gen: Nat], fresh: BOOLEAN,
                                 disabled: BOOLEAN]]
    /\ \A i \in DOMAIN pool : i \in Nat /\ i < nextId /\ Known(pool[i].token)

IsImage(f) ==
    /\ f = [i \in DOMAIN f |-> f[i]]
    /\ \A i \in DOMAIN f : i \in Nat /\ i < nextId /\ Known(f[i])

(* r is the record of these seven fields, in a form the provers handle. *)
Task(r, kind, pc, id, cred, got, snap, then) ==
    r \in [kind: {kind}, pc: {pc}, id: {id}, cred: {cred}, got: {got}, snap: {snap},
           then: {then}]

CallerType(r) ==
    /\ Task(r, r.kind, r.pc, r.id, r.cred, r.got, r.snap, r.then)
    /\ r.id \in Nat /\ r.then \in {"idle", "learn", "paste", "enable"}
    /\ r.pc = "paste" => r.then = "paste"
    /\ r.pc # "write" => r.snap = <<>>
    /\ r.pc = "write" => IsImage(r.snap)
    /\ r.pc \in {"queue", "send", "answer"} =>
          /\ Known(r.cred)
          /\ r.kind \in {"request", "query", "force", "add"}
          /\ r.kind # "add" => r.id < nextId
          /\ r.pc = "queue" => r.kind # "add"
    /\ IF r.pc = "answer" THEN Known(r.got) /\ r.got.login = r.cred.login
                          ELSE r.got = NoToken
    /\ IF r.then = "paste"
       THEN /\ r.pc \in {"save", "write", "paste"} /\ r.kind = "relogin"
            /\ r.cred \in [login: Reissued, gen: {0}]
       ELSE r.pc \in {"queue", "send", "answer", "learn"} \/ r.cred = NoToken

TypeInv ==
    /\ PoolType
    /\ IsImage(file)
    /\ caller = [c \in Callers |-> caller[c]]
    /\ \A c \in Callers : CallerType(caller[c])

(* The locks: who is at the endpoint, an import apart, holds the one; who  *)
(* writes the file the other.                                              *)
LockInv ==
    \A c \in Callers :
        /\ caller[c].pc \in {"send", "answer"} /\ caller[c].kind # "add" => refreshLock = c
        /\ caller[c].pc = "write" <=> persistLock = c

(* The login a relogin is about to paste is nowhere else. *)
Lacks(f, l) == \A i \in DOMAIN f : f[i].login # l

Absent(l) ==
    /\ newest[l] = 0
    /\ \A i \in DOMAIN pool : pool[i].token.login # l
    /\ Lacks(file, l)
    /\ \A d \in Callers : Lacks(caller[d].snap, l)

Alone(c, l) ==
    /\ l # "none" /\ Absent(l)
    /\ \A d \in Callers \ {c} : caller[d].cred.login # l

ReloginInv ==
    \A c \in Callers : caller[c].then = "paste" => Alone(c, caller[c].cred.login)

(* Nobody about to save and nothing failed: who writes has the tokens of   *)
(* memory, and when nobody does the file has them.                         *)
SyncInv ==
    ~unsynced /\ At("save") = {} =>
        /\ \A c \in At("write") : caller[c].snap = Tokens(pool)
        /\ At("write") = {} => file = Tokens(pool)

(* What the endpoint just answered is a token nobody else has; without     *)
(* rotation it is the one that was sent.                                   *)
IsNew(c) ==
    IF rotates
    THEN /\ caller[c].got.gen > 0
         /\ \A i \in DOMAIN pool : pool[i].token # caller[c].got
         /\ \A i \in DOMAIN file : file[i] # caller[c].got
         /\ \A d \in Callers :
               /\ d \in At("answer") /\ d # c => caller[d].got # caller[c].got
               /\ \A i \in DOMAIN caller[d].snap : caller[d].snap[i] # caller[c].got
    ELSE caller[c].got = caller[c].cred

FreshInv == \A c \in At("answer") : IsNew(c)

(* s is no newer than t, or spent. *)
Behind(s, t) == s.login = t.login => s.gen <= t.gen \/ s.gen < newest[s.login]

(* Memory is ahead of every snapshot on its way, and that of the file,     *)
(* where no reload crossed a relogin.                                      *)
OrderInv ==
    /\ \A i \in (DOMAIN file \cap DOMAIN pool) \ crossed : Behind(file[i], pool[i].token)
    /\ \A c \in At("write") :
          /\ \A i \in (DOMAIN caller[c].snap \cap DOMAIN pool) \ crossed :
                Behind(caller[c].snap[i], pool[i].token)
          /\ \A i \in (DOMAIN caller[c].snap \cap DOMAIN file) \ crossed :
                Behind(file[i], caller[c].snap[i])

(* Who sends under the lock sends what memory holds, and nothing of the    *)
(* login that is saved or about to be is ahead of it.                      *)
SendsNewest(c) ==
    LET i == caller[c].id
    IN  /\ i \in DOMAIN pool /\ pool[i].token.login = caller[c].cred.login =>
              pool[i].token = caller[c].cred
        /\ i \in DOMAIN file \ crossed => Behind(file[i], caller[c].cred)
        /\ \A d \in At("write") : i \in DOMAIN caller[d].snap \ crossed =>
              Behind(caller[d].snap[i], caller[c].cred)

SendInv == \A c \in At("send") : caller[c].kind \in {"request", "query"} => SendsNewest(c)

(* The answer is the newest token of its login under the id it is for. *)
NotAhead(t, u) == t.login = u.login => t.gen <= u.gen

AnswersNewest(c) ==
    LET i == caller[c].id
    IN  /\ i \in DOMAIN pool => NotAhead(pool[i].token, caller[c].got)
        /\ i \in DOMAIN file => NotAhead(file[i], caller[c].got)
        /\ \A d \in At("write") :
              i \in DOMAIN caller[d].snap => NotAhead(caller[d].snap[i], caller[c].got)

AnswerInv == \A c \in At("answer") : caller[c].kind # "add" => AnswersNewest(c)

DataInv == SyncInv /\ FreshInv /\ OrderInv /\ SendInv /\ AnswerInv

RotationInv == TypeInv /\ LockInv /\ ReloginInv /\ DataInv

---------------------------------------------------------------------------
(* What each action does to the task that takes it; the others stay.       *)

Only(c) ==
    /\ caller' = [d \in Callers |-> caller'[d]]
    /\ \A d \in Callers \ {c} : caller'[d] = caller[d]

LEMMA BecomeEffect ==
    ASSUME TypeInv, NEW c \in Callers, NEW r, Become(c, r)
    PROVE  Only(c) /\ caller'[c] = r
BY DEF TypeInv, Become, Only

LEMMA DoneEffect ==
    ASSUME TypeInv, NEW c \in Callers, Done(c)
    PROVE  Only(c) /\ Task(caller'[c], "none", "idle", 0, NoToken, NoToken, <<>>, "idle")
<1>1. Task(Idle, "none", "idle", 0, NoToken, NoToken, <<>>, "idle")
  BY DEF Idle, Task
<1> QED
  BY <1>1, BecomeEffect DEF Done

LEMMA SavingEffect ==
    ASSUME TypeInv, NEW c \in Callers, NEW then, Saving(c, then)
    PROVE  /\ Only(c)
           /\ Task(caller'[c], caller[c].kind, "save", caller[c].id, NoToken, NoToken, <<>>,
                   then)
<1> DEFINE r == [Idle EXCEPT !.kind = caller[c].kind, !.id = caller[c].id, !.pc = "save",
                            !.then = then]
<1>1. Task(r, caller[c].kind, "save", caller[c].id, NoToken, NoToken, <<>>, then)
  BY DEF Idle, Task
<1>2. Become(c, r)
  BY DEF Saving
<1> HIDE DEF r
<1> QED
  BY <1>1, <1>2, BecomeEffect

LEMMA GotoFields ==
    ASSUME TypeInv, NEW c \in Callers, NEW pc, NEW x
    PROVE  LET r == caller[c]
           IN  /\ Task([r EXCEPT !.pc = pc], r.kind, pc, r.id, r.cred, r.got, r.snap, r.then)
               /\ Task([r EXCEPT !.pc = pc, !.cred = x], r.kind, pc, r.id, x, r.got, r.snap,
                       r.then)
               /\ Task([r EXCEPT !.pc = pc, !.got = x], r.kind, pc, r.id, r.cred, x, r.snap,
                       r.then)
               /\ Task([r EXCEPT !.pc = pc, !.snap = x], r.kind, pc, r.id, r.cred, r.got, x,
                       r.then)
<1>1. Task(caller[c], caller[c].kind, caller[c].pc, caller[c].id, caller[c].cred,
           caller[c].got, caller[c].snap, caller[c].then)
  BY DEF TypeInv, CallerType
<1> QED
  BY <1>1 DEF Task

IsIdle(r) == Task(r, "none", "idle", 0, NoToken, NoToken, <<>>, "idle")

LEMMA IdleIsIdle == IsIdle(Idle)
BY DEF IsIdle, Task, Idle

LEMMA StartEffect ==
    ASSUME TypeInv, NEW c \in Callers, NEW kind, NEW i, Start(c, kind, i)
    PROVE  /\ Only(c) /\ IsIdle(caller[c]) /\ i \in DOMAIN pool
           /\ kind \in {"request", "query", "force"}
           /\ \E pc \in {"queue", "learn"} :
                 Task(caller'[c], kind, pc, i, pool[i].token, NoToken, <<>>, "idle")
           /\ UNCHANGED <<pool, nextId, file, unsynced, crossed, refreshLock, persistLock,
                          newest, rotates>>
<1> DEFINE pc == IF kind = "force" \/ ~pool[i].fresh THEN "queue" ELSE "learn"
           r == [Idle EXCEPT !.kind = kind, !.id = i, !.cred = pool[i].token, !.pc = pc]
<1>1. Task(r, kind, pc, i, pool[i].token, NoToken, <<>>, "idle")
  BY DEF Idle, Task
<1>2. Become(c, r)
  BY DEF Start
<1>3. pc \in {"queue", "learn"}
  OBVIOUS
<1> HIDE DEF r, pc
<1> QED
  BY <1>1, <1>2, <1>3, BecomeEffect, IdleIsIdle DEF Start

LEMMA LockEffect ==
    ASSUME TypeInv, NEW c \in Callers, Lock(c)
    PROVE  LET r == caller[c]
               cred == IF r.kind = "force" THEN r.cred ELSE pool[r.id].token
           IN  /\ Only(c) /\ r.pc = "queue" /\ refreshLock = "free"
               /\ \/ /\ UNCHANGED refreshLock
                     /\ \/ IsIdle(caller'[c])
                        \/ Task(caller'[c], r.kind, "learn", r.id, r.cred, r.got, r.snap,
                                r.then)
                  \/ /\ refreshLock' = c
                     /\ r.kind # "force" => r.id \in DOMAIN pool
                     /\ Task(caller'[c], r.kind, "send", r.id, cred, r.got, r.snap, r.then)
               /\ UNCHANGED <<pool, nextId, file, unsynced, crossed, persistLock, newest,
                              rotates>>
<1> DEFINE r == caller[c]
           gone == r.id \notin DOMAIN pool /\ r.kind # "force"
           skip == r.kind # "force" /\ ~gone /\ pool[r.id].fresh
           cred == IF r.kind = "force" THEN r.cred ELSE pool[r.id].token
<1>1. CASE gone \/ skip
  <2>1. Task([r EXCEPT !.pc = "learn"], r.kind, "learn", r.id, r.cred, r.got, r.snap, r.then)
    BY GotoFields
  <2>2. Become(c, [r EXCEPT !.pc = "learn"]) \/ Done(c)
    BY <1>1 DEF Lock, Goto
  <2> QED
    BY <1>1, <2>1, <2>2, DoneEffect, BecomeEffect DEF Lock, IsIdle
<1>2. CASE ~(gone \/ skip)
  <2>1. /\ refreshLock' = c
        /\ Become(c, [r EXCEPT !.pc = "send", !.cred = cred])
    BY <1>2 DEF Lock, Reread
  <2>2. Task([r EXCEPT !.pc = "send", !.cred = cred], r.kind, "send", r.id, cred, r.got,
             r.snap, r.then)
    BY GotoFields
  <2> HIDE DEF cred
  <2>3. Only(c) /\ Task(caller'[c], r.kind, "send", r.id, cred, r.got, r.snap, r.then)
    BY <2>1, <2>2, BecomeEffect
  <2> QED
    BY <1>2, <2>1, <2>3 DEF Lock, cred
<1> QED
  BY <1>1, <1>2

LEMMA GrantedEffect ==
    ASSUME TypeInv, NEW c \in Callers, Granted(c)
    PROVE  LET r == caller[c]
               l == r.cred.login
           IN  /\ Only(c) /\ r.pc = "send"
               /\ r.cred.gen = newest[l]
               /\ newest' = [newest EXCEPT ![l] = @ + (IF rotates THEN 1 ELSE 0)]
               /\ Task(caller'[c], r.kind, "answer", r.id, r.cred, Token(l, newest'[l]),
                       r.snap, r.then)
               /\ UNCHANGED <<pool, nextId, file, unsynced, crossed, refreshLock, persistLock,
                              rotates>>
<1> DEFINE r == caller[c]
           l == r.cred.login
           t == Token(l, newest'[l])
<1>1. Become(c, [r EXCEPT !.pc = "answer", !.got = t])
  BY DEF Granted
<1>2. Task([r EXCEPT !.pc = "answer", !.got = t], r.kind, "answer", r.id, r.cred, t, r.snap,
           r.then)
  BY GotoFields
<1>3. Only(c) /\ Task(caller'[c], r.kind, "answer", r.id, r.cred, t, r.snap, r.then)
  BY <1>1, <1>2, BecomeEffect
<1> QED
  BY <1>3 DEF Granted

LEMMA FailsEffect ==
    ASSUME TypeInv, NEW c \in Callers, EndpointFails(c)
    PROVE  /\ Only(c) /\ caller[c].pc \in {"send", "answer"} /\ IsIdle(caller'[c])
           /\ Release(c)
           /\ UNCHANGED <<pool, nextId, file, unsynced, crossed, persistLock, newest, rotates>>
BY DoneEffect DEF EndpointFails, IsIdle

LEMMA RefusedEffect ==
    ASSUME TypeInv, NEW c \in Callers, Refused(c)
    PROVE  LET r == caller[c]
               i == r.id
           IN  /\ Only(c) /\ r.pc = "send" /\ IsIdle(caller'[c]) /\ Release(c)
               /\ r.cred.gen # newest[r.cred.login]
               /\ \/ UNCHANGED <<pool, unsynced, crossed>>
                  \/ /\ r.kind = "request" /\ i \in DOMAIN pool /\ i \in DOMAIN file
                     /\ pool' = [pool EXCEPT ![i] = Entry(file[i])] /\ unsynced' = TRUE
                     /\ crossed' = IF file[i].login = r.cred.login THEN crossed
                                                                   ELSE crossed \cup {i}
                  \/ /\ i \in DOMAIN pool /\ pool' = [pool EXCEPT ![i].disabled = TRUE]
                     /\ UNCHANGED <<unsynced, crossed>>
               /\ UNCHANGED <<nextId, file, persistLock, newest, rotates>>
BY DoneEffect DEF Refused, IsIdle

LEMMA WriteBackEffect ==
    ASSUME TypeInv, NEW c \in Callers, WriteBack(c)
    PROVE  LET r == caller[c]
           IN  /\ Only(c) /\ r.pc = "answer" /\ r.kind # "add"
               /\ \E then \in {"learn", "idle"} :
                     Task(caller'[c], r.kind, "save", r.id, NoToken, NoToken, <<>>, then)
               /\ pool' = IF r.id \in DOMAIN pool
                          THEN [pool EXCEPT ![r.id].token = r.got, ![r.id].fresh = TRUE]
                          ELSE pool
               /\ UNCHANGED <<nextId, file, unsynced, crossed, refreshLock, persistLock,
                              newest, rotates>>
BY SavingEffect DEF WriteBack, MustSave

LEMMA SnapshotEffect ==
    ASSUME TypeInv, NEW c \in Callers, Snapshot(c)
    PROVE  LET r == caller[c]
           IN  /\ Only(c) /\ r.pc = "save" /\ persistLock = "free" /\ persistLock' = c
               /\ Task(caller'[c], r.kind, "write", r.id, r.cred, r.got, Tokens(pool), r.then)
               /\ unsynced' = FALSE
               /\ UNCHANGED <<pool, nextId, file, crossed, refreshLock, newest, rotates>>
<1> DEFINE r == caller[c]
<1>1. Become(c, [r EXCEPT !.pc = "write", !.snap = Tokens(pool)])
  BY DEF Snapshot
<1>2. Task([r EXCEPT !.pc = "write", !.snap = Tokens(pool)], r.kind, "write", r.id, r.cred,
           r.got, Tokens(pool), r.then)
  BY GotoFields
<1>3. /\ Only(c)
      /\ Task(caller'[c], r.kind, "write", r.id, r.cred, r.got, Tokens(pool), r.then)
  BY <1>1, <1>2, BecomeEffect
<1> QED
  BY <1>3 DEF Snapshot, TakeSnapshot

LEMMA WriteEffect ==
    ASSUME TypeInv, NEW c \in Callers, NEW ok \in BOOLEAN, Write(c, ok)
    PROVE  LET r == caller[c]
           IN  /\ Only(c) /\ r.pc = "write"
               /\ file' = IF ok THEN r.snap ELSE file
               /\ unsynced' = (unsynced \/ ~ok)
               /\ persistLock' = IF persistLock = c THEN "free" ELSE persistLock
               /\ \/ IsIdle(caller'[c])
                  \/ /\ r.then # "idle"
                     /\ Task(caller'[c], r.kind, r.then, r.id, r.cred, r.got, <<>>, r.then)
               /\ Release(c)
               /\ UNCHANGED <<pool, nextId, crossed, newest, rotates>>
<1> DEFINE r == caller[c]
           s == [r EXCEPT !.pc = r.then, !.snap = <<>>]
<1>1. Done(c) \/ (r.then # "idle" /\ Become(c, s))
  BY DEF Write
<1>2. Task(s, r.kind, r.then, r.id, r.cred, r.got, <<>>, r.then)
  BY GotoFields
<1> HIDE DEF s
<1>3. /\ Only(c)
      /\ \/ IsIdle(caller'[c])
         \/ r.then # "idle" /\ Task(caller'[c], r.kind, r.then, r.id, r.cred, r.got, <<>>,
                                    r.then)
  BY <1>1, <1>2, BecomeEffect, DoneEffect DEF IsIdle
<1> QED
  BY <1>3 DEF Write

LEMMA LearnEffect ==
    ASSUME TypeInv, NEW c \in Callers, NEW b \in BOOLEAN, LearnAccount(c, b)
    PROVE  LET r == caller[c]
           IN  /\ Only(c) /\ r.pc = "learn"
               /\ \/ IsIdle(caller'[c])
                  \/ Task(caller'[c], r.kind, "save", r.id, NoToken, NoToken, <<>>, "idle")
               /\ UNCHANGED <<pool, nextId, file, unsynced, crossed, refreshLock, persistLock,
                              newest, rotates>>
BY DoneEffect, SavingEffect DEF LearnAccount, IsIdle

LEMMA StartAddEffect ==
    ASSUME TypeInv, NEW c \in Callers, NEW l \in Imports, StartAdd(c, l)
    PROVE  /\ Only(c) /\ IsIdle(caller[c])
           /\ Task(caller'[c], "add", "send", 0, Token(l, 0), NoToken, <<>>, "idle")
           /\ UNCHANGED <<pool, nextId, file, unsynced, crossed, refreshLock, persistLock,
                          newest, rotates>>
<1> DEFINE r == [Idle EXCEPT !.kind = "add", !.pc = "send", !.cred = Token(l, 0)]
<1>1. Task(r, "add", "send", 0, Token(l, 0), NoToken, <<>>, "idle")
  BY DEF Idle, Task
<1>2. Become(c, r)
  BY DEF StartAdd
<1> HIDE DEF r
<1> QED
  BY <1>1, <1>2, BecomeEffect, IdleIsIdle DEF StartAdd

LEMMA InsertEffect ==
    ASSUME TypeInv, NEW c \in Callers, Insert(c)
    PROVE  LET r == caller[c]
           IN  /\ Only(c) /\ r.pc = "answer" /\ r.kind = "add" /\ nextId' = nextId + 1
               /\ \/ IsIdle(caller'[c]) /\ Holds(pool, r.cred) /\ UNCHANGED pool
                  \/ /\ ~Holds(pool, r.cred)
                     /\ Task(caller'[c], r.kind, "save", r.id, NoToken, NoToken, <<>>, "idle")
                     /\ pool' = [i \in DOMAIN pool \cup {nextId} |->
                                   IF i \in DOMAIN pool THEN pool[i]
                                   ELSE [Entry(r.got) EXCEPT !.fresh = TRUE]]
               /\ UNCHANGED <<file, unsynced, crossed, refreshLock, persistLock, newest,
                              rotates>>
BY DoneEffect, SavingEffect DEF Insert, IsDuplicate, IsIdle

LEMMA DeleteEffect ==
    ASSUME TypeInv, NEW c \in Callers, NEW i, Delete(c, i)
    PROVE  /\ Only(c) /\ IsIdle(caller[c]) /\ pool' = Without(pool, i)
           /\ Task(caller'[c], "delete", "save", 0, NoToken, NoToken, <<>>, "idle")
           /\ UNCHANGED <<nextId, file, unsynced, crossed, refreshLock, persistLock, newest,
                          rotates>>
<1> DEFINE r == [Idle EXCEPT !.kind = "delete", !.pc = "save"]
<1>1. Task(r, "delete", "save", 0, NoToken, NoToken, <<>>, "idle")
  BY DEF Idle, Task
<1>2. Become(c, r)
  BY DEF Delete
<1> HIDE DEF r
<1> QED
  BY <1>1, <1>2, BecomeEffect, IdleIsIdle DEF Delete

LEMMA StartReloginEffect ==
    ASSUME TypeInv, NEW c \in Callers, NEW i, NEW l, StartRelogin(c, i, l)
    PROVE  /\ Only(c) /\ IsIdle(caller[c]) /\ i \in DOMAIN pool /\ Unseen(l)
           /\ pool' = [pool EXCEPT ![i].disabled = TRUE]
           /\ Task(caller'[c], "relogin", "save", i, Token(l, 0), NoToken, <<>>, "paste")
           /\ UNCHANGED <<nextId, file, unsynced, crossed, refreshLock, persistLock, newest,
                          rotates>>
<1> DEFINE r == [Idle EXCEPT !.kind = "relogin", !.id = i, !.pc = "save",
                            !.cred = Token(l, 0), !.then = "paste"]
<1>1. Task(r, "relogin", "save", i, Token(l, 0), NoToken, <<>>, "paste")
  BY DEF Idle, Task
<1>2. Become(c, r)
  BY DEF StartRelogin
<1> HIDE DEF r
<1> QED
  BY <1>1, <1>2, BecomeEffect, IdleIsIdle DEF StartRelogin

LEMMA PasteEffect ==
    ASSUME TypeInv, NEW c \in Callers, Paste(c)
    PROVE  LET r == caller[c]
           IN  /\ Only(c) /\ r.pc = "paste"
               /\ \/ IsIdle(caller'[c]) /\ UNCHANGED pool
                  \/ /\ r.id \in DOMAIN pool
                     /\ pool' = [pool EXCEPT ![r.id].token = r.cred, ![r.id].fresh = FALSE]
                     /\ Task(caller'[c], r.kind, "save", r.id, NoToken, NoToken, <<>>,
                             "enable")
               /\ UNCHANGED <<nextId, file, unsynced, crossed, refreshLock, persistLock,
                              newest, rotates>>
BY DoneEffect, SavingEffect DEF Paste, IsIdle

LEMMA EnableEffect ==
    ASSUME TypeInv, NEW c \in Callers, Enable(c)
    PROVE  LET r == caller[c]
           IN  /\ Only(c) /\ r.pc = "enable"
               /\ \/ IsIdle(caller'[c]) /\ UNCHANGED pool
                  \/ /\ r.id \in DOMAIN pool
                     /\ pool' = [pool EXCEPT ![r.id].disabled = FALSE]
                     /\ Task(caller'[c], r.kind, "save", r.id, NoToken, NoToken, <<>>, "idle")
               /\ UNCHANGED <<nextId, file, unsynced, crossed, refreshLock, persistLock,
                              newest, rotates>>
BY DoneEffect, SavingEffect DEF Enable, IsIdle

---------------------------------------------------------------------------
(* Types.                                                                  *)

LEMMA TaskFields ==
    ASSUME NEW r, NEW kind, NEW pc, NEW id, NEW cred, NEW got, NEW snap, NEW then,
           Task(r, kind, pc, id, cred, got, snap, then)
    PROVE  /\ r.kind = kind /\ r.pc = pc /\ r.id = id /\ r.cred = cred /\ r.got = got
           /\ r.snap = snap /\ r.then = then
BY DEF Task

(* The counter and the endpoint only go forward. *)
Grows ==
    /\ nextId \in Nat /\ nextId' \in Nat /\ nextId <= nextId'
    /\ newest \in [Logins -> Nat] /\ newest' \in [Logins -> Nat]
    /\ \A l \in Logins : newest[l] <= newest'[l]

LEMMA KnownGrows ==
    ASSUME Grows, NEW t, Known(t)
    PROVE  Known(t)'
BY DEF Grows, Known

LEMMA ImageGrows ==
    ASSUME Grows, NEW f, IsImage(f)
    PROVE  IsImage(f)'
BY KnownGrows DEF Grows, IsImage

LEMMA CallerGrows ==
    ASSUME Grows, NEW r, CallerType(r)
    PROVE  CallerType(r)'
BY KnownGrows, ImageGrows DEF Grows, CallerType

LEMMA SameGrows ==
    ASSUME TypeInv, UNCHANGED <<nextId, newest>>
    PROVE  Grows
BY DEF TypeInv, PoolType, Grows

LEMMA IdleType ==
    ASSUME NEW r, IsIdle(r)
    PROVE  CallerType(r)
<1>1. /\ r.kind = "none" /\ r.pc = "idle" /\ r.id = 0 /\ r.cred = NoToken
      /\ r.got = NoToken /\ r.snap = <<>> /\ r.then = "idle"
  BY TaskFields DEF IsIdle
<1> QED
  BY <1>1 DEF CallerType, IsIdle

LEMMA SaveType ==
    ASSUME NEW r, NEW kind, NEW id \in Nat, NEW then \in {"idle", "learn", "enable"},
           Task(r, kind, "save", id, NoToken, NoToken, <<>>, then)
    PROVE  CallerType(r)
<1>1. /\ r.kind = kind /\ r.pc = "save" /\ r.id = id /\ r.cred = NoToken
      /\ r.got = NoToken /\ r.snap = <<>> /\ r.then = then
  BY TaskFields
<1> QED
  BY <1>1 DEF CallerType

LEMMA TypeStep ==
    ASSUME TypeInv, Grows, NEW c \in Callers, Only(c), CallerType(caller[c])',
           PoolType', IsImage(file)'
    PROVE  TypeInv'
BY CallerGrows DEF TypeInv, Only

(* The pool of a step that changes no token and no id. *)
LEMMA PoolSame ==
    ASSUME TypeInv, Grows, UNCHANGED <<unsynced, rotates>>, UNCHANGED pool
    PROVE  PoolType'
BY KnownGrows DEF TypeInv, PoolType, Grows

PoolEntry == [token: [login: Logins, gen: Nat], fresh: BOOLEAN, disabled: BOOLEAN]

(* A step that changes one entry. *)
LEMMA EntryType ==
    ASSUME TypeInv, NEW i \in DOMAIN pool, NEW e \in PoolEntry, Known(e.token),
           pool' = [pool EXCEPT ![i] = e], UNCHANGED <<nextId, newest, rotates>>,
           unsynced' \in BOOLEAN
    PROVE  PoolType'
<1>1. /\ DOMAIN pool' = DOMAIN pool /\ pool'[i] = e
      /\ \A j \in DOMAIN pool \ {i} : pool'[j] = pool[j]
  BY DEF TypeInv, PoolType
<1>2. pool' \in [DOMAIN pool' -> PoolEntry]
  BY <1>1 DEF TypeInv, PoolType, PoolEntry
<1>3. \A j \in DOMAIN pool' : j \in Nat /\ j < nextId' /\ Known(pool[j].token)'
  BY <1>1 DEF TypeInv, PoolType, Known
<1> QED
  BY <1>2, <1>3 DEF TypeInv, PoolType, PoolEntry

LEMMA EntryOf ==
    ASSUME TypeInv, NEW i \in DOMAIN pool
    PROVE  pool[i] \in PoolEntry /\ Known(pool[i].token)
BY DEF TypeInv, PoolType, PoolEntry

(* A step that only changes a flag of one entry. *)
FlagStep(i) ==
    \E b \in BOOLEAN : \/ pool' = [pool EXCEPT ![i].disabled = b]
                       \/ pool' = [pool EXCEPT ![i].fresh = b]

LEMMA FlagType ==
    ASSUME TypeInv, NEW i \in DOMAIN pool, FlagStep(i)
    PROVE  /\ DOMAIN pool' = DOMAIN pool
           /\ \A j \in DOMAIN pool : pool'[j].token = pool[j].token
           /\ UNCHANGED <<nextId, newest, rotates>> /\ unsynced' \in BOOLEAN => PoolType'
<1>1. PICK b \in BOOLEAN : \/ pool' = [pool EXCEPT ![i].disabled = b]
                           \/ pool' = [pool EXCEPT ![i].fresh = b]
  BY DEF FlagStep
<1> DEFINE d == [pool[i] EXCEPT !.disabled = b]
           f == [pool[i] EXCEPT !.fresh = b]
<1>2. /\ d \in PoolEntry /\ d.token = pool[i].token
      /\ f \in PoolEntry /\ f.token = pool[i].token
  BY EntryOf DEF PoolEntry
<1>3. pool' = [pool EXCEPT ![i] = d] \/ pool' = [pool EXCEPT ![i] = f]
  BY <1>1
<1> HIDE DEF d, f
<1>4. PICK e \in PoolEntry : e.token = pool[i].token /\ pool' = [pool EXCEPT ![i] = e]
  BY <1>2, <1>3
<1>5. /\ DOMAIN pool' = DOMAIN pool
      /\ \A j \in DOMAIN pool : pool'[j].token = pool[j].token
  BY <1>4 DEF TypeInv, PoolType
<1> QED
  BY <1>4, <1>5, EntryOf, EntryType

(* A step that puts a token and a freshness into one entry. *)
LEMMA TokenType ==
    ASSUME TypeInv, NEW i \in DOMAIN pool, NEW t, Known(t), NEW b \in BOOLEAN,
           pool' = [pool EXCEPT ![i].token = t, ![i].fresh = b]
    PROVE  /\ DOMAIN pool' = DOMAIN pool /\ pool'[i].token = t
           /\ \A j \in DOMAIN pool \ {i} : pool'[j] = pool[j]
           /\ UNCHANGED <<nextId, newest, rotates, unsynced>> => PoolType'
<1> DEFINE e == [pool[i] EXCEPT !.token = t, !.fresh = b]
<1>1. e \in PoolEntry /\ e.token = t
  BY EntryOf DEF PoolEntry, Known
<1>2. pool' = [pool EXCEPT ![i] = e]
  BY EntryOf DEF PoolEntry
<1> HIDE DEF e
<1>3. /\ DOMAIN pool' = DOMAIN pool /\ pool'[i] = e
      /\ \A j \in DOMAIN pool \ {i} : pool'[j] = pool[j]
  BY <1>2 DEF TypeInv, PoolType
<1>4. unsynced \in BOOLEAN
  BY DEF TypeInv, PoolType
<1> QED
  BY <1>1, <1>2, <1>3, <1>4, EntryType

LEMMA StartType ==
    ASSUME TypeInv, NEW c \in Callers, NEW kind, NEW i, Start(c, kind, i)
    PROVE  TypeInv'
<1>1. PICK pc \in {"queue", "learn"} :
        Task(caller'[c], kind, pc, i, pool[i].token, NoToken, <<>>, "idle")
  BY StartEffect
<1>2. LET r == caller'[c]
      IN  /\ r.kind = kind /\ r.pc = pc /\ r.id = i /\ r.cred = pool[i].token
          /\ r.got = NoToken /\ r.snap = <<>> /\ r.then = "idle"
  BY <1>1, TaskFields
<1>3. /\ i \in DOMAIN pool /\ kind \in {"request", "query", "force"}
      /\ UNCHANGED <<nextId, newest>>
  BY StartEffect
<1>4. CallerType(caller'[c])
  BY <1>1, <1>2, <1>3 DEF CallerType, TypeInv, PoolType, Known
<1> QED
  BY <1>4, StartEffect, SameGrows, TypeStep, CallerGrows, PoolSame, ImageGrows DEF TypeInv

LEMMA LockType ==
    ASSUME TypeInv, NEW c \in Callers, Lock(c)
    PROVE  TypeInv'
<1> DEFINE r == caller[c]
           cred == IF r.kind = "force" THEN r.cred ELSE pool[r.id].token
<1>1. /\ r.pc = "queue" /\ CallerType(r)
      /\ UNCHANGED <<pool, nextId, file, unsynced, newest, rotates>>
  BY LockEffect DEF TypeInv
<1>2. r.snap = <<>> /\ r.got = NoToken /\ r.then # "paste" /\ r.id \in Nat
  BY <1>1 DEF CallerType
<1>3. CASE Task(caller'[c], r.kind, "learn", r.id, r.cred, r.got, r.snap, r.then)
  <2>1. LET s == caller'[c]
        IN  /\ s.kind = r.kind /\ s.pc = "learn" /\ s.id = r.id /\ s.cred = r.cred
            /\ s.got = r.got /\ s.snap = r.snap /\ s.then = r.then
    BY <1>3, TaskFields
  <2> QED
    BY <1>1, <1>2, <1>3, <2>1, LockEffect, SameGrows, TypeStep, CallerGrows, PoolSame,
       ImageGrows DEF TypeInv, CallerType
<1>4. CASE /\ r.kind # "force" => r.id \in DOMAIN pool
           /\ Task(caller'[c], r.kind, "send", r.id, cred, r.got, r.snap, r.then)
  <2>1. LET s == caller'[c]
        IN  /\ s.kind = r.kind /\ s.pc = "send" /\ s.id = r.id /\ s.cred = cred
            /\ s.got = r.got /\ s.snap = r.snap /\ s.then = r.then
    BY <1>4, TaskFields
  <2>2. Known(cred)
    BY <1>1, <1>4 DEF CallerType, TypeInv, PoolType
  <2> HIDE DEF cred
  <2>3. CallerType(caller'[c])
    BY <1>1, <1>2, <1>4, <2>1, <2>2 DEF CallerType
  <2> QED
    BY <1>1, <2>3, LockEffect, SameGrows, TypeStep, CallerGrows, PoolSame, ImageGrows
       DEF TypeInv
<1>5. CASE IsIdle(caller'[c])
  BY <1>1, <1>5, LockEffect, SameGrows, TypeStep, CallerGrows, IdleType, PoolSame, ImageGrows
     DEF TypeInv
<1> QED
  BY <1>3, <1>4, <1>5, LockEffect

LEMMA GrantedGrows ==
    ASSUME TypeInv, NEW c \in Callers, Granted(c)
    PROVE  /\ Grows
           /\ caller[c].cred.login \in Logins
           /\ newest'[caller[c].cred.login] =
                 caller[c].cred.gen + (IF rotates THEN 1 ELSE 0)
           /\ \A l \in Logins \ {caller[c].cred.login} : newest'[l] = newest[l]
<1>1. caller[c].cred.login \in Logins
  BY GrantedEffect DEF TypeInv, CallerType, Known
<1>2. /\ newest' = [newest EXCEPT ![caller[c].cred.login] = @ + (IF rotates THEN 1 ELSE 0)]
      /\ caller[c].cred.gen = newest[caller[c].cred.login] /\ nextId' = nextId
  BY GrantedEffect
<1> QED
  BY <1>1, <1>2 DEF Grows, TypeInv, PoolType

LEMMA GrantedType ==
    ASSUME TypeInv, NEW c \in Callers, Granted(c)
    PROVE  TypeInv'
<1> DEFINE r == caller[c]
<1>0. PICK l, t : l = r.cred.login /\ t = Token(l, newest'[l])
  OBVIOUS
<1>1. Task(caller'[c], r.kind, "answer", r.id, r.cred, t, r.snap, r.then)
  BY <1>0, GrantedEffect
<1>2. LET s == caller'[c]
      IN  /\ s.kind = r.kind /\ s.pc = "answer" /\ s.id = r.id /\ s.cred = r.cred
          /\ s.got = t /\ s.snap = r.snap /\ s.then = r.then
  BY <1>1, TaskFields
<1>3. /\ r.pc = "send" /\ CallerType(r)
      /\ UNCHANGED <<pool, nextId, file, unsynced, rotates>>
  BY GrantedEffect DEF TypeInv
<1>4. Grows /\ l \in Logins
  BY <1>0, GrantedGrows
<1>5. Known(t)' /\ t.login = l
  BY <1>0, <1>4 DEF Known, Token, Grows
<1>6. Known(r.cred) => Known(caller[c].cred)'
  BY <1>2, <1>4, KnownGrows
<1>7. CallerType(caller[c])'
  BY <1>0, <1>1, <1>2, <1>3, <1>4, <1>5, <1>6 DEF CallerType
<1> QED
  BY <1>3, <1>4, <1>7, GrantedEffect, TypeStep, PoolSame, ImageGrows DEF TypeInv

LEMMA FailsType ==
    ASSUME TypeInv, NEW c \in Callers, EndpointFails(c)
    PROVE  TypeInv'
BY FailsEffect, SameGrows, TypeStep, CallerGrows, IdleType, PoolSame, ImageGrows DEF TypeInv

LEMMA RefusedType ==
    ASSUME TypeInv, NEW c \in Callers, Refused(c)
    PROVE  TypeInv'
<1> DEFINE i == caller[c].id
<1>1. PoolType'
  <2>1. CASE UNCHANGED <<pool, unsynced, crossed>>
    BY <2>1, RefusedEffect, SameGrows, PoolSame
  <2>2. CASE /\ i \in DOMAIN pool /\ i \in DOMAIN file /\ unsynced' = TRUE
             /\ pool' = [pool EXCEPT ![i] = Entry(file[i])]
    <3>1. Entry(file[i]) \in PoolEntry /\ Entry(file[i]).token = file[i] /\ Known(file[i])
      BY <2>2 DEF TypeInv, IsImage, Known, Entry, PoolEntry
    <3> QED
      BY <2>2, <3>1, RefusedEffect, EntryType
  <2>3. CASE /\ i \in DOMAIN pool /\ pool' = [pool EXCEPT ![i].disabled = TRUE]
             /\ UNCHANGED unsynced
    BY <2>3, RefusedEffect, FlagType DEF FlagStep, TypeInv, PoolType
  <2> QED
    BY <2>1, <2>2, <2>3, RefusedEffect
<1> QED
  BY <1>1, RefusedEffect, SameGrows, TypeStep, CallerGrows, IdleType, ImageGrows DEF TypeInv

LEMMA WriteBackType ==
    ASSUME TypeInv, NEW c \in Callers, WriteBack(c)
    PROVE  TypeInv'
<1> DEFINE r == caller[c]
<1>1. /\ r.pc = "answer" /\ CallerType(r)
      /\ UNCHANGED <<nextId, file, unsynced, newest, rotates>>
      /\ pool' = IF r.id \in DOMAIN pool
                 THEN [pool EXCEPT ![r.id].token = r.got, ![r.id].fresh = TRUE] ELSE pool
  BY WriteBackEffect DEF TypeInv
<1>2. Known(r.got) /\ r.id \in Nat
  BY <1>1 DEF CallerType
<1>3. PoolType'
  BY <1>1, <1>2, TokenType, SameGrows, PoolSame
<1>4. CallerType(caller'[c])
  BY <1>2, WriteBackEffect, SaveType
<1> QED
  BY <1>1, <1>3, <1>4, WriteBackEffect, SameGrows, TypeStep, CallerGrows, ImageGrows
     DEF TypeInv

LEMMA TokensImage ==
    ASSUME TypeInv
    PROVE  /\ IsImage(Tokens(pool)) /\ DOMAIN Tokens(pool) = DOMAIN pool
           /\ \A i \in DOMAIN pool : Tokens(pool)[i] = pool[i].token
BY DEF TypeInv, PoolType, Tokens, IsImage

LEMMA SnapshotType ==
    ASSUME TypeInv, NEW c \in Callers, Snapshot(c)
    PROVE  TypeInv'
<1> DEFINE r == caller[c]
           t == Tokens(pool)
<1>1. Task(caller'[c], r.kind, "write", r.id, r.cred, r.got, t, r.then)
  BY SnapshotEffect
<1>2. LET s == caller'[c]
      IN  /\ s.kind = r.kind /\ s.pc = "write" /\ s.id = r.id /\ s.cred = r.cred
          /\ s.got = r.got /\ s.snap = t /\ s.then = r.then
  BY <1>1, TaskFields
<1>3. /\ r.pc = "save" /\ CallerType(r) /\ unsynced' = FALSE
      /\ UNCHANGED <<pool, nextId, file, newest, rotates>>
  BY SnapshotEffect DEF TypeInv
<1>4. CallerType(caller'[c])
  BY <1>1, <1>2, <1>3, TokensImage DEF CallerType
<1>5. PoolType'
  BY <1>3 DEF TypeInv, PoolType, Known
<1> QED
  BY <1>3, <1>4, <1>5, SnapshotEffect, SameGrows, TypeStep, CallerGrows, ImageGrows DEF TypeInv

LEMMA WriteType ==
    ASSUME TypeInv, NEW c \in Callers, NEW ok \in BOOLEAN, Write(c, ok)
    PROVE  TypeInv'
<1> DEFINE r == caller[c]
<1>1. /\ r.pc = "write" /\ CallerType(r) /\ unsynced' \in BOOLEAN
      /\ file' = IF ok THEN r.snap ELSE file
      /\ UNCHANGED <<pool, nextId, newest, rotates>>
  BY WriteEffect DEF TypeInv, PoolType
<1>2. CallerType(caller'[c])
  <2>1. CASE /\ r.then # "idle"
             /\ Task(caller'[c], r.kind, r.then, r.id, r.cred, r.got, <<>>, r.then)
    <3>1. LET s == caller'[c]
          IN  /\ s.kind = r.kind /\ s.pc = r.then /\ s.id = r.id /\ s.cred = r.cred
              /\ s.got = r.got /\ s.snap = <<>> /\ s.then = r.then
      BY <2>1, TaskFields
    <3> QED
      BY <1>1, <2>1, <3>1 DEF CallerType
  <2> QED
    BY <2>1, WriteEffect, IdleType
<1>3. PoolType'
  BY <1>1 DEF TypeInv, PoolType, Known
<1>4. IsImage(file')
  BY <1>1 DEF TypeInv, CallerType
<1> QED
  BY <1>1, <1>2, <1>3, <1>4, WriteEffect, SameGrows, TypeStep, CallerGrows, ImageGrows

LEMMA LearnType ==
    ASSUME TypeInv, NEW c \in Callers, NEW b \in BOOLEAN, LearnAccount(c, b)
    PROVE  TypeInv'
<1>1. CallerType(caller'[c])
  BY LearnEffect, SaveType, IdleType DEF TypeInv, CallerType
<1> QED
  BY <1>1, LearnEffect, SameGrows, TypeStep, CallerGrows, PoolSame, ImageGrows DEF TypeInv

LEMMA StartAddType ==
    ASSUME TypeInv, NEW c \in Callers, NEW l \in Imports, StartAdd(c, l)
    PROVE  TypeInv'
<1>1. Task(caller'[c], "add", "send", 0, Token(l, 0), NoToken, <<>>, "idle")
  BY StartAddEffect
<1>2. LET r == caller'[c]
      IN  /\ r.kind = "add" /\ r.pc = "send" /\ r.id = 0 /\ r.cred = Token(l, 0)
          /\ r.got = NoToken /\ r.snap = <<>> /\ r.then = "idle"
  BY <1>1, TaskFields
<1>3. Known(Token(l, 0))
  BY DEF Token, Logins, Known, TypeInv, PoolType
<1>4. CallerType(caller'[c])
  BY <1>1, <1>2, <1>3 DEF CallerType
<1> QED
  BY <1>4, StartAddEffect, SameGrows, TypeStep, CallerGrows, PoolSame, ImageGrows DEF TypeInv

(* A new entry under the next id. *)
LEMMA InsertedEntry ==
    ASSUME TypeInv, NEW c \in Callers, Insert(c), ~Holds(pool, caller[c].cred)
    PROVE  /\ DOMAIN pool' = DOMAIN pool \cup {nextId} /\ nextId \notin DOMAIN pool
           /\ pool'[nextId].token = caller[c].got /\ pool'[nextId] \in PoolEntry
           /\ \A i \in DOMAIN pool : pool'[i] = pool[i]
           /\ Known(caller[c].got)
<1> DEFINE e == [Entry(caller[c].got) EXCEPT !.fresh = TRUE]
<1>1. nextId \notin DOMAIN pool
  BY DEF TypeInv, PoolType
<1>2. Known(caller[c].got)
  BY InsertEffect DEF TypeInv, CallerType
<1>3. e \in PoolEntry /\ e.token = caller[c].got
  BY <1>2 DEF Entry, PoolEntry, Known
<1>4. pool' = [i \in DOMAIN pool \cup {nextId} |-> IF i \in DOMAIN pool THEN pool[i] ELSE e]
  BY InsertEffect
<1> HIDE DEF e
<1> QED
  BY <1>1, <1>2, <1>3, <1>4

LEMMA InsertType ==
    ASSUME TypeInv, NEW c \in Callers, Insert(c)
    PROVE  TypeInv'
<1>1. /\ nextId' = nextId + 1 /\ UNCHANGED <<file, unsynced, newest, rotates>>
      /\ Only(c)
  BY InsertEffect
<1>2. Grows
  BY <1>1 DEF TypeInv, PoolType, Grows
<1>3. CallerType(caller'[c])
  BY InsertEffect, IdleType, SaveType DEF TypeInv, CallerType
<1>4. PoolType'
  <2>1. CASE Holds(pool, caller[c].cred)
    BY <1>1, <1>2, <2>1, InsertEffect, PoolSame
  <2>2. CASE ~Holds(pool, caller[c].cred)
    <3>1. /\ DOMAIN pool' = DOMAIN pool \cup {nextId} /\ nextId \notin DOMAIN pool
          /\ pool'[nextId].token = caller[c].got /\ pool'[nextId] \in PoolEntry
          /\ \A i \in DOMAIN pool : pool'[i] = pool[i]
          /\ Known(caller[c].got)
      BY <2>2, InsertedEntry
    <3>2. \A i \in DOMAIN pool' : pool'[i] \in PoolEntry
      BY <3>1, EntryOf
    <3>3. pool' = [i \in DOMAIN pool' |-> pool'[i]]
      BY <2>2, InsertEffect
    <3>4. pool' \in [DOMAIN pool' -> PoolEntry]
      BY <3>2, <3>3
    <3>5. \A i \in DOMAIN pool' : i \in Nat /\ i < nextId' /\ Known(pool[i].token)'
      BY <1>1, <3>1 DEF TypeInv, PoolType, Known
    <3> QED
      BY <1>1, <3>4, <3>5 DEF TypeInv, PoolType, PoolEntry
  <2> QED
    BY <2>1, <2>2
<1> QED
  BY <1>1, <1>2, <1>3, <1>4, TypeStep, CallerGrows, ImageGrows DEF TypeInv

LEMMA DeleteType ==
    ASSUME TypeInv, NEW c \in Callers, NEW i, Delete(c, i)
    PROVE  TypeInv'
<1>1. PoolType'
  <2>1. /\ DOMAIN pool' = DOMAIN pool \ {i}
        /\ \A j \in DOMAIN pool' : pool'[j] = pool[j]
        /\ pool' = [j \in DOMAIN pool' |-> pool[j]]
    BY DeleteEffect DEF Without
  <2>2. pool' \in [DOMAIN pool' -> PoolEntry]
    BY <2>1, EntryOf
  <2> QED
    BY <2>1, <2>2, DeleteEffect DEF TypeInv, PoolType, PoolEntry, Known
<1>2. CallerType(caller'[c])
  BY DeleteEffect, SaveType
<1> QED
  BY <1>1, <1>2, DeleteEffect, SameGrows, TypeStep, CallerGrows, ImageGrows DEF TypeInv

LEMMA StartReloginType ==
    ASSUME TypeInv, NEW c \in Callers, NEW i, NEW l \in Reissued, StartRelogin(c, i, l)
    PROVE  TypeInv'
<1>1. Task(caller'[c], "relogin", "save", i, Token(l, 0), NoToken, <<>>, "paste")
  BY StartReloginEffect
<1>2. LET r == caller'[c]
      IN  /\ r.kind = "relogin" /\ r.pc = "save" /\ r.id = i /\ r.cred = Token(l, 0)
          /\ r.got = NoToken /\ r.snap = <<>> /\ r.then = "paste"
  BY <1>1, TaskFields
<1>3. Token(l, 0) \in [login: Reissued, gen: {0}] /\ i \in Nat
  BY StartReloginEffect DEF Token, TypeInv, PoolType
<1>4. CallerType(caller'[c])
  BY <1>1, <1>2, <1>3 DEF CallerType
<1>5. PoolType'
  BY StartReloginEffect, FlagType DEF FlagStep, TypeInv, PoolType
<1> QED
  BY <1>4, <1>5, StartReloginEffect, SameGrows, TypeStep, CallerGrows, ImageGrows DEF TypeInv

LEMMA PasteKnown ==
    ASSUME TypeInv, NEW c \in Callers, Paste(c), ~IsIdle(caller'[c])
    PROVE  caller[c].then = "paste" /\ Known(caller[c].cred)
<1>1. CallerType(caller[c]) /\ caller[c].pc = "paste"
  BY PasteEffect DEF TypeInv
<1> QED
  BY <1>1 DEF CallerType, Known, Logins, TypeInv, PoolType

LEMMA PasteType ==
    ASSUME TypeInv, NEW c \in Callers, Paste(c)
    PROVE  TypeInv'
<1>1. CallerType(caller'[c])
  BY PasteEffect, IdleType, SaveType DEF TypeInv, CallerType
<1>2. PoolType'
  <2>1. CASE UNCHANGED pool
    BY <2>1, PasteEffect, SameGrows, PoolSame
  <2>2. CASE /\ caller[c].id \in DOMAIN pool /\ ~IsIdle(caller'[c])
             /\ pool' = [pool EXCEPT ![caller[c].id].token = caller[c].cred,
                                    ![caller[c].id].fresh = FALSE]
    <3>1. Known(caller[c].cred)
      BY <2>2, PasteKnown
    <3> QED
      BY <2>2, <3>1, PasteEffect, TokenType
  <2>3. ~IsIdle(caller'[c]) \/ UNCHANGED pool
    <3>1. CASE Task(caller'[c], caller[c].kind, "save", caller[c].id, NoToken, NoToken, <<>>,
                    "enable")
      BY <3>1, TaskFields DEF IsIdle
    <3> QED
      BY <3>1, PasteEffect
  <2> QED
    BY <2>1, <2>2, <2>3, PasteEffect
<1> QED
  BY <1>1, <1>2, PasteEffect, SameGrows, TypeStep, CallerGrows, ImageGrows DEF TypeInv

LEMMA EnableType ==
    ASSUME TypeInv, NEW c \in Callers, Enable(c)
    PROVE  TypeInv'
<1>1. CallerType(caller'[c])
  BY EnableEffect, IdleType, SaveType DEF TypeInv, CallerType
<1>2. PoolType'
  BY EnableEffect, FlagType, SameGrows, PoolSame DEF FlagStep, TypeInv, PoolType
<1> QED
  BY <1>1, <1>2, EnableEffect, SameGrows, TypeStep, CallerGrows, ImageGrows DEF TypeInv

LEMMA ExpireType ==
    ASSUME TypeInv, NEW i, Expire(i)
    PROVE  TypeInv'
<1>1. /\ i \in DOMAIN pool /\ FlagStep(i)
      /\ UNCHANGED <<nextId, file, unsynced, caller, newest, rotates>>
  BY DEF Expire, FlagStep
<1>2. PoolType'
  BY <1>1, FlagType DEF TypeInv, PoolType
<1>3. IsImage(file)' /\ \A c \in Callers : CallerType(caller[c])'
  BY <1>1, SameGrows, ImageGrows, CallerGrows DEF TypeInv
<1> QED
  BY <1>1, <1>2, <1>3 DEF TypeInv

(* A process that starts again has the tokens of its file. *)
LEMMA RestartEffect ==
    ASSUME TypeInv, Restart
    PROVE  /\ DOMAIN pool' = DOMAIN file
           /\ \A i \in DOMAIN file : pool'[i] \in PoolEntry /\ pool'[i].token = file[i]
           /\ pool' = [i \in DOMAIN file |-> pool'[i]]
           /\ caller' = [c \in Callers |-> Idle] /\ \A c \in Callers : IsIdle(caller'[c])
           /\ refreshLock' = "free" /\ persistLock' = "free" /\ unsynced' = FALSE
           /\ nextId' \in Nat \ {0} /\ nextId' <= nextId /\ \A i \in DOMAIN file : i < nextId'
           /\ UNCHANGED <<file, newest, rotates>>
<1>1. pool' = [i \in DOMAIN file |-> Entry(file[i])]
  BY DEF Restart
<1>2. \A i \in DOMAIN file : Entry(file[i]) \in PoolEntry /\ Entry(file[i]).token = file[i]
  BY DEF TypeInv, IsImage, Known, Entry, PoolEntry
<1>3. nextId' \in Nat \ {0} /\ nextId' <= nextId /\ \A i \in DOMAIN file : i < nextId'
  <2>1. nextId \in Nat \ {0} /\ \A i \in DOMAIN file : i \in Nat /\ i < nextId
    BY DEF TypeInv, PoolType, IsImage
  <2> QED
    BY <2>1 DEF Restart
<1> QED
  BY <1>1, <1>2, <1>3, IdleIsIdle DEF Restart

LEMMA RestartType ==
    ASSUME TypeInv, Restart
    PROVE  TypeInv'
<1>1. PoolType'
  <2>1. pool' \in [DOMAIN pool' -> PoolEntry]
    BY RestartEffect
  <2>2. \A i \in DOMAIN pool' : i \in Nat /\ i < nextId' /\ Known(pool[i].token)'
    BY RestartEffect DEF TypeInv, IsImage, Known
  <2> QED
    BY <2>1, <2>2, RestartEffect DEF PoolType, TypeInv, PoolEntry
<1>2. IsImage(file)'
  BY RestartEffect DEF TypeInv, IsImage, Known
<1>3. \A c \in Callers : CallerType(caller[c])'
  <2>1. ASSUME NEW c \in Callers
        PROVE  CallerType(caller[c])'
    <3>1. IsIdle(caller'[c])
      BY RestartEffect
    <3>2. LET r == caller'[c]
          IN  /\ r.kind = "none" /\ r.pc = "idle" /\ r.id = 0 /\ r.cred = NoToken
              /\ r.got = NoToken /\ r.snap = <<>> /\ r.then = "idle"
      BY <3>1, TaskFields DEF IsIdle
    <3> QED
      BY <3>1, <3>2 DEF CallerType, IsIdle
  <2> QED
    BY <2>1
<1> QED
  BY <1>1, <1>2, <1>3, RestartEffect DEF TypeInv

LEMMA InitType == RotationInit => TypeInv /\ \A c \in Callers : IsIdle(caller[c])
<1> SUFFICES ASSUME RotationInit
             PROVE  TypeInv /\ \A c \in Callers : IsIdle(caller[c])
  OBVIOUS
<1>0. PICK t : /\ t \in [login: Imports, gen: {0}]
               /\ pool = [i \in {1} |-> Entry(t)]
  <2>1. (CHOOSE l \in Imports : TRUE) \in Imports
    BY TokenRotationAssumption
  <2> QED
    BY <2>1 DEF RotationInit, Token
<1>1. Known(t)
  BY <1>0 DEF Known, Logins, RotationInit
<1>2. Entry(t) \in PoolEntry /\ Entry(t).token = t
  BY <1>1 DEF Entry, PoolEntry, Known
<1>3. PoolType
  <2>1. DOMAIN pool = {1} /\ pool[1] = Entry(t)
    BY <1>0
  <2>2. pool \in [DOMAIN pool -> PoolEntry]
    BY <1>0, <1>2
  <2>3. \A i \in DOMAIN pool : i \in Nat /\ i < 2 /\ Known(pool[i].token)
    BY <1>1, <1>2, <2>1
  <2>4. nextId = 2 /\ newest \in [Logins -> Nat]
    BY DEF RotationInit
  <2>5. rotates \in BOOLEAN /\ unsynced \in BOOLEAN
    BY DEF RotationInit
  <2>6. nextId \in Nat \ {0}
    BY <2>4
  <2>7. \A i \in DOMAIN pool : i \in Nat /\ i < nextId /\ Known(pool[i].token)
    BY <2>3, <2>4
  <2> QED
    BY <2>2, <2>4, <2>5, <2>6, <2>7 DEF PoolType, PoolEntry
<1>4. IsImage(file)
  <2>1. /\ file = [i \in DOMAIN pool |-> pool[i].token] /\ nextId = 2
    BY DEF Tokens, RotationInit
  <2>2. DOMAIN pool = {1} /\ pool[1].token = t
    BY <1>0, <1>2
  <2>3. DOMAIN file = {1} /\ file[1] = t
    BY <2>1, <2>2
  <2>4. file = [i \in DOMAIN file |-> file[i]]
    BY <2>1
  <2> QED
    BY <1>1, <2>1, <2>3, <2>4 DEF IsImage
<1>5. \A c \in Callers : IsIdle(caller[c])
  BY IdleIsIdle DEF RotationInit
<1> QED
  BY <1>3, <1>4, <1>5, IdleType DEF TypeInv, RotationInit

LEMMA NextType ==
    ASSUME TypeInv, [RotationNext]_rotationVars
    PROVE  TypeInv'
<1>1. CASE UNCHANGED rotationVars
  <2>1. UNCHANGED <<pool, nextId, file, unsynced, caller, newest, rotates>>
    BY <1>1 DEF rotationVars
  <2>2. IsImage(file)' /\ \A c \in Callers : CallerType(caller[c])'
    BY <2>1, SameGrows, ImageGrows, CallerGrows DEF TypeInv
  <2> QED
    BY <2>1, <2>2, SameGrows, PoolSame DEF TypeInv
<1>2. ASSUME NEW c \in Callers,
             \/ \E kind \in Kinds, i \in DOMAIN pool : Start(c, kind, i)
             \/ Lock(c) \/ Granted(c) \/ EndpointFails(c) \/ Refused(c) \/ WriteBack(c)
             \/ Snapshot(c)
             \/ \E b \in BOOLEAN : Write(c, b) \/ LearnAccount(c, b)
      PROVE  TypeInv'
  BY <1>2, StartType, LockType, GrantedType, FailsType, RefusedType, WriteBackType,
     SnapshotType, WriteType, LearnType
<1>3. ASSUME NEW c \in Callers,
             \/ \E l \in Imports : StartAdd(c, l)
             \/ Insert(c)
             \/ \E i \in DOMAIN pool : Delete(c, i) \/ \E l \in Reissued : StartRelogin(c, i, l)
             \/ Paste(c) \/ Enable(c)
      PROVE  TypeInv'
  BY <1>3, StartAddType, InsertType, DeleteType, StartReloginType, PasteType, EnableType
<1> QED
  BY <1>1, <1>2, <1>3, ExpireType, RestartType DEF RotationNext

---------------------------------------------------------------------------
(* The locks.                                                              *)

LEMMA IdleFields ==
    ASSUME NEW r, IsIdle(r)
    PROVE  /\ r.kind = "none" /\ r.pc = "idle" /\ r.id = 0 /\ r.cred = NoToken
           /\ r.got = NoToken /\ r.snap = <<>> /\ r.then = "idle"
BY TaskFields DEF IsIdle

AtEndpoint(r) == r.pc \in {"send", "answer"} /\ r.kind # "add"

(* A step of c takes or frees a lock for c only. *)
LEMMA LockStep ==
    ASSUME LockInv, NEW c \in Callers, Only(c),
           AtEndpoint(caller'[c]) => refreshLock' = c,
           refreshLock' = refreshLock \/ refreshLock \in {c, "free"},
           caller'[c].pc = "write" <=> persistLock' = c,
           persistLock' = persistLock \/
             (persistLock \in {c, "free"} /\ persistLock' \in {c, "free"})
    PROVE  LockInv'
<1>1. ASSUME NEW d \in Callers \ {c}
      PROVE  /\ AtEndpoint(caller'[d]) => refreshLock' = d
             /\ caller'[d].pc = "write" <=> persistLock' = d
  <2>1. caller'[d] = caller[d] /\ d # "free"
    BY TokenRotationAssumption DEF Only
  <2> QED
    BY <2>1 DEF LockInv, AtEndpoint
<1> QED
  BY <1>1 DEF LockInv, AtEndpoint

LEMMA TaskLocks ==
    ASSUME TypeInv, LockInv, NEW c \in Callers,
           \/ \E kind \in Kinds, i \in DOMAIN pool : Start(c, kind, i)
           \/ Lock(c) \/ Granted(c) \/ EndpointFails(c) \/ Refused(c) \/ WriteBack(c)
           \/ Snapshot(c)
           \/ \E b \in BOOLEAN : Write(c, b) \/ LearnAccount(c, b)
    PROVE  LockInv'
<1>0. /\ caller[c].pc = "write" <=> persistLock = c
      /\ AtEndpoint(caller[c]) => refreshLock = c
      /\ c # "free"
  BY TokenRotationAssumption DEF LockInv, AtEndpoint
<1>1. ASSUME NEW kind, NEW i, Start(c, kind, i)
      PROVE  LockInv'
  <2>1. IsIdle(caller[c]) /\ caller'[c].pc \in {"queue", "learn"}
    BY <1>1, StartEffect, TaskFields
  <2> QED
    BY <1>0, <1>1, <2>1, IdleFields, StartEffect, LockStep DEF AtEndpoint
<1>2. CASE Lock(c)
  <2>1. /\ caller'[c].pc \in {"idle", "learn", "send"}
        /\ caller'[c].pc = "send" => refreshLock' = c
    <3>1. CASE IsIdle(caller'[c])
      BY <3>1, IdleFields
    <3>2. CASE ~IsIdle(caller'[c])
      BY <1>2, <3>2, LockEffect, TaskFields
    <3> QED
      BY <3>1, <3>2
  <2> QED
    BY <1>0, <1>2, <2>1, LockEffect, LockStep DEF AtEndpoint
<1>3. CASE Granted(c)
  <2>1. caller'[c].pc = "answer" /\ caller'[c].kind = caller[c].kind
    BY <1>3, GrantedEffect, TaskFields
  <2> QED
    BY <1>0, <1>3, <2>1, GrantedEffect, LockStep DEF AtEndpoint
<1>4. CASE EndpointFails(c)
  BY <1>0, <1>4, FailsEffect, IdleFields, LockStep DEF AtEndpoint, Release
<1>5. CASE Refused(c)
  BY <1>0, <1>5, RefusedEffect, IdleFields, LockStep DEF AtEndpoint, Release
<1>6. CASE WriteBack(c)
  <2>1. caller'[c].pc = "save"
    <3>1. PICK then : Task(caller'[c], caller[c].kind, "save", caller[c].id, NoToken, NoToken,
                           <<>>, then)
      BY <1>6, WriteBackEffect
    <3> QED
      BY <3>1, TaskFields
  <2> QED
    BY <1>0, <1>6, <2>1, WriteBackEffect, LockStep DEF AtEndpoint
<1>7. CASE Snapshot(c)
  <2>1. caller'[c].pc = "write"
    <3>1. Task(caller'[c], caller[c].kind, "write", caller[c].id, caller[c].cred,
               caller[c].got, Tokens(pool), caller[c].then)
      BY <1>7, SnapshotEffect
    <3> QED
      BY <3>1, TaskFields
  <2> QED
    BY <1>0, <1>7, <2>1, SnapshotEffect, LockStep DEF AtEndpoint
<1>8. ASSUME NEW ok \in BOOLEAN, Write(c, ok)
      PROVE  LockInv'
  <2>1. caller'[c].pc \in {"idle", "learn", "paste", "enable"}
    <3>1. caller[c].then \in {"idle", "learn", "paste", "enable"}
      BY DEF TypeInv, CallerType
    <3>2. CASE ~IsIdle(caller'[c])
      BY <1>8, <3>1, <3>2, WriteEffect, TaskFields
    <3> QED
      BY <3>2, IdleFields
  <2> QED
    BY <1>0, <1>8, <2>1, WriteEffect, LockStep DEF AtEndpoint, Release
<1>9. ASSUME NEW b \in BOOLEAN, LearnAccount(c, b)
      PROVE  LockInv'
  <2>1. caller'[c].pc \in {"idle", "save"}
    BY <1>9, LearnEffect, TaskFields, IdleFields
  <2> QED
    BY <1>0, <1>9, <2>1, LearnEffect, LockStep DEF AtEndpoint
<1> QED
  BY <1>1, <1>2, <1>3, <1>4, <1>5, <1>6, <1>7, <1>8, <1>9

LEMMA OperatorLocks ==
    ASSUME TypeInv, LockInv, NEW c \in Callers,
           \/ \E l \in Imports : StartAdd(c, l)
           \/ Insert(c)
           \/ \E i \in DOMAIN pool : Delete(c, i) \/ \E l \in Reissued : StartRelogin(c, i, l)
           \/ Paste(c) \/ Enable(c)
    PROVE  LockInv'
<1>0. caller[c].pc = "write" <=> persistLock = c
  BY DEF LockInv
<1>1. ASSUME NEW l \in Imports, StartAdd(c, l)
      PROVE  LockInv'
  <2>1. IsIdle(caller[c]) /\ caller'[c].pc = "send" /\ caller'[c].kind = "add"
    BY <1>1, StartAddEffect, TaskFields
  <2> QED
    BY <1>0, <1>1, <2>1, IdleFields, StartAddEffect, LockStep DEF AtEndpoint
<1>2. CASE Insert(c)
  <2>1. caller'[c].pc \in {"idle", "save"}
    BY <1>2, InsertEffect, TaskFields, IdleFields
  <2> QED
    BY <1>0, <1>2, <2>1, InsertEffect, LockStep DEF AtEndpoint
<1>3. ASSUME NEW i, Delete(c, i)
      PROVE  LockInv'
  <2>1. IsIdle(caller[c]) /\ caller'[c].pc = "save"
    BY <1>3, DeleteEffect, TaskFields
  <2> QED
    BY <1>0, <1>3, <2>1, IdleFields, DeleteEffect, LockStep DEF AtEndpoint
<1>4. ASSUME NEW i, NEW l \in Reissued, StartRelogin(c, i, l)
      PROVE  LockInv'
  <2>1. IsIdle(caller[c]) /\ caller'[c].pc = "save"
    BY <1>4, StartReloginEffect, TaskFields
  <2> QED
    BY <1>0, <1>4, <2>1, IdleFields, StartReloginEffect, LockStep DEF AtEndpoint
<1>5. CASE Paste(c)
  <2>1. caller'[c].pc \in {"idle", "save"}
    <3>1. \/ IsIdle(caller'[c])
          \/ Task(caller'[c], caller[c].kind, "save", caller[c].id, NoToken, NoToken, <<>>,
                  "enable")
      BY <1>5, PasteEffect
    <3> QED
      BY <3>1, IdleFields, TaskFields
  <2>2. Only(c) /\ caller[c].pc = "paste" /\ UNCHANGED <<refreshLock, persistLock>>
    BY <1>5, PasteEffect
  <2> QED
    BY <1>0, <2>1, <2>2, LockStep DEF AtEndpoint
<1>6. CASE Enable(c)
  <2>1. caller'[c].pc \in {"idle", "save"}
    <3>1. \/ IsIdle(caller'[c])
          \/ Task(caller'[c], caller[c].kind, "save", caller[c].id, NoToken, NoToken, <<>>,
                  "idle")
      BY <1>6, EnableEffect
    <3> QED
      BY <3>1, IdleFields, TaskFields
  <2>2. Only(c) /\ caller[c].pc = "enable" /\ UNCHANGED <<refreshLock, persistLock>>
    BY <1>6, EnableEffect
  <2> QED
    BY <1>0, <2>1, <2>2, LockStep DEF AtEndpoint
<1> QED
  BY <1>1, <1>2, <1>3, <1>4, <1>5, <1>6

LEMMA NextLocks ==
    ASSUME TypeInv, LockInv, [RotationNext]_rotationVars
    PROVE  LockInv'
<1>1. CASE UNCHANGED rotationVars
  BY <1>1 DEF rotationVars, LockInv
<1>2. ASSUME NEW i, Expire(i)
      PROVE  LockInv'
  BY <1>2 DEF Expire, LockInv
<1>3. CASE Restart
  <2>1. \A c \in Callers : caller'[c].pc = "idle" /\ c # "free"
    BY <1>3, RestartEffect, IdleFields, TokenRotationAssumption
  <2> QED
    BY <1>3, <2>1, RestartEffect DEF LockInv
<1> QED
  BY <1>1, <1>2, <1>3, TaskLocks, OperatorLocks DEF RotationNext

---------------------------------------------------------------------------
(* The login of a relogin.                                                 *)

LEMMA LacksNothing == \A l : Lacks(<<>>, l)
BY DEF Lacks

LEMMA NoTokenLogin == NoToken.login = "none"
BY DEF NoToken, Token

LEMMA AbsentStep ==
    ASSUME NEW e \in Callers, NEW l, Only(e), Absent(l), Lacks(caller'[e].snap, l),
           newest'[l] = 0, Lacks(file', l),
           \A i \in DOMAIN pool' : pool'[i].token.login # l
    PROVE  Absent(l)'
BY DEF Absent, Only

LEMMA SnapshotAbsent ==
    ASSUME TypeInv, NEW e \in Callers, NEW l, Absent(l), Snapshot(e)
    PROVE  Absent(l)' /\ caller'[e].cred = caller[e].cred /\ caller'[e].then = caller[e].then
<1>1. Task(caller'[e], caller[e].kind, "write", caller[e].id, caller[e].cred, caller[e].got,
           Tokens(pool), caller[e].then)
  BY SnapshotEffect
<1>2. /\ caller'[e].snap = Tokens(pool) /\ caller'[e].cred = caller[e].cred
      /\ caller'[e].then = caller[e].then
  BY <1>1, TaskFields
<1>3. Lacks(Tokens(pool), l)
  BY TokensImage DEF Absent, Lacks
<1>4. Only(e) /\ UNCHANGED <<pool, file, newest>>
  BY SnapshotEffect
<1> QED
  BY <1>2, <1>3, <1>4, AbsentStep DEF Absent

LEMMA WriteAbsent ==
    ASSUME TypeInv, NEW e \in Callers, NEW ok \in BOOLEAN, NEW l, Absent(l), Write(e, ok)
    PROVE  /\ Absent(l)'
           /\ \/ IsIdle(caller'[e])
              \/ caller'[e].cred = caller[e].cred /\ caller'[e].then = caller[e].then
<1>1. \/ IsIdle(caller'[e])
      \/ Task(caller'[e], caller[e].kind, caller[e].then, caller[e].id, caller[e].cred,
              caller[e].got, <<>>, caller[e].then)
  BY WriteEffect
<1>2. /\ caller'[e].snap = <<>>
      /\ \/ IsIdle(caller'[e])
         \/ caller'[e].cred = caller[e].cred /\ caller'[e].then = caller[e].then
  BY <1>1, TaskFields, IdleFields
<1>3. Only(e) /\ UNCHANGED <<pool, newest>> /\ file' \in {caller[e].snap, file}
  BY WriteEffect
<1> QED
  BY <1>2, <1>3, AbsentStep, LacksNothing DEF Absent

(* A step of another task: what it knows does not include l. *)
LEMMA EndpointAbsent ==
    ASSUME TypeInv, NEW e \in Callers, NEW l \in Reissued, l # "none", Absent(l),
           caller[e].cred.login # l,
           Granted(e) \/ EndpointFails(e) \/ Refused(e) \/ WriteBack(e)
    PROVE  Absent(l)' /\ caller'[e].cred.login # l /\ caller'[e].then # "paste"
<1>0. caller[e].pc \in {"send", "answer"} => caller[e].then # "paste" /\ caller[e].snap = <<>>
  BY DEF TypeInv, CallerType
<1>1. CASE Granted(e)
  <2>1. PICK t : Task(caller'[e], caller[e].kind, "answer", caller[e].id, caller[e].cred, t,
                      caller[e].snap, caller[e].then)
    BY <1>1, GrantedEffect
  <2>2. /\ caller'[e].snap = caller[e].snap /\ caller'[e].cred = caller[e].cred
        /\ caller'[e].then = caller[e].then
    BY <2>1, TaskFields
  <2>3. Only(e) /\ UNCHANGED <<pool, file>> /\ caller[e].pc = "send"
    BY <1>1, GrantedEffect
  <2>4. newest'[l] = newest[l]
    BY <1>1, GrantedGrows DEF Logins
  <2> QED
    BY <1>0, <2>2, <2>3, <2>4, AbsentStep, LacksNothing DEF Absent
<1>2. CASE EndpointFails(e)
  <2>1. Only(e) /\ UNCHANGED <<pool, file, newest>> /\ IsIdle(caller'[e])
    BY <1>2, FailsEffect
  <2> QED
    BY <2>1, IdleFields, NoTokenLogin, AbsentStep, LacksNothing DEF Absent
<1>3. CASE Refused(e)
  <2>1. Only(e) /\ UNCHANGED <<file, newest>> /\ IsIdle(caller'[e])
    BY <1>3, RefusedEffect
  <2>2. \A i \in DOMAIN pool' : pool'[i].token.login # l
    <3> DEFINE j == caller[e].id
    <3>1. CASE UNCHANGED pool
      BY <3>1 DEF Absent
    <3>2. CASE /\ j \in DOMAIN pool /\ j \in DOMAIN file
               /\ pool' = [pool EXCEPT ![j] = Entry(file[j])]
      <4>1. Entry(file[j]).token = file[j]
        BY DEF Entry
      <4>2. /\ DOMAIN pool' = DOMAIN pool /\ pool'[j] = Entry(file[j])
            /\ \A i \in DOMAIN pool \ {j} : pool'[i] = pool[i]
        BY <3>2 DEF TypeInv, PoolType
      <4> QED
        BY <3>2, <4>1, <4>2 DEF Absent, Lacks
    <3>3. CASE j \in DOMAIN pool /\ pool' = [pool EXCEPT ![j].disabled = TRUE]
      BY <3>3, FlagType DEF FlagStep, Absent
    <3> QED
      BY <1>3, <3>1, <3>2, <3>3, RefusedEffect
  <2> QED
    BY <2>1, <2>2, IdleFields, NoTokenLogin, AbsentStep, LacksNothing DEF Absent
<1>4. CASE WriteBack(e)
  <2>1. PICK then \in {"learn", "idle"} :
          Task(caller'[e], caller[e].kind, "save", caller[e].id, NoToken, NoToken, <<>>, then)
    BY <1>4, WriteBackEffect
  <2>2. caller'[e].snap = <<>> /\ caller'[e].cred = NoToken /\ caller'[e].then = then
    BY <2>1, TaskFields
  <2>3. Only(e) /\ UNCHANGED <<file, newest>> /\ caller[e].pc = "answer"
    BY <1>4, WriteBackEffect
  <2>4. Known(caller[e].got) /\ caller[e].got.login # l
    BY <2>3 DEF TypeInv, CallerType
  <2>5. \A i \in DOMAIN pool' : pool'[i].token.login # l
    <3>1. pool' = IF caller[e].id \in DOMAIN pool
                  THEN [pool EXCEPT ![caller[e].id].token = caller[e].got,
                                    ![caller[e].id].fresh = TRUE] ELSE pool
      BY <1>4, WriteBackEffect
    <3>2. CASE caller[e].id \in DOMAIN pool
      BY <2>4, <3>1, <3>2, TokenType, ZenonT(30) DEF Absent
    <3> QED
      BY <3>1, <3>2 DEF Absent
  <2> QED
    BY <2>2, <2>3, <2>5, NoTokenLogin, AbsentStep, LacksNothing DEF Absent
<1> QED
  BY <1>1, <1>2, <1>3, <1>4

LEMMA QueueAbsent ==
    ASSUME TypeInv, NEW e \in Callers, NEW l, l # "none", Absent(l), caller[e].cred.login # l,
           \/ \E kind \in Kinds, i \in DOMAIN pool : Start(e, kind, i)
           \/ Lock(e)
           \/ \E b \in BOOLEAN : LearnAccount(e, b)
    PROVE  Absent(l)' /\ caller'[e].cred.login # l /\ caller'[e].then # "paste"
<1>1. ASSUME NEW kind, NEW i, Start(e, kind, i)
      PROVE  Absent(l)' /\ caller'[e].cred.login # l /\ caller'[e].then # "paste"
  <2>1. /\ Only(e) /\ UNCHANGED <<pool, file, newest>> /\ i \in DOMAIN pool
        /\ \E pc \in {"queue", "learn"} :
              Task(caller'[e], kind, pc, i, pool[i].token, NoToken, <<>>, "idle")
    BY <1>1, StartEffect
  <2>2. /\ caller'[e].snap = <<>> /\ caller'[e].cred = pool[i].token
        /\ caller'[e].then = "idle"
    BY <2>1, TaskFields
  <2> QED
    BY <2>1, <2>2, AbsentStep, LacksNothing DEF Absent
<1>2. CASE Lock(e)
  <2> DEFINE r == caller[e]
  <2>1. /\ Only(e) /\ UNCHANGED <<pool, file, newest>> /\ r.pc = "queue"
        /\ \/ IsIdle(caller'[e])
           \/ Task(caller'[e], r.kind, "learn", r.id, r.cred, r.got, r.snap, r.then)
           \/ Task(caller'[e], r.kind, "send", r.id, r.cred, r.got, r.snap, r.then)
           \/ /\ r.id \in DOMAIN pool
              /\ Task(caller'[e], r.kind, "send", r.id, pool[r.id].token, r.got, r.snap,
                      r.then)
    BY <1>2, LockEffect
  <2>2. r.snap = <<>> /\ r.then # "paste"
    BY <2>1 DEF TypeInv, CallerType
  <2>3. /\ caller'[e].snap = <<>> /\ caller'[e].then # "paste"
        /\ \/ caller'[e].cred \in {NoToken, r.cred}
           \/ r.id \in DOMAIN pool /\ caller'[e].cred = pool[r.id].token
    BY <2>1, <2>2, TaskFields, IdleFields
  <2> QED
    BY <2>1, <2>3, NoTokenLogin, AbsentStep, LacksNothing DEF Absent
<1>3. ASSUME NEW b \in BOOLEAN, LearnAccount(e, b)
      PROVE  Absent(l)' /\ caller'[e].cred.login # l /\ caller'[e].then # "paste"
  <2>1. /\ Only(e) /\ UNCHANGED <<pool, file, newest>>
        /\ \/ IsIdle(caller'[e])
           \/ Task(caller'[e], caller[e].kind, "save", caller[e].id, NoToken, NoToken, <<>>,
                   "idle")
    BY <1>3, LearnEffect
  <2>2. caller'[e].snap = <<>> /\ caller'[e].cred = NoToken /\ caller'[e].then # "paste"
    BY <2>1, TaskFields, IdleFields
  <2> QED
    BY <2>1, <2>2, NoTokenLogin, AbsentStep, LacksNothing DEF Absent
<1> QED
  BY <1>1, <1>2, <1>3

LEMMA ImportAbsent ==
    ASSUME TypeInv, NEW e \in Callers, NEW l \in Reissued, l # "none", Absent(l),
           caller[e].cred.login # l,
           \/ \E k \in Imports : StartAdd(e, k)
           \/ Insert(e)
           \/ \E i \in DOMAIN pool : Delete(e, i)
    PROVE  Absent(l)' /\ caller'[e].cred.login # l /\ caller'[e].then # "paste"
<1>1. ASSUME NEW k \in Imports, StartAdd(e, k)
      PROVE  Absent(l)' /\ caller'[e].cred.login # l /\ caller'[e].then # "paste"
  <2>1. /\ Only(e) /\ UNCHANGED <<pool, file, newest>>
        /\ Task(caller'[e], "add", "send", 0, Token(k, 0), NoToken, <<>>, "idle")
    BY <1>1, StartAddEffect
  <2>2. caller'[e].snap = <<>> /\ caller'[e].cred = Token(k, 0) /\ caller'[e].then = "idle"
    BY <2>1, TaskFields
  <2>3. Token(k, 0).login # l
    BY TokenRotationAssumption DEF Token
  <2> QED
    BY <2>1, <2>2, <2>3, AbsentStep, LacksNothing DEF Absent
<1>2. CASE Insert(e)
  <2>1. /\ Only(e) /\ UNCHANGED <<file, newest>> /\ caller[e].pc = "answer"
        /\ \/ IsIdle(caller'[e])
           \/ Task(caller'[e], caller[e].kind, "save", caller[e].id, NoToken, NoToken, <<>>,
                   "idle")
        /\ Holds(pool, caller[e].cred) => UNCHANGED pool
    BY <1>2, InsertEffect
  <2>2. caller'[e].snap = <<>> /\ caller'[e].cred = NoToken /\ caller'[e].then # "paste"
    BY <2>1, TaskFields, IdleFields
  <2>3. caller[e].got.login # l
    BY <2>1 DEF TypeInv, CallerType
  <2>4. \A i \in DOMAIN pool' : pool'[i].token.login # l
    BY <1>2, <2>1, <2>3, InsertedEntry DEF Absent
  <2> QED
    BY <2>1, <2>2, <2>4, NoTokenLogin, AbsentStep, LacksNothing DEF Absent
<1>3. ASSUME NEW i, Delete(e, i)
      PROVE  Absent(l)' /\ caller'[e].cred.login # l /\ caller'[e].then # "paste"
  <2>1. /\ Only(e) /\ UNCHANGED <<file, newest>> /\ pool' = Without(pool, i)
        /\ Task(caller'[e], "delete", "save", 0, NoToken, NoToken, <<>>, "idle")
    BY <1>3, DeleteEffect
  <2>2. caller'[e].snap = <<>> /\ caller'[e].cred = NoToken /\ caller'[e].then = "idle"
    BY <2>1, TaskFields
  <2>3. \A j \in DOMAIN pool' : pool'[j].token.login # l
    BY <2>1 DEF Absent, Without
  <2> QED
    BY <2>1, <2>2, <2>3, NoTokenLogin, AbsentStep, LacksNothing DEF Absent
<1> QED
  BY <1>1, <1>2, <1>3

LEMMA EditAbsent ==
    ASSUME TypeInv, NEW e \in Callers, NEW l, l # "none", Absent(l), caller[e].cred.login # l,
           Paste(e) \/ Enable(e)
    PROVE  Absent(l)' /\ caller'[e].cred.login # l /\ caller'[e].then # "paste"
<1> DEFINE i == caller[e].id
<1>1. /\ Only(e) /\ UNCHANGED <<file, newest>>
      /\ \/ IsIdle(caller'[e]) /\ UNCHANGED pool
         \/ \E then \in {"enable", "idle"} :
               Task(caller'[e], caller[e].kind, "save", i, NoToken, NoToken, <<>>, then)
  BY PasteEffect, EnableEffect
<1>2. caller'[e].snap = <<>> /\ caller'[e].cred = NoToken /\ caller'[e].then # "paste"
  <2>1. CASE IsIdle(caller'[e])
    BY <2>1, IdleFields
  <2>2. ASSUME NEW then \in {"enable", "idle"},
               Task(caller'[e], caller[e].kind, "save", i, NoToken, NoToken, <<>>, then)
        PROVE  /\ caller'[e].snap = <<>> /\ caller'[e].cred = NoToken
               /\ caller'[e].then # "paste"
    BY <2>2, TaskFields
  <2> QED
    BY <1>1, <2>1, <2>2
<1>3. \A j \in DOMAIN pool' : pool'[j].token.login # l
  <2>1. CASE UNCHANGED pool
    BY <2>1 DEF Absent
  <2>2. CASE i \in DOMAIN pool /\ pool' = [pool EXCEPT ![i].disabled = FALSE]
    BY <2>2, FlagType DEF FlagStep, Absent
  <2>3. CASE /\ i \in DOMAIN pool /\ ~IsIdle(caller'[e]) /\ Paste(e)
             /\ pool' = [pool EXCEPT ![i].token = caller[e].cred, ![i].fresh = FALSE]
    <3>1. Known(caller[e].cred)
      BY <2>3, PasteKnown
    <3> QED
      BY <2>3, <3>1, TokenType DEF Absent
  <2>4. \/ UNCHANGED pool
        \/ i \in DOMAIN pool /\ pool' = [pool EXCEPT ![i].disabled = FALSE]
        \/ /\ i \in DOMAIN pool /\ Paste(e)
           /\ pool' = [pool EXCEPT ![i].token = caller[e].cred, ![i].fresh = FALSE]
           /\ Task(caller'[e], caller[e].kind, "save", i, NoToken, NoToken, <<>>, "enable")
    BY PasteEffect, EnableEffect
  <2>5. Task(caller'[e], caller[e].kind, "save", i, NoToken, NoToken, <<>>, "enable") =>
            ~IsIdle(caller'[e])
    BY TaskFields DEF IsIdle
  <2> QED
    BY <2>1, <2>2, <2>3, <2>4, <2>5
<1> QED
  BY <1>1, <1>2, <1>3, NoTokenLogin, AbsentStep, LacksNothing DEF Absent

(* A relogin of another credential takes a login of its own. *)
LEMMA ReloginAbsent ==
    ASSUME TypeInv, NEW e \in Callers, NEW i, NEW k \in Reissued, StartRelogin(e, i, k)
    PROVE  /\ k # "none" /\ Absent(k)' /\ \A d \in Callers \ {e} : caller'[d].cred.login # k
           /\ caller'[e].cred.login = k
           /\ \A l : Absent(l) => Absent(l)'
<1>1. /\ Only(e) /\ IsIdle(caller[e]) /\ UNCHANGED <<file, newest>> /\ i \in DOMAIN pool
      /\ pool' = [pool EXCEPT ![i].disabled = TRUE] /\ Unseen(k)
      /\ Task(caller'[e], "relogin", "save", i, Token(k, 0), NoToken, <<>>, "paste")
  BY StartReloginEffect
<1>2. caller'[e].snap = <<>> /\ caller'[e].cred.login = k
  BY <1>1, TaskFields DEF Token
<1>3. DOMAIN pool' = DOMAIN pool /\ \A j \in DOMAIN pool : pool'[j].token = pool[j].token
  BY <1>1, FlagType DEF FlagStep
<1>4. Absent(k)
  BY <1>1 DEF Unseen, Absent, Lacks
<1>5. \A l : Absent(l) => Absent(l)'
  <2>1. ASSUME NEW l, Absent(l)
        PROVE  Absent(l)'
    BY <1>1, <1>2, <1>3, <2>1, AbsentStep, LacksNothing DEF Absent
  <2> QED
    BY <2>1
<1>6. k # "none"
  BY <1>1, IdleFields, NoTokenLogin DEF Unseen
<1>7. \A d \in Callers \ {e} : caller'[d].cred.login # k
  BY <1>1 DEF Unseen, Only
<1> QED
  BY <1>2, <1>4, <1>5, <1>6, <1>7

(* The steps of a task that save nothing and start no relogin. *)
Errand(e) ==
    \/ \E kind \in Kinds, i \in DOMAIN pool : Start(e, kind, i)
    \/ Lock(e) \/ Granted(e) \/ EndpointFails(e) \/ Refused(e) \/ WriteBack(e)
    \/ \E b \in BOOLEAN : LearnAccount(e, b)
    \/ \E l \in Imports : StartAdd(e, l)
    \/ Insert(e)
    \/ \E i \in DOMAIN pool : Delete(e, i)
    \/ Paste(e) \/ Enable(e)

LEMMA NextCases ==
    ASSUME RotationNext
    PROVE  \/ \E e \in Callers : Errand(e)
           \/ \E e \in Callers : Snapshot(e)
           \/ \E e \in Callers, ok \in BOOLEAN : Write(e, ok)
           \/ \E e \in Callers, i \in DOMAIN pool, k \in Reissued : StartRelogin(e, i, k)
           \/ \E i \in DOMAIN pool : Expire(i)
           \/ Restart
BY DEF RotationNext, Errand

LEMMA ErrandOnly ==
    ASSUME TypeInv, NEW e \in Callers, Errand(e)
    PROVE  Only(e)
<1>1. CASE \E l \in Imports : StartAdd(e, l)
  BY <1>1, StartAddEffect
<1>2. CASE \E kind \in Kinds, i \in DOMAIN pool : Start(e, kind, i)
  BY <1>2, StartEffect
<1>3. CASE \E i \in DOMAIN pool : Delete(e, i)
  BY <1>3, DeleteEffect
<1>4. CASE Lock(e) \/ Granted(e) \/ EndpointFails(e)
  BY <1>4, LockEffect, GrantedEffect, FailsEffect
<1>5. CASE Refused(e) \/ WriteBack(e) \/ Insert(e)
  BY <1>5, RefusedEffect, WriteBackEffect, InsertEffect
<1>6. CASE Paste(e) \/ Enable(e) \/ \E b \in BOOLEAN : LearnAccount(e, b)
  BY <1>6, PasteEffect, EnableEffect, LearnEffect
<1> QED
  BY <1>1, <1>2, <1>3, <1>4, <1>5, <1>6 DEF Errand

(* Only StartRelogin sets out for a paste. *)
LEMMA PasteOrigin ==
    ASSUME TypeInv, NEW e \in Callers, caller'[e].then = "paste", Errand(e)
    PROVE  FALSE
<1>0. caller[e].pc \in {"queue", "send", "answer"} => caller[e].then # "paste"
  BY DEF TypeInv, CallerType
<1>1. ~IsIdle(caller'[e])
  BY IdleFields
<1>2. ASSUME NEW kind, NEW i, Start(e, kind, i)
      PROVE  FALSE
  BY <1>2, StartEffect, TaskFields
<1>3. ~Lock(e)
  BY <1>0, <1>1, LockEffect, TaskFields
<1>4. ~Granted(e)
  BY <1>0, GrantedEffect, TaskFields
<1>5. ~EndpointFails(e) /\ ~Refused(e)
  BY <1>1, FailsEffect, RefusedEffect
<1>6. ~WriteBack(e)
  <2>1. ASSUME NEW then \in {"learn", "idle"},
               Task(caller'[e], caller[e].kind, "save", caller[e].id, NoToken, NoToken, <<>>,
                    then)
        PROVE  FALSE
    BY <2>1, TaskFields
  <2> QED
    BY <2>1, WriteBackEffect
<1>7. ASSUME NEW b \in BOOLEAN, LearnAccount(e, b)
      PROVE  FALSE
  BY <1>1, <1>7, LearnEffect, TaskFields
<1>8. ASSUME NEW l \in Imports, StartAdd(e, l)
      PROVE  FALSE
  BY <1>8, StartAddEffect, TaskFields
<1>9. ~Insert(e)
  BY <1>1, InsertEffect, TaskFields
<1>10. ASSUME NEW i, Delete(e, i)
       PROVE  FALSE
  BY <1>10, DeleteEffect, TaskFields
<1>11. ~Paste(e)
  <2>1. ASSUME Task(caller'[e], caller[e].kind, "save", caller[e].id, NoToken, NoToken, <<>>,
                    "enable")
        PROVE  FALSE
    BY <2>1, TaskFields
  <2> QED
    BY <1>1, <2>1, PasteEffect
<1>12. ~Enable(e)
  <2>1. ASSUME Task(caller'[e], caller[e].kind, "save", caller[e].id, NoToken, NoToken, <<>>,
                    "idle")
        PROVE  FALSE
    BY <2>1, TaskFields
  <2> QED
    BY <1>1, <2>1, EnableEffect
<1> QED
  BY <1>2, <1>3, <1>4, <1>5, <1>6, <1>7, <1>8, <1>9, <1>10, <1>11, <1>12 DEF Errand

(* A step of another task leaves the login of a relogin alone. *)
LEMMA OthersAbsent ==
    ASSUME TypeInv, NEW e \in Callers, NEW l \in Reissued, l # "none", Absent(l),
           caller[e].cred.login # l,
           Errand(e) \/ Snapshot(e) \/ \E b \in BOOLEAN : Write(e, b)
    PROVE  Absent(l)' /\ caller'[e].cred.login # l
<1>1. CASE \E b \in BOOLEAN : Write(e, b)
  BY <1>1, WriteAbsent, IdleFields, NoTokenLogin
<1> QED
  BY <1>1, EndpointAbsent, QueueAbsent, ImportAbsent, EditAbsent, SnapshotAbsent DEF Errand

LEMMA OthersAlone ==
    ASSUME TypeInv, NEW c \in Callers, NEW e \in Callers \ {c}, NEW l \in Reissued, Alone(c, l),
           Errand(e) \/ Snapshot(e) \/ \E b \in BOOLEAN : Write(e, b)
    PROVE  Only(e) /\ Alone(c, l)'
<1>1. Only(e)
  BY ErrandOnly, SnapshotEffect, WriteEffect
<1>2. Absent(l)' /\ caller'[e].cred.login # l
  BY OthersAbsent DEF Alone
<1> QED
  BY <1>1, <1>2 DEF Alone, Only

LEMMA SavingAlone ==
    ASSUME TypeInv, NEW c \in Callers, NEW l, Alone(c, l), caller'[c].then = "paste",
           Snapshot(c) \/ \E b \in BOOLEAN : Write(c, b)
    PROVE  Alone(c, l)' /\ caller'[c].cred = caller[c].cred /\ caller[c].then = "paste"
<1>1. ~IsIdle(caller'[c])
  BY IdleFields
<1>2. Only(c) /\ Absent(l)'
  BY SnapshotEffect, WriteEffect, SnapshotAbsent, WriteAbsent DEF Alone
<1>3. caller'[c].cred = caller[c].cred /\ caller'[c].then = caller[c].then
  BY <1>1, SnapshotAbsent, WriteAbsent DEF Alone
<1> QED
  BY <1>2, <1>3 DEF Alone, Only

LEMMA CalmAlone ==
    ASSUME NEW c \in Callers, NEW l, Alone(c, l), UNCHANGED <<file, newest, caller>>,
           DOMAIN pool' = DOMAIN pool, \A i \in DOMAIN pool : pool'[i].token = pool[i].token
    PROVE  Alone(c, l)'
BY DEF Alone, Absent, Lacks

LEMMA SavingOrigin ==
    ASSUME TypeInv, NEW c \in Callers, caller'[c].then = "paste",
           Snapshot(c) \/ \E b \in BOOLEAN : Write(c, b)
    PROVE  caller[c].then = "paste" /\ caller'[c].cred = caller[c].cred
<1>1. ~IsIdle(caller'[c])
  BY IdleFields
<1>2. CASE Snapshot(c)
  <2>1. Task(caller'[c], caller[c].kind, "write", caller[c].id, caller[c].cred,
             caller[c].got, Tokens(pool), caller[c].then)
    BY <1>2, SnapshotEffect
  <2> QED
    BY <2>1, TaskFields
<1>3. ASSUME NEW b \in BOOLEAN, Write(c, b)
      PROVE  caller[c].then = "paste" /\ caller'[c].cred = caller[c].cred
  <2>1. Task(caller'[c], caller[c].kind, caller[c].then, caller[c].id, caller[c].cred,
             caller[c].got, <<>>, caller[c].then)
    BY <1>1, <1>3, WriteEffect
  <2> QED
    BY <2>1, TaskFields
<1> QED
  BY <1>2, <1>3

LEMMA NextRelogin ==
    ASSUME TypeInv, ReloginInv, [RotationNext]_rotationVars
    PROVE  ReloginInv'
<1> SUFFICES ASSUME NEW c \in Callers, caller'[c].then = "paste",
                    NEW m, m = caller'[c].cred.login
             PROVE  Alone(c, m)'
  <2>1. ASSUME NEW c \in Callers, caller'[c].then = "paste"
        PROVE  Alone(c, caller[c].cred.login)'
    <3>1. PICK m : m = caller'[c].cred.login
      OBVIOUS
    <3> QED
      BY <2>1, <3>1 DEF Alone
  <2> QED
    BY <2>1 DEF ReloginInv
<1>0. ASSUME caller[c].then = "paste", caller'[c].cred = caller[c].cred
      PROVE  m \in Reissued /\ Alone(c, m)
  <2>1. CallerType(caller[c])
    BY DEF TypeInv
  <2> QED
    BY <1>0, <2>1 DEF ReloginInv, CallerType
<1>1. CASE UNCHANGED rotationVars
  <2>1. UNCHANGED <<pool, file, newest, caller>>
    BY <1>1 DEF rotationVars
  <2> QED
    BY <1>0, <2>1, CalmAlone
<1>2. ASSUME NEW i \in DOMAIN pool, Expire(i)
      PROVE  Alone(c, m)'
  <2>1. FlagStep(i) /\ UNCHANGED <<file, newest, caller>>
    BY <1>2 DEF Expire, FlagStep
  <2>2. DOMAIN pool' = DOMAIN pool /\ \A j \in DOMAIN pool : pool'[j].token = pool[j].token
    BY <2>1, FlagType
  <2> QED
    BY <1>0, <2>1, <2>2, CalmAlone
<1>3. CASE Restart
  BY <1>3, RestartEffect, IdleFields
<1>4. ASSUME NEW e \in Callers, NEW i, NEW k \in Reissued, StartRelogin(e, i, k)
      PROVE  Alone(c, m)'
  <2>1. CASE e = c
    BY <1>4, <2>1, ReloginAbsent DEF Alone
  <2>2. CASE e # c
    <3>1. Only(e) /\ Unseen(k) /\ caller'[c] = caller[c]
      BY <1>4, <2>2, StartReloginEffect DEF Only
    <3>2. m # k /\ Alone(c, m)
      BY <1>0, <3>1 DEF Unseen
    <3> QED
      BY <1>4, <3>1, <3>2, ReloginAbsent DEF Alone, Only
  <2> QED
    BY <2>1, <2>2
<1>5. ASSUME NEW e \in Callers, Errand(e) \/ Snapshot(e) \/ \E b \in BOOLEAN : Write(e, b)
      PROVE  Alone(c, m)'
  <2>1. CASE e = c
    <3>1. ~Errand(c)
      BY PasteOrigin
    <3> QED
      BY <1>0, <1>5, <2>1, <3>1, SavingOrigin, SavingAlone
  <2>2. CASE e # c
    <3>1. Only(e)
      BY <1>5, ErrandOnly, SnapshotEffect, WriteEffect
    <3>2. caller'[c] = caller[c]
      BY <2>2, <3>1 DEF Only
    <3> QED
      BY <1>0, <1>5, <2>2, <3>2, OthersAlone
  <2> QED
    BY <2>1, <2>2
<1> QED
  BY <1>1, <1>2, <1>3, <1>4, <1>5, NextCases

---------------------------------------------------------------------------
(* The tokens: memory, the file, the snapshots and the answers.            *)

SameTokens ==
    DOMAIN pool' = DOMAIN pool /\ \A i \in DOMAIN pool : pool'[i].token = pool[i].token

(* A step that moves no token: at most it takes the lock, with the token of *)
(* memory in hand, or goes on to save.                                      *)
Calm(e) ==
    /\ Only(e) /\ SameTokens /\ UNCHANGED <<file, unsynced, crossed, newest, rotates>>
    /\ caller[e].pc \notin {"save", "write"} /\ caller'[e].pc \notin {"write", "answer"}
    /\ caller'[e].pc = "send" /\ caller'[e].kind \in {"request", "query"} =>
          /\ caller'[e].id \in DOMAIN pool
          /\ caller'[e].cred = pool[caller'[e].id].token

LEMMA SameTokensSame ==
    ASSUME SameTokens
    PROVE  Tokens(pool)' = Tokens(pool)
BY DEF SameTokens, Tokens

(* Who is where, when only e moved. *)
LEMMA OnlyAt ==
    ASSUME NEW e \in Callers, Only(e), NEW pc
    PROVE  At(pc)' = (At(pc) \ {e}) \cup (IF caller'[e].pc = pc THEN {e} ELSE {})
BY DEF Only, At

LEMMA CalmKeeps ==
    ASSUME TypeInv, TypeInv', DataInv, NEW e \in Callers, Calm(e)
    PROVE  DataInv'
<1>1. /\ \A d \in Callers \ {e} : caller'[d] = caller[d]
      /\ UNCHANGED <<file, unsynced, crossed, newest, rotates>>
      /\ DOMAIN pool' = DOMAIN pool
      /\ \A i \in DOMAIN pool : pool'[i].token = pool[i].token
      /\ caller'[e].pc \notin {"write", "answer"}
      /\ caller[e].pc \notin {"save", "write"}
  BY DEF Calm, Only, SameTokens
<1>2. caller'[e].snap = <<>>
  BY <1>1 DEF TypeInv, CallerType
<1>3. /\ At("write")' = At("write") /\ At("answer")' \subseteq At("answer") \ {e}
      /\ At("save") \subseteq At("save")' /\ At("send")' \subseteq At("send") \cup {e}
      /\ e \notin At("write")
  BY <1>1 DEF At
<1>4. SyncInv'
  <2>1. Tokens(pool)' = Tokens(pool)
    BY SameTokensSame DEF Calm
  <2> QED
    BY <1>1, <1>3, <2>1 DEF DataInv, SyncInv, At
<1>5. FreshInv'
  BY <1>1, <1>2, <1>3 DEF DataInv, FreshInv, IsNew, At
<1>6. OrderInv'
  BY <1>1, <1>3 DEF DataInv, OrderInv, Behind, At
<1>7. SendInv'
  <2>1. ASSUME NEW c \in At("send")', caller'[c].kind \in {"request", "query"}, c # e
        PROVE  SendsNewest(c)'
    BY <1>1, <1>3, <2>1 DEF DataInv, SendInv, SendsNewest, Behind, At
  <2>2. ASSUME caller'[e].pc = "send", caller'[e].kind \in {"request", "query"}
        PROVE  SendsNewest(e)'
    <3>1. caller'[e].id \in DOMAIN pool /\ caller'[e].cred = pool[caller'[e].id].token
      BY <2>2 DEF Calm
    <3> QED
      BY <1>1, <1>3, <3>1, ZenonT(30) DEF DataInv, OrderInv, SendsNewest, Behind, At
  <2> QED
    BY <2>1, <2>2 DEF SendInv, At
<1>8. AnswerInv'
  BY <1>1, <1>3 DEF DataInv, AnswerInv, AnswersNewest, At
<1> QED
  BY <1>4, <1>5, <1>6, <1>7, <1>8 DEF DataInv

LEMMA FlagTokens ==
    ASSUME TypeInv, NEW i \in DOMAIN pool, NEW b \in BOOLEAN,
           pool' = [pool EXCEPT ![i].disabled = b]
    PROVE  SameTokens
BY FlagType DEF FlagStep, SameTokens

LEMMA TaskCalm ==
    ASSUME TypeInv, NEW e \in Callers,
           \/ \E kind \in Kinds, i \in DOMAIN pool : Start(e, kind, i)
           \/ Lock(e) \/ EndpointFails(e)
           \/ Refused(e) /\ SameTokens /\ UNCHANGED <<unsynced, crossed>>
           \/ WriteBack(e) /\ caller[e].id \notin DOMAIN pool
           \/ \E b \in BOOLEAN : LearnAccount(e, b)
    PROVE  Calm(e)
<1>0. UNCHANGED pool => SameTokens
  BY DEF SameTokens
<1>1. ASSUME NEW kind, NEW i, Start(e, kind, i)
      PROVE  Calm(e)
  <2>1. IsIdle(caller[e]) /\ caller'[e].pc \in {"queue", "learn"}
    BY <1>1, StartEffect, TaskFields
  <2> QED
    BY <1>0, <1>1, <2>1, StartEffect, IdleFields DEF Calm
<1>2. CASE Lock(e)
  <2> DEFINE r == caller[e]
             cred == IF r.kind = "force" THEN r.cred ELSE pool[r.id].token
  <2>1. CASE IsIdle(caller'[e])
    BY <1>0, <1>2, <2>1, LockEffect, IdleFields DEF Calm
  <2>2. CASE Task(caller'[e], r.kind, "learn", r.id, r.cred, r.got, r.snap, r.then)
    <3>1. caller'[e].pc = "learn"
      BY <2>2, TaskFields
    <3> QED
      BY <1>0, <1>2, <3>1, LockEffect DEF Calm
  <2>3. CASE /\ r.kind # "force" => r.id \in DOMAIN pool
             /\ Task(caller'[e], r.kind, "send", r.id, cred, r.got, r.snap, r.then)
    <3>1. /\ caller'[e].kind = r.kind /\ caller'[e].pc = "send" /\ caller'[e].id = r.id
          /\ caller'[e].cred = cred
      BY <2>3, TaskFields
    <3> QED
      BY <1>0, <1>2, <2>3, <3>1, LockEffect DEF Calm
  <2> QED
    BY <1>2, <2>1, <2>2, <2>3, LockEffect
<1>3. CASE EndpointFails(e)
  BY <1>0, <1>3, FailsEffect, IdleFields DEF Calm
<1>4. CASE Refused(e) /\ SameTokens /\ UNCHANGED <<unsynced, crossed>>
  BY <1>4, RefusedEffect, IdleFields DEF Calm
<1>5. CASE WriteBack(e) /\ caller[e].id \notin DOMAIN pool
  <2>1. PICK then : Task(caller'[e], caller[e].kind, "save", caller[e].id, NoToken, NoToken,
                         <<>>, then)
    BY <1>5, WriteBackEffect
  <2>2. caller'[e].pc = "save"
    BY <2>1, TaskFields
  <2> QED
    BY <1>0, <1>5, <2>2, WriteBackEffect DEF Calm
<1>6. ASSUME NEW b \in BOOLEAN, LearnAccount(e, b)
      PROVE  Calm(e)
  <2>1. caller'[e].pc \in {"idle", "save"}
    BY <1>6, LearnEffect, TaskFields, IdleFields
  <2> QED
    BY <1>0, <1>6, <2>1, LearnEffect DEF Calm
<1> QED
  BY <1>1, <1>2, <1>3, <1>4, <1>5, <1>6

LEMMA OperatorCalm ==
    ASSUME TypeInv, NEW e \in Callers,
           \/ \E l \in Imports : StartAdd(e, l)
           \/ Insert(e) /\ Holds(pool, caller[e].cred)
           \/ \E i \in DOMAIN pool, l \in Reissued : StartRelogin(e, i, l)
           \/ Paste(e) /\ IsIdle(caller'[e])
           \/ Enable(e)
    PROVE  Calm(e)
<1>0. UNCHANGED pool => SameTokens
  BY DEF SameTokens
<1>1. ASSUME NEW l \in Imports, StartAdd(e, l)
      PROVE  Calm(e)
  <2>1. IsIdle(caller[e]) /\ caller'[e].pc = "send" /\ caller'[e].kind = "add"
    BY <1>1, StartAddEffect, TaskFields
  <2> QED
    BY <1>0, <1>1, <2>1, StartAddEffect, IdleFields DEF Calm
<1>2. CASE Insert(e) /\ Holds(pool, caller[e].cred)
  BY <1>0, <1>2, InsertEffect, IdleFields DEF Calm
<1>3. ASSUME NEW i, NEW l, StartRelogin(e, i, l)
      PROVE  Calm(e)
  <2>1. IsIdle(caller[e]) /\ caller'[e].pc = "save"
    BY <1>3, StartReloginEffect, TaskFields
  <2> QED
    BY <1>3, <2>1, StartReloginEffect, FlagTokens, IdleFields DEF Calm
<1>4. CASE Paste(e) /\ IsIdle(caller'[e])
  <2>1. UNCHANGED pool
    <3>1. CASE Task(caller'[e], caller[e].kind, "save", caller[e].id, NoToken, NoToken, <<>>,
                    "enable")
      BY <1>4, <3>1, TaskFields DEF IsIdle
    <3> QED
      BY <1>4, <3>1, PasteEffect
  <2> QED
    BY <1>0, <1>4, <2>1, PasteEffect, IdleFields DEF Calm
<1>5. CASE Enable(e)
  <2>1. CASE IsIdle(caller'[e]) /\ UNCHANGED pool
    BY <1>0, <1>5, <2>1, EnableEffect, IdleFields DEF Calm
  <2>2. CASE /\ caller[e].id \in DOMAIN pool
             /\ pool' = [pool EXCEPT ![caller[e].id].disabled = FALSE]
             /\ Task(caller'[e], caller[e].kind, "save", caller[e].id, NoToken, NoToken, <<>>,
                     "idle")
    <3>1. caller'[e].pc = "save"
      BY <2>2, TaskFields
    <3> QED
      BY <1>5, <2>2, <3>1, EnableEffect, FlagTokens DEF Calm
  <2> QED
    BY <1>5, <2>1, <2>2, EnableEffect
<1> QED
  BY <1>1, <1>2, <1>3, <1>4, <1>5

(* Under the lock no other refresh is at the endpoint. *)
LEMMA AloneAtEndpoint ==
    ASSUME LockInv, NEW e \in Callers, caller[e].pc \in {"send", "answer"},
           caller[e].kind # "add", NEW c \in Callers \ {e}, caller[c].pc \in {"send", "answer"}
    PROVE  caller[c].kind = "add"
BY DEF LockInv

(* What the endpoint grants is newer than everything it granted before. *)
LEMMA GrantedKeeps ==
    ASSUME TypeInv, TypeInv', DataInv, NEW e \in Callers, Granted(e)
    PROVE  DataInv'
<1> DEFINE l == caller[e].cred.login
<1>1. PICK t : /\ t = caller'[e].got /\ t.login = l /\ t.gen = newest'[l]
               /\ t.gen = newest[l] + (IF rotates THEN 1 ELSE 0)
               /\ caller[e].cred.gen = newest[l]
               /\ t \in [login: Logins, gen: Nat]
  <2>1. PICK n \in Nat : n = newest'[l] /\ n = newest[l] + (IF rotates THEN 1 ELSE 0)
    BY GrantedEffect, GrantedGrows DEF Grows
  <2>2. Task(caller'[e], caller[e].kind, "answer", caller[e].id, caller[e].cred, Token(l, n),
             caller[e].snap, caller[e].then)
    BY <2>1, GrantedEffect
  <2>3. caller'[e].got = Token(l, n)
    BY <2>2, TaskFields
  <2>4. l \in Logins /\ caller[e].cred.gen = newest[l]
    BY GrantedEffect, GrantedGrows
  <2>5. /\ Token(l, n).login = l /\ Token(l, n).gen = n
        /\ Token(l, n) \in [login: Logins, gen: Nat]
    BY <2>1, <2>4 DEF Token
  <2> QED
    BY <2>1, <2>3, <2>4, <2>5
<1>2. /\ caller'[e].pc = "answer" /\ caller'[e].cred = caller[e].cred
      /\ caller'[e].kind = caller[e].kind /\ caller'[e].id = caller[e].id
      /\ caller'[e].snap = caller[e].snap
  <2>1. PICK u : Task(caller'[e], caller[e].kind, "answer", caller[e].id, caller[e].cred, u,
                      caller[e].snap, caller[e].then)
    BY GrantedEffect
  <2> QED
    BY <2>1, TaskFields
<1>3. /\ \A d \in Callers \ {e} : caller'[d] = caller[d]
      /\ UNCHANGED <<pool, file, unsynced, crossed, rotates>> /\ caller[e].pc = "send"
  BY GrantedEffect DEF Only
<1>4. /\ At("write")' = At("write") /\ At("answer")' = At("answer") \cup {e}
      /\ At("save")' = At("save") /\ At("send")' = At("send") \ {e} /\ e \notin At("answer")
      /\ e \notin At("write")
  BY <1>2, <1>3 DEF At
<1>5. \A k \in Logins : newest[k] <= newest'[k] /\ newest[k] \in Nat /\ newest'[k] \in Nat
  BY GrantedGrows DEF Grows
<1>6. caller[e].snap = <<>> /\ Known(caller[e].cred)
  BY <1>3 DEF TypeInv, CallerType
<1>7. \A s : Known(s) => NotAhead(s, t) /\ (rotates => s # t)
  <2>1. ASSUME NEW s, Known(s)
        PROVE  NotAhead(s, t) /\ (rotates => s # t)
    BY <1>1, <1>5, <2>1 DEF Known, NotAhead
  <2> QED
    BY <2>1
<1>8. /\ \A i \in DOMAIN pool : Known(pool[i].token)
      /\ \A i \in DOMAIN file : Known(file[i])
      /\ \A d \in At("write") : \A i \in DOMAIN caller[d].snap : Known(caller[d].snap[i])
      /\ \A d \in At("answer") : Known(caller[d].got)
      /\ \A d \in Callers \ At("write") : caller[d].snap = <<>>
  BY DEF TypeInv, PoolType, IsImage, CallerType, At
<1>9. SyncInv'
  BY <1>2, <1>3, <1>4 DEF DataInv, SyncInv, At, Tokens
<1>10. FreshInv'
  <2>1. ASSUME NEW c \in At("answer")
        PROVE  IsNew(c)'
    BY <1>1, <1>2, <1>3, <1>4, <1>6, <1>7, <1>8, <2>1 DEF DataInv, FreshInv, IsNew, At
  <2>2. IsNew(e)'
    <3>1. CASE rotates
      <4>1. t.gen > 0
        BY <1>1, <1>5, <3>1
      <4>2. \A d \in Callers : \A i \in DOMAIN caller'[d].snap : caller'[d].snap[i] # t
        BY <1>2, <1>3, <1>6, <1>7, <1>8, <3>1 DEF At
      <4>3. \A d \in At("answer") : caller'[d].got # t
        BY <1>3, <1>4, <1>7, <1>8, <3>1 DEF At
      <4>4. /\ \A i \in DOMAIN pool' : pool'[i].token # t
            /\ \A i \in DOMAIN file' : file'[i] # t
        BY <1>3, <1>7, <1>8, <3>1
      <4>5. \A d \in At("answer")' : d # e => caller'[d].got # t
        BY <1>4, <4>3
      <4>6. caller'[e].got = t /\ (rotates <=> rotates')
        BY <1>1, <1>3
      <4>7. caller'[e].got.gen > 0
        BY <4>1, <4>6
      <4> QED
        BY <3>1, <4>2, <4>4, <4>5, <4>6, <4>7, Zenon DEF IsNew
    <3>2. CASE ~rotates
      <4>1. t.gen = caller[e].cred.gen /\ t.login = caller[e].cred.login
        BY <1>1, <1>5, <3>2
      <4>2. t = caller[e].cred
        BY <1>1, <1>6, <4>1 DEF Known
      <4> QED
        BY <1>1, <1>2, <1>3, <3>2, <4>2 DEF IsNew
    <3> QED
      BY <3>1, <3>2
  <2> QED
    BY <1>4, <2>1, <2>2 DEF FreshInv
<1>11. ASSUME NEW s, Known(s), NEW u, Behind(s, u)
       PROVE  Behind(s, u)'
  BY <1>5, <1>11 DEF Behind, Known
<1>12. OrderInv'
  BY <1>3, <1>4, <1>8, <1>11 DEF DataInv, OrderInv, At
<1>13. SendInv'
  <2>1. ASSUME NEW c \in At("send") \ {e}, caller[c].kind \in {"request", "query"}
        PROVE  SendsNewest(c)'
    BY <1>3, <1>4, <1>8, <1>11, <2>1 DEF DataInv, SendInv, SendsNewest, At
  <2> QED
    BY <1>3, <1>4, <2>1 DEF SendInv, At
<1>14. AnswerInv'
  <2>1. ASSUME NEW c \in At("answer"), caller[c].kind # "add"
        PROVE  AnswersNewest(c)'
    BY <1>3, <1>4, <2>1 DEF DataInv, AnswerInv, AnswersNewest, At
  <2>2. AnswersNewest(e)'
    BY <1>1, <1>2, <1>3, <1>4, <1>7, <1>8 DEF AnswersNewest, At
  <2> QED
    BY <1>3, <1>4, <2>1, <2>2 DEF AnswerInv, At
<1> QED
  BY <1>9, <1>10, <1>12, <1>13, <1>14 DEF DataInv

(* A step that puts the token t under id i of the pool. *)
PutsToken(i, t) ==
    /\ i \in DOMAIN pool /\ DOMAIN pool' = DOMAIN pool /\ pool'[i].token = t
    /\ \A j \in DOMAIN pool \ {i} : pool'[j].token = pool[j].token

(* The request that brings the token of the file back: where that is the    *)
(* login it sent, the file is behind it, and now so is memory, no further.  *)
LEMMA ReloadKeeps ==
    ASSUME TypeInv, LockInv, DataInv, NEW e \in Callers, Refused(e),
           NEW i, i = caller[e].id, caller[e].kind = "request", i \in DOMAIN file,
           PutsToken(i, file[i]), unsynced' = TRUE,
           crossed' = IF file[i].login = caller[e].cred.login THEN crossed
                                                              ELSE crossed \cup {i}
    PROVE  DataInv'
<1> DEFINE t == file[i]
<1>1. /\ \A d \in Callers \ {e} : caller'[d] = caller[d]
      /\ caller[e].pc = "send" /\ caller'[e].pc = "idle" /\ caller'[e].snap = <<>>
      /\ UNCHANGED <<file, newest, rotates>>
  BY RefusedEffect, IdleFields DEF Only
<1>2. /\ At("write")' = At("write") /\ At("answer")' = At("answer")
      /\ At("save")' = At("save") /\ At("send")' = At("send") \ {e}
      /\ e \notin At("answer") /\ e \notin At("write")
  BY <1>1 DEF At
<1>3. /\ \A c \in At("answer") : caller[c].kind = "add"
      /\ \A c \in At("send")' : caller'[c].kind = "add"
  BY <1>1, <1>2, AloneAtEndpoint DEF At
<1>4. SyncInv'
  BY DEF SyncInv
<1>5. FreshInv'
  BY <1>1, <1>2 DEF DataInv, FreshInv, IsNew, At, PutsToken
<1>6. SendInv' /\ AnswerInv'
  BY <1>1, <1>2, <1>3 DEF SendInv, AnswerInv, At
<1>7. ASSUME NEW s, Known(s), i \notin crossed', Behind(s, caller[e].cred)
      PROVE  Behind(s, t)
  <2>1. /\ Known(caller[e].cred) /\ caller[e].cred.gen # newest[caller[e].cred.login]
        /\ t.login = caller[e].cred.login
    BY <1>1, <1>7, RefusedEffect DEF TypeInv, CallerType
  <2>2. newest[s.login] \in Nat /\ newest[caller[e].cred.login] \in Nat
    BY <1>7, <2>1 DEF Known, TypeInv, PoolType
  <2> QED
    BY <1>7, <2>1, <2>2 DEF Behind, Known
<1>8. ASSUME NEW d \in At("write"), i \in DOMAIN caller[d].snap, i \notin crossed'
      PROVE  Behind(caller[d].snap[i], t)
  <2>1. i \notin crossed /\ SendsNewest(e)
    BY <1>1, <1>8 DEF DataInv, SendInv, At
  <2>2. Behind(caller[d].snap[i], caller[e].cred)
    BY <1>8, <2>1 DEF SendsNewest
  <2>3. Known(caller[d].snap[i])
    BY <1>8 DEF TypeInv, CallerType, IsImage, At
  <2> QED
    BY <1>7, <1>8, <2>2, <2>3
<1>9. OrderInv'
  <2>1. Behind(t, t)
    BY DEF Behind, TypeInv, IsImage, Known
  <2>2. crossed \subseteq crossed' /\ \A j : j \notin crossed' => j \notin crossed
    OBVIOUS
  <2>3. \A j \in (DOMAIN file \cap DOMAIN pool) \ crossed' : Behind(file[j], pool'[j].token)
    BY <2>1, <2>2 DEF DataInv, OrderInv, PutsToken
  <2>4. \A c \in At("write") :
            \A j \in (DOMAIN caller[c].snap \cap DOMAIN pool) \ crossed' :
                Behind(caller[c].snap[j], pool'[j].token)
    BY <1>8, <2>2 DEF DataInv, OrderInv, PutsToken
  <2>5. \A c \in At("write") :
            \A j \in (DOMAIN caller[c].snap \cap DOMAIN file) \ crossed' :
                Behind(file[j], caller[c].snap[j])
    BY <2>2 DEF DataInv, OrderInv
  <2>6. \A s, u : Behind(s, u) => Behind(s, u)'
    BY <1>1 DEF Behind
  <2> QED
    BY <1>1, <1>2, <2>3, <2>4, <2>5, <2>6 DEF OrderInv, PutsToken, At
<1> QED
  BY <1>4, <1>5, <1>6, <1>9 DEF DataInv

(* The answer under its id: nothing on its way to the file is ahead. *)
LEMMA WriteBackKeeps ==
    ASSUME TypeInv, LockInv, DataInv, NEW e \in Callers, WriteBack(e),
           caller[e].id \in DOMAIN pool
    PROVE  DataInv'
<1> DEFINE t == caller[e].got
           i == caller[e].id
<1>1. /\ \A d \in Callers \ {e} : caller'[d] = caller[d]
      /\ caller[e].pc = "answer" /\ caller[e].kind # "add"
      /\ UNCHANGED <<file, unsynced, crossed, newest, rotates>>
  BY WriteBackEffect DEF Only
<1>2. caller'[e].pc = "save" /\ caller'[e].snap = <<>>
  <2>1. PICK then : Task(caller'[e], caller[e].kind, "save", caller[e].id, NoToken, NoToken,
                         <<>>, then)
    BY WriteBackEffect
  <2> QED
    BY <2>1, TaskFields
<1>3. /\ At("write")' = At("write") /\ At("answer")' = At("answer") \ {e}
      /\ e \in At("save")' /\ At("send")' = At("send")
      /\ e \in At("answer") /\ e \notin At("write")
  BY <1>1, <1>2 DEF At
<1>4. /\ \A c \in At("answer")' : caller'[c].kind = "add"
      /\ \A c \in At("send") : caller'[c].kind = "add"
  BY <1>1, <1>3, AloneAtEndpoint DEF At
<1>5. /\ DOMAIN pool' = DOMAIN pool /\ pool'[i].token = t
      /\ \A j \in DOMAIN pool \ {i} : pool'[j].token = pool[j].token
  <2>1. Known(t)
    BY <1>1 DEF TypeInv, CallerType
  <2>2. pool' = [pool EXCEPT ![i].token = t, ![i].fresh = TRUE]
    BY WriteBackEffect
  <2> QED
    BY <2>1, <2>2, TokenType
<1>6. SyncInv'
  BY <1>3 DEF SyncInv
<1>7. FreshInv'
  <2>1. ASSUME NEW c \in At("answer") \ {e}
        PROVE  IsNew(c)'
    <3>1. caller'[c].got = caller[c].got /\ caller'[c].cred = caller[c].cred /\ IsNew(c)
      BY <1>1, <2>1 DEF DataInv, FreshInv, At
    <3>2. rotates => t # caller[c].got
      BY <1>3, <2>1, <3>1 DEF IsNew, At
    <3>3. rotates => \A j \in DOMAIN pool' : pool'[j].token # caller[c].got
      BY <1>5, <3>1, <3>2 DEF IsNew
    <3> QED
      BY <1>1, <1>2, <1>3, <3>1, <3>3 DEF IsNew, At
  <2> QED
    BY <1>3, <2>1 DEF FreshInv
<1>8. SendInv' /\ AnswerInv'
  BY <1>3, <1>4 DEF SendInv, AnswerInv, At
<1>9. OrderInv'
  <2>1. AnswersNewest(e)
    BY <1>1, <1>3 DEF DataInv, AnswerInv
  <2>2. \A s, u : NotAhead(s, u) => Behind(s, u)
    BY DEF NotAhead, Behind
  <2>3. \A j \in (DOMAIN file \cap DOMAIN pool) \ crossed : Behind(file[j], pool'[j].token)
    BY <1>5, <2>1, <2>2 DEF DataInv, OrderInv, AnswersNewest
  <2>4. \A c \in At("write") :
            \A j \in (DOMAIN caller[c].snap \cap DOMAIN pool) \ crossed :
                Behind(caller[c].snap[j], pool'[j].token)
    BY <1>5, <2>1, <2>2 DEF DataInv, OrderInv, AnswersNewest
  <2>5. \A s, u : Behind(s, u) => Behind(s, u)'
    BY <1>1 DEF Behind
  <2> QED
    BY <1>1, <1>3, <1>5, <2>3, <2>4, <2>5 DEF DataInv, OrderInv, At
<1> QED
  BY <1>6, <1>7, <1>8, <1>9 DEF DataInv

LEMMA SnapshotKeeps ==
    ASSUME TypeInv, LockInv, DataInv, NEW e \in Callers, Snapshot(e)
    PROVE  DataInv'
<1> DEFINE s == Tokens(pool)
<1>1. /\ \A d \in Callers \ {e} : caller'[d] = caller[d]
      /\ caller[e].pc = "save" /\ persistLock = "free"
      /\ UNCHANGED <<pool, file, crossed, newest, rotates>>
  BY SnapshotEffect DEF Only
<1>2. caller'[e].pc = "write" /\ caller'[e].snap = s
  <2>1. Task(caller'[e], caller[e].kind, "write", caller[e].id, caller[e].cred, caller[e].got,
             s, caller[e].then)
    BY SnapshotEffect
  <2> QED
    BY <2>1, TaskFields
<1>3. At("write") = {}
  BY <1>1, TokenRotationAssumption DEF LockInv, At
<1>4. /\ At("write")' = {e} /\ At("answer")' = At("answer") /\ At("send")' = At("send")
      /\ e \notin At("answer") /\ e \notin At("send")
  BY <1>1, <1>2, <1>3 DEF At
<1>5. DOMAIN s = DOMAIN pool /\ \A i \in DOMAIN pool : s[i] = pool[i].token
  BY DEF Tokens
<1>6. Tokens(pool)' = s
  BY <1>1 DEF Tokens
<1> HIDE DEF s
<1>7. SyncInv'
  BY <1>2, <1>4, <1>6 DEF SyncInv
<1>8. FreshInv'
  <2>1. ASSUME NEW c \in At("answer")
        PROVE  IsNew(c)'
    <3>1. IsNew(c) /\ c # e /\ caller'[c] = caller[c]
      BY <1>1, <1>4, <2>1 DEF DataInv, FreshInv, At
    <3> QED
      BY <1>1, <1>2, <1>4, <1>5, <3>1 DEF IsNew, At
  <2> QED
    BY <1>4, <2>1 DEF FreshInv
<1>9. \A t, u : Behind(t, u) => Behind(t, u)'
  BY <1>1 DEF Behind
<1>10. \A i \in DOMAIN pool : Behind(pool[i].token, pool[i].token)
  BY DEF Behind, TypeInv, PoolType, Known
<1>11. OrderInv'
  BY <1>1, <1>2, <1>4, <1>5, <1>9, <1>10 DEF DataInv, OrderInv
<1>12. SendInv'
  <2>1. ASSUME NEW c \in At("send"), caller[c].kind \in {"request", "query"}
        PROVE  SendsNewest(c)'
    <3>1. SendsNewest(c) /\ caller'[c] = caller[c]
      BY <1>1, <1>4, <2>1 DEF DataInv, SendInv, At
    <3>2. caller[c].id \in DOMAIN pool => Behind(pool[caller[c].id].token, caller[c].cred)
      BY <1>10, <3>1 DEF SendsNewest, Behind
    <3> QED
      BY <1>1, <1>2, <1>4, <1>5, <1>9, <3>1, <3>2 DEF SendsNewest
  <2> QED
    BY <1>1, <1>4, <2>1 DEF SendInv, At
<1>13. AnswerInv'
  <2>1. ASSUME NEW c \in At("answer"), caller[c].kind # "add"
        PROVE  AnswersNewest(c)'
    <3>1. AnswersNewest(c) /\ caller'[c] = caller[c]
      BY <1>1, <1>4, <2>1 DEF DataInv, AnswerInv, At
    <3> QED
      BY <1>1, <1>2, <1>4, <1>5, <3>1 DEF AnswersNewest
  <2> QED
    BY <1>1, <1>4, <2>1 DEF AnswerInv, At
<1> QED
  BY <1>7, <1>8, <1>11, <1>12, <1>13 DEF DataInv

LEMMA WriteKeeps ==
    ASSUME TypeInv, LockInv, DataInv, NEW e \in Callers, NEW ok \in BOOLEAN, Write(e, ok)
    PROVE  DataInv'
<1> DEFINE s == caller[e].snap
<1>1. /\ \A d \in Callers \ {e} : caller'[d] = caller[d]
      /\ caller[e].pc = "write" /\ unsynced' = (unsynced \/ ~ok)
      /\ file' = IF ok THEN s ELSE file
      /\ UNCHANGED <<pool, crossed, newest, rotates>>
  BY WriteEffect DEF Only
<1>2. caller'[e].snap = <<>> /\ caller'[e].pc \in {"idle", "learn", "paste", "enable"}
  <2>1. caller[e].then \in {"idle", "learn", "paste", "enable"}
    BY DEF TypeInv, CallerType
  <2>2. \/ IsIdle(caller'[e])
        \/ Task(caller'[e], caller[e].kind, caller[e].then, caller[e].id, caller[e].cred,
                caller[e].got, <<>>, caller[e].then)
    BY WriteEffect
  <2> QED
    BY <2>1, <2>2, IdleFields, TaskFields
<1>3. At("write") = {e}
  BY <1>1 DEF LockInv, At
<1>4. /\ At("write")' = {} /\ At("answer")' = At("answer") /\ At("send")' = At("send")
      /\ At("save")' = At("save") /\ e \notin At("answer") /\ e \notin At("send")
  BY <1>1, <1>2, <1>3 DEF At
<1>5. SyncInv'
  <2>1. ASSUME unsynced' = FALSE, At("save")' = {}
        PROVE  file' = Tokens(pool)'
    <3>1. ok /\ ~unsynced
      BY <1>1, <2>1
    <3>2. s = Tokens(pool)
      BY <1>3, <1>4, <2>1, <3>1 DEF DataInv, SyncInv
    <3> QED
      BY <1>1, <3>1, <3>2 DEF Tokens
  <2>2. unsynced' \in BOOLEAN
    BY <1>1
  <2> QED
    BY <1>4, <2>1, <2>2 DEF SyncInv
<1>6. FreshInv'
  <2>1. ASSUME NEW c \in At("answer")
        PROVE  IsNew(c)'
    <3>1. IsNew(c) /\ c # e /\ caller'[c] = caller[c]
      BY <1>1, <1>4, <2>1 DEF DataInv, FreshInv, At
    <3> QED
      BY <1>1, <1>2, <1>4, <3>1 DEF IsNew, At
  <2> QED
    BY <1>4, <2>1 DEF FreshInv
<1>7. \A t, u : Behind(t, u) => Behind(t, u)'
  BY <1>1 DEF Behind
<1>8. OrderInv'
  BY <1>1, <1>3, <1>4, <1>7 DEF DataInv, OrderInv
<1>9. SendInv'
  <2>1. ASSUME NEW c \in At("send"), caller[c].kind \in {"request", "query"}
        PROVE  SendsNewest(c)'
    <3>1. SendsNewest(c) /\ caller'[c] = caller[c]
      BY <1>1, <1>4, <2>1 DEF DataInv, SendInv, At
    <3> QED
      BY <1>1, <1>3, <1>4, <1>7, <3>1 DEF SendsNewest
  <2> QED
    BY <1>1, <1>4, <2>1 DEF SendInv, At
<1>10. AnswerInv'
  <2>1. ASSUME NEW c \in At("answer"), caller[c].kind # "add"
        PROVE  AnswersNewest(c)'
    <3>1. AnswersNewest(c) /\ caller'[c] = caller[c]
      BY <1>1, <1>4, <2>1 DEF DataInv, AnswerInv, At
    <3> QED
      BY <1>1, <1>3, <1>4, <3>1 DEF AnswersNewest
  <2> QED
    BY <1>1, <1>4, <2>1 DEF AnswerInv, At
<1> QED
  BY <1>5, <1>6, <1>8, <1>9, <1>10 DEF DataInv

(* A new credential: no id of the file, of a snapshot or of a task is its. *)
LEMMA InsertKeeps ==
    ASSUME TypeInv, DataInv, NEW e \in Callers, Insert(e), ~Holds(pool, caller[e].cred)
    PROVE  DataInv'
<1>0. PICK n : n = nextId
  OBVIOUS
<1>1. /\ \A d \in Callers \ {e} : caller'[d] = caller[d]
      /\ caller[e].pc = "answer" /\ caller[e].kind = "add"
      /\ UNCHANGED <<file, unsynced, crossed, newest, rotates>>
      /\ Task(caller'[e], caller[e].kind, "save", caller[e].id, NoToken, NoToken, <<>>, "idle")
  BY InsertEffect DEF Only
<1>2. caller'[e].pc = "save" /\ caller'[e].snap = <<>>
  BY <1>1, TaskFields
<1>3. /\ DOMAIN pool' = DOMAIN pool \cup {n} /\ n \notin DOMAIN pool
      /\ pool'[n].token = caller[e].got /\ \A i \in DOMAIN pool : pool'[i] = pool[i]
  BY <1>0, InsertedEntry
<1>4. /\ At("write")' = At("write") /\ At("answer")' = At("answer") \ {e}
      /\ At("send")' = At("send") /\ e \in At("save")' /\ e \in At("answer")
      /\ e \notin At("write") /\ e \notin At("send")
  BY <1>1, <1>2 DEF At
<1>5. /\ n \notin DOMAIN file /\ \A d \in At("write") : n \notin DOMAIN caller[d].snap
      /\ \A c \in At("send") \cup At("answer") : caller[c].kind # "add" => caller[c].id # n
  <2>1. n \in Nat /\ ~(n < n)
    BY <1>0 DEF TypeInv, PoolType
  <2> QED
    BY <1>0, <2>1 DEF TypeInv, IsImage, CallerType, At
<1>6. SyncInv'
  BY <1>4 DEF SyncInv
<1>7. FreshInv'
  <2>1. ASSUME NEW c \in At("answer") \ {e}
        PROVE  IsNew(c)'
    <3>1. IsNew(c) /\ caller'[c] = caller[c]
      BY <1>1, <2>1 DEF DataInv, FreshInv, At
    <3>2. rotates => \A i \in DOMAIN pool' : pool'[i].token # caller[c].got
      BY <1>3, <1>4, <2>1, <3>1 DEF IsNew, At
    <3> QED
      BY <1>1, <1>2, <1>4, <3>1, <3>2 DEF IsNew, At
  <2> QED
    BY <1>4, <2>1 DEF FreshInv
<1>8. \A t, u : Behind(t, u) => Behind(t, u)'
  BY <1>1 DEF Behind
<1>9. OrderInv'
  BY <1>1, <1>3, <1>4, <1>5, <1>8 DEF DataInv, OrderInv, At
<1>10. SendInv'
  <2>1. ASSUME NEW c \in At("send"), caller[c].kind \in {"request", "query"}
        PROVE  SendsNewest(c)'
    <3>1. SendsNewest(c) /\ caller'[c] = caller[c] /\ caller[c].id # n
      BY <1>1, <1>4, <1>5, <2>1 DEF DataInv, SendInv, At
    <3> QED
      BY <1>1, <1>3, <1>4, <1>8, <3>1 DEF SendsNewest, At
  <2> QED
    BY <1>1, <1>4, <2>1 DEF SendInv, At
<1>11. AnswerInv'
  <2>1. ASSUME NEW c \in At("answer") \ {e}, caller[c].kind # "add"
        PROVE  AnswersNewest(c)'
    <3>1. AnswersNewest(c) /\ caller'[c] = caller[c] /\ caller[c].id # n
      BY <1>1, <1>5, <2>1 DEF DataInv, AnswerInv, At
    <3> QED
      BY <1>1, <1>3, <1>4, <3>1 DEF AnswersNewest, At
  <2> QED
    BY <1>1, <1>4, <2>1 DEF AnswerInv, At
<1> QED
  BY <1>6, <1>7, <1>9, <1>10, <1>11 DEF DataInv

LEMMA DeleteKeeps ==
    ASSUME TypeInv, DataInv, NEW e \in Callers, NEW i, Delete(e, i)
    PROVE  DataInv'
<1>1. /\ \A d \in Callers \ {e} : caller'[d] = caller[d]
      /\ IsIdle(caller[e]) /\ pool' = Without(pool, i)
      /\ UNCHANGED <<file, unsynced, crossed, newest, rotates>>
      /\ Task(caller'[e], "delete", "save", 0, NoToken, NoToken, <<>>, "idle")
  BY DeleteEffect DEF Only
<1>2. caller'[e].pc = "save" /\ caller'[e].snap = <<>> /\ caller[e].pc = "idle"
  BY <1>1, TaskFields, IdleFields
<1>3. DOMAIN pool' \subseteq DOMAIN pool /\ \A j \in DOMAIN pool' : pool'[j] = pool[j]
  BY <1>1 DEF Without
<1>4. /\ At("write")' = At("write") /\ At("answer")' = At("answer")
      /\ At("send")' = At("send") /\ e \in At("save")'
      /\ e \notin At("write") /\ e \notin At("send") /\ e \notin At("answer")
  BY <1>1, <1>2 DEF At
<1>5. SyncInv'
  BY <1>4 DEF SyncInv
<1>6. FreshInv'
  <2>1. ASSUME NEW c \in At("answer")
        PROVE  IsNew(c)'
    <3>1. IsNew(c) /\ caller'[c] = caller[c]
      BY <1>1, <1>4, <2>1 DEF DataInv, FreshInv, At
    <3> QED
      BY <1>1, <1>2, <1>3, <1>4, <3>1 DEF IsNew, At
  <2> QED
    BY <1>4, <2>1 DEF FreshInv
<1>7. \A t, u : Behind(t, u) => Behind(t, u)'
  BY <1>1 DEF Behind
<1>8. OrderInv'
  BY <1>1, <1>3, <1>4, <1>7 DEF DataInv, OrderInv, At
<1>9. SendInv'
  <2>1. ASSUME NEW c \in At("send"), caller[c].kind \in {"request", "query"}
        PROVE  SendsNewest(c)'
    <3>1. SendsNewest(c) /\ caller'[c] = caller[c]
      BY <1>1, <1>4, <2>1 DEF DataInv, SendInv, At
    <3> QED
      BY <1>1, <1>3, <1>4, <1>7, <3>1 DEF SendsNewest, At
  <2> QED
    BY <1>1, <1>4, <2>1 DEF SendInv, At
<1>10. AnswerInv'
  <2>1. ASSUME NEW c \in At("answer"), caller[c].kind # "add"
        PROVE  AnswersNewest(c)'
    <3>1. AnswersNewest(c) /\ caller'[c] = caller[c]
      BY <1>1, <1>4, <2>1 DEF DataInv, AnswerInv, At
    <3> QED
      BY <1>1, <1>3, <1>4, <3>1 DEF AnswersNewest, At
  <2> QED
    BY <1>1, <1>4, <2>1 DEF AnswerInv, At
<1> QED
  BY <1>5, <1>6, <1>8, <1>9, <1>10 DEF DataInv

(* The login that is pasted is nowhere else, so nothing compares with it. *)
LEMMA PasteKeeps ==
    ASSUME TypeInv, ReloginInv, DataInv, NEW e \in Callers, Paste(e), ~IsIdle(caller'[e])
    PROVE  DataInv'
<1>0. PICK i, t : i = caller[e].id /\ t = caller[e].cred
  OBVIOUS
<1>1. /\ \A d \in Callers \ {e} : caller'[d] = caller[d]
      /\ caller[e].pc = "paste"
      /\ UNCHANGED <<file, unsynced, crossed, newest, rotates>>
      /\ Task(caller'[e], caller[e].kind, "save", caller[e].id, NoToken, NoToken, <<>>,
              "enable")
      /\ i \in DOMAIN pool /\ pool' = [pool EXCEPT ![i].token = t, ![i].fresh = FALSE]
  BY <1>0, PasteEffect DEF Only
<1>2. caller'[e].pc = "save" /\ caller'[e].snap = <<>>
  BY <1>1, TaskFields
<1>3. /\ DOMAIN pool' = DOMAIN pool /\ pool'[i].token = t
      /\ \A j \in DOMAIN pool \ {i} : pool'[j] = pool[j]
  BY <1>0, <1>1, PasteKnown, TokenType, ZenonT(30)
<1>4. /\ At("write")' = At("write") /\ At("answer")' = At("answer")
      /\ At("send")' = At("send") /\ e \in At("save")'
      /\ e \notin At("write") /\ e \notin At("send") /\ e \notin At("answer")
  BY <1>1, <1>2 DEF At
<1>5. Alone(e, t.login)
  BY <1>0, PasteKnown DEF ReloginInv
<1>6. /\ \A j \in DOMAIN file : file[j].login # t.login
      /\ \A d \in Callers : \A j \in DOMAIN caller[d].snap : caller[d].snap[j].login # t.login
      /\ \A d \in Callers \ {e} : caller[d].cred.login # t.login
  BY <1>5 DEF Alone, Absent, Lacks
<1>7. \A c \in At("answer") : caller[c].got.login # t.login
  BY <1>4, <1>6 DEF TypeInv, CallerType, At
<1>8. SyncInv'
  BY <1>4 DEF SyncInv
<1>9. FreshInv'
  <2>1. ASSUME NEW c \in At("answer")
        PROVE  IsNew(c)'
    <3>1. IsNew(c) /\ caller'[c] = caller[c] /\ t # caller[c].got
      BY <1>1, <1>4, <1>7, <2>1 DEF DataInv, FreshInv, At
    <3>2. rotates => \A j \in DOMAIN pool' : pool'[j].token # caller[c].got
      BY <1>3, <3>1 DEF IsNew
    <3> QED
      BY <1>1, <1>2, <1>4, <3>1, <3>2 DEF IsNew, At
  <2> QED
    BY <1>4, <2>1 DEF FreshInv
<1>10. \A s, u : Behind(s, u) => Behind(s, u)'
  BY <1>1 DEF Behind
<1>11. \A s : s.login # t.login => Behind(s, t)
  BY DEF Behind
<1>12. OrderInv'
  <2>1. \A j \in (DOMAIN file \cap DOMAIN pool) \ crossed : Behind(file[j], pool'[j].token)
    BY <1>3, <1>6, <1>11 DEF DataInv, OrderInv
  <2>2. \A c \in At("write") :
            \A j \in (DOMAIN caller[c].snap \cap DOMAIN pool) \ crossed :
                Behind(caller[c].snap[j], pool'[j].token)
    BY <1>3, <1>6, <1>11 DEF DataInv, OrderInv, At
  <2> QED
    BY <1>1, <1>3, <1>4, <1>10, <2>1, <2>2 DEF DataInv, OrderInv, At
<1>13. SendInv'
  <2>1. ASSUME NEW c \in At("send"), caller[c].kind \in {"request", "query"}
        PROVE  SendsNewest(c)'
    <3>1. SendsNewest(c) /\ caller'[c] = caller[c] /\ caller[c].cred.login # t.login
      BY <1>1, <1>4, <1>6, <2>1 DEF DataInv, SendInv, At
    <3> QED
      BY <1>1, <1>3, <1>4, <1>10, <3>1 DEF SendsNewest, At
  <2> QED
    BY <1>1, <1>4, <2>1 DEF SendInv, At
<1>14. AnswerInv'
  <2>1. ASSUME NEW c \in At("answer"), caller[c].kind # "add"
        PROVE  AnswersNewest(c)'
    <3>1. AnswersNewest(c) /\ caller'[c] = caller[c] /\ caller[c].got.login # t.login
      BY <1>1, <1>4, <1>7, <2>1 DEF DataInv, AnswerInv, At
    <3> QED
      BY <1>1, <1>3, <1>4, <3>1 DEF AnswersNewest, NotAhead, At
  <2> QED
    BY <1>1, <1>4, <2>1 DEF AnswerInv, At
<1> QED
  BY <1>8, <1>9, <1>12, <1>13, <1>14 DEF DataInv

(* Time passes, or nothing happens. *)
LEMMA StillKeeps ==
    ASSUME DataInv, SameTokens, UNCHANGED <<file, unsynced, crossed, caller, newest, rotates>>
    PROVE  DataInv'
<1>1. Tokens(pool)' = Tokens(pool)
  BY SameTokensSame
<1>2. SyncInv'
  BY <1>1 DEF DataInv, SyncInv, At
<1>3. FreshInv'
  BY DEF DataInv, FreshInv, IsNew, SameTokens, At
<1>4. OrderInv'
  BY DEF DataInv, OrderInv, Behind, SameTokens, At
<1>5. SendInv'
  BY DEF DataInv, SendInv, SendsNewest, Behind, SameTokens, At
<1>6. AnswerInv'
  BY DEF DataInv, AnswerInv, AnswersNewest, SameTokens, At
<1> QED
  BY <1>2, <1>3, <1>4, <1>5, <1>6 DEF DataInv

(* Nobody does anything, and memory has the tokens of the file. *)
Quiet == (\A c \in Callers : IsIdle(caller[c])) /\ file = Tokens(pool)

LEMMA QuietData == TypeInv /\ Quiet => DataInv
<1> SUFFICES ASSUME TypeInv, Quiet
             PROVE  DataInv
  OBVIOUS
<1>1. At("write") = {} /\ At("answer") = {} /\ At("send") = {}
  BY IdleFields DEF Quiet, At
<1>2. \A i \in DOMAIN pool : Behind(pool[i].token, pool[i].token)
  BY DEF Behind, TypeInv, PoolType, Known
<1>3. OrderInv
  BY <1>1, <1>2 DEF Quiet, OrderInv, Tokens
<1> QED
  BY <1>1, <1>3 DEF Quiet, DataInv, SyncInv, FreshInv, SendInv, AnswerInv

LEMMA RestartKeeps ==
    ASSUME TypeInv, TypeInv', Restart
    PROVE  DataInv'
<1>1. /\ file' = file /\ DOMAIN pool' = DOMAIN file
      /\ \A i \in DOMAIN file : pool'[i].token = file[i]
      /\ \A c \in Callers : IsIdle(caller[c])'
  BY RestartEffect DEF IsIdle, Task
<1>2. file = [i \in DOMAIN file |-> file[i]]
  BY DEF TypeInv, IsImage
<1>3. (file = Tokens(pool))'
  BY <1>1, <1>2 DEF Tokens
<1>4. (TypeInv /\ Quiet => DataInv)'
  BY QuietData, PTL
<1> QED
  BY <1>1, <1>3, <1>4 DEF Quiet

LEMMA ErrandKeeps ==
    ASSUME TypeInv, TypeInv', LockInv, ReloginInv, DataInv, NEW e \in Callers, Errand(e)
    PROVE  DataInv'
<1>1. CASE Refused(e)
  <2>0. PICK i : i = caller[e].id
    OBVIOUS
  <2>1. CASE SameTokens /\ UNCHANGED <<unsynced, crossed>>
    BY <1>1, <2>1, TaskCalm, CalmKeeps
  <2>2. CASE /\ caller[e].kind = "request" /\ i \in DOMAIN pool /\ i \in DOMAIN file
             /\ pool' = [pool EXCEPT ![i] = Entry(file[i])] /\ unsynced' = TRUE
             /\ crossed' = IF file[i].login = caller[e].cred.login THEN crossed
                                                                   ELSE crossed \cup {i}
    <3>1. Entry(file[i]).token = file[i]
      BY DEF Entry
    <3>2. /\ DOMAIN pool' = DOMAIN pool /\ pool'[i] = Entry(file[i])
          /\ \A j \in DOMAIN pool \ {i} : pool'[j] = pool[j]
      BY <2>2 DEF TypeInv, PoolType
    <3>3. PutsToken(i, file[i])
      BY <2>2, <3>1, <3>2 DEF PutsToken
    <3> QED
      BY <1>1, <2>0, <2>2, <3>3, ReloadKeeps
  <2>3. UNCHANGED pool => SameTokens
    BY DEF SameTokens
  <2>4. i \in DOMAIN pool /\ pool' = [pool EXCEPT ![i].disabled = TRUE] => SameTokens
    BY FlagTokens
  <2> QED
    BY <1>1, <2>0, <2>1, <2>2, <2>3, <2>4, RefusedEffect
<1>2. CASE WriteBack(e)
  BY <1>2, TaskCalm, CalmKeeps, WriteBackKeeps
<1>3. CASE Granted(e)
  BY <1>3, GrantedKeeps
<1>4. CASE Insert(e)
  BY <1>4, OperatorCalm, CalmKeeps, InsertKeeps
<1>5. CASE \E i \in DOMAIN pool : Delete(e, i)
  BY <1>5, DeleteKeeps
<1>6. CASE Paste(e)
  BY <1>6, OperatorCalm, CalmKeeps, PasteKeeps
<1>7. CASE \/ \E kind \in Kinds, i \in DOMAIN pool : Start(e, kind, i)
           \/ Lock(e) \/ EndpointFails(e) \/ \E b \in BOOLEAN : LearnAccount(e, b)
  BY <1>7, TaskCalm, CalmKeeps
<1>8. CASE (\E l \in Imports : StartAdd(e, l)) \/ Enable(e)
  BY <1>8, OperatorCalm, CalmKeeps
<1> QED
  BY <1>1, <1>2, <1>3, <1>4, <1>5, <1>6, <1>7, <1>8 DEF Errand

LEMMA NextData ==
    ASSUME TypeInv, TypeInv', LockInv, ReloginInv, DataInv, [RotationNext]_rotationVars
    PROVE  DataInv'
<1>1. CASE UNCHANGED rotationVars
  BY <1>1, StillKeeps DEF rotationVars, SameTokens
<1>2. ASSUME NEW i \in DOMAIN pool, Expire(i)
      PROVE  DataInv'
  <2>1. FlagStep(i) /\ UNCHANGED <<file, unsynced, crossed, caller, newest, rotates>>
    BY <1>2 DEF Expire, FlagStep
  <2> QED
    BY <2>1, FlagType, StillKeeps DEF SameTokens
<1>3. ASSUME NEW e \in Callers, NEW i \in DOMAIN pool, NEW l \in Reissued, StartRelogin(e, i, l)
      PROVE  DataInv'
  BY <1>3, OperatorCalm, CalmKeeps
<1> QED
  BY <1>1, <1>2, <1>3, NextCases, ErrandKeeps, SnapshotKeeps, WriteKeeps, RestartKeeps

---------------------------------------------------------------------------
(* Results.                                                                *)

LEMMA RotationInvInit == RotationInit => RotationInv
<1> SUFFICES ASSUME RotationInit
             PROVE  RotationInv
  OBVIOUS
<1>1. TypeInv /\ \A c \in Callers : IsIdle(caller[c])
  BY InitType
<1>2. \A c \in Callers : caller[c].pc = "idle" /\ caller[c].then = "idle" /\ c # "free"
  BY <1>1, IdleFields, TokenRotationAssumption
<1>3. LockInv /\ ReloginInv
  BY <1>2 DEF LockInv, ReloginInv, RotationInit
<1>4. DataInv
  BY <1>1, QuietData DEF Quiet, RotationInit
<1> QED
  BY <1>1, <1>3, <1>4 DEF RotationInv

LEMMA RotationInvNext == RotationInv /\ [RotationNext]_rotationVars => RotationInv'
BY NextType, NextLocks, NextRelogin, NextData DEF RotationInv

(* Each lock is held by the task that is past it, a task about to send     *)
(* holds the token of memory, an answer is a token nobody else holds and   *)
(* newer than any other of its login, and with nothing unsaved the writer  *)
(* writes what memory holds.                                               *)
THEOREM RotationInvariant == RotationSpec => []RotationInv
BY RotationInvInit, RotationInvNext, PTL DEF RotationSpec

(* A request or a query that waited for the lock sends the token memory    *)
(* holds when it got the lock, whatever happened while it waited, unless a *)
(* relogin replaced the login since.                                       *)
THEOREM WaitersSendNewest == RotationSpec => []NewestUnderLock
<1>1. RotationInv => NewestUnderLock
  BY DEF RotationInv, DataInv, SendInv, SendsNewest, NewestUnderLock, At
<1> QED
  BY <1>1, RotationInvariant, PTL

(* When no save is under way, failed or undone by a reload, a crash loses  *)
(* no token: the file has those of memory.                                 *)
THEOREM QuietMeansSaved == RotationSpec => []SavedWhenQuiet
<1>1. RotationInv => SavedWhenQuiet
  <2> SUFFICES ASSUME RotationInv, ~unsynced,
                      \A c \in Callers : caller[c].pc \notin {"save", "write"}
               PROVE  file = Tokens(pool)
    BY DEF SavedWhenQuiet
  <2>1. At("save") = {} /\ At("write") = {}
    BY DEF At
  <2> QED
    BY <2>1 DEF RotationInv, DataInv, SyncInv
<1> QED
  BY <1>1, RotationInvariant, PTL

LEMMA ErrandFile ==
    ASSUME TypeInv, NEW e \in Callers, Errand(e)
    PROVE  UNCHANGED file /\ (nextId' = nextId \/ Insert(e))
<1>1. CASE (\E kind \in Kinds, i \in DOMAIN pool : Start(e, kind, i)) \/ Lock(e) \/ Granted(e)
  BY <1>1, StartEffect, LockEffect, GrantedEffect
<1>2. CASE EndpointFails(e) \/ Refused(e) \/ WriteBack(e) \/ \E b \in BOOLEAN : LearnAccount(e, b)
  BY <1>2, FailsEffect, RefusedEffect, WriteBackEffect, LearnEffect
<1>3. CASE (\E l \in Imports : StartAdd(e, l)) \/ Insert(e) \/ \E i \in DOMAIN pool : Delete(e, i)
  BY <1>3, StartAddEffect, InsertEffect, DeleteEffect
<1>4. CASE Paste(e) \/ Enable(e)
  BY <1>4, PasteEffect, EnableEffect
<1> QED
  BY <1>1, <1>2, <1>3, <1>4 DEF Errand

(* No save puts a token the endpoint no longer takes over one it still     *)
(* takes, whatever the saves of other tasks did meanwhile.                 *)
THEOREM SpentTokenNeverSaved == RotationSpec => LiveTokenKept
<1> DEFINE Kept == \A i \in (DOMAIN file \cap DOMAIN file') \ crossed :
                       (file[i].gen = newest[file[i].login] /\ file'[i].login = file[i].login)
                           => file'[i].gen >= file[i].gen
<1>1. RotationInv /\ [RotationNext]_rotationVars => [Kept]_rotationVars
  <2> SUFFICES ASSUME RotationInv, RotationNext
               PROVE  Kept
    OBVIOUS
  <2>1. TypeInv /\ OrderInv /\ LockInv
    BY DEF RotationInv, DataInv
  <2>2. \A i \in DOMAIN file : file[i].gen \in Nat /\ newest[file[i].login] \in Nat
    BY <2>1 DEF TypeInv, IsImage, PoolType, Known
  <2>3. ASSUME NEW e \in Callers, NEW ok \in BOOLEAN, Write(e, ok)
        PROVE  Kept
    <3>1. e \in At("write") /\ (file' = caller[e].snap \/ file' = file)
      BY <2>1, <2>3, WriteEffect DEF At
    <3>2. \A i \in DOMAIN caller[e].snap : caller[e].snap[i].gen \in Nat
      BY <2>1, <3>1 DEF TypeInv, CallerType, IsImage, Known, At
    <3>3. CASE file' = caller[e].snap
      <4>1. \A i \in (DOMAIN file \cap DOMAIN file') \ crossed : Behind(file[i], file'[i])
        BY <2>1, <3>1, <3>3 DEF OrderInv
      <4> QED
        BY <2>2, <3>2, <3>3, <4>1 DEF Behind
    <3> QED
      BY <2>2, <3>1, <3>3
  <2>4. UNCHANGED file => Kept
    BY <2>2
  <2>5. (\E i \in DOMAIN pool : Expire(i)) \/ Restart => UNCHANGED file
    BY DEF Expire, Restart
  <2>6. (\E e \in Callers : Snapshot(e)) \/
            (\E e \in Callers, i \in DOMAIN pool, l \in Reissued : StartRelogin(e, i, l)) =>
        UNCHANGED file
    BY DEF Snapshot, StartRelogin
  <2>7. (\E e \in Callers : Errand(e)) => UNCHANGED file
    BY <2>1, ErrandFile
  <2> HIDE DEF Kept
  <2> QED
    BY <2>3, <2>4, <2>5, <2>6, <2>7, NextCases
<1> QED
  BY <1>1, RotationInvariant, PTL DEF RotationSpec, LiveTokenKept

(* Two imports of one token, however they interleave, make one credential. *)
THEOREM TokenImportedOnce == RotationSpec => NoDoubleImport
<1> DEFINE Once == nextId' > nextId => \A i \in DOMAIN pool' \ DOMAIN pool, j \in DOMAIN pool :
                       pool'[i].token # pool[j].token
<1>1. RotationInv /\ [RotationNext]_rotationVars => [Once]_rotationVars
  <2> SUFFICES ASSUME RotationInv, RotationNext
               PROVE  Once
    OBVIOUS
  <2>1. TypeInv /\ FreshInv /\ nextId \in Nat
    BY DEF RotationInv, DataInv, TypeInv, PoolType
  <2>2. ASSUME NEW e \in Callers, Insert(e)
        PROVE  Once
    <3>1. CASE Holds(pool, caller[e].cred)
      <4>1. UNCHANGED pool
        BY <2>1, <2>2, <3>1, InsertEffect
      <4> QED
        BY <4>1
    <3>2. CASE ~Holds(pool, caller[e].cred)
      <4>1. IsNew(e)
        BY <2>1, <2>2, InsertEffect DEF FreshInv, At
      <4>2. \A j \in DOMAIN pool : caller[e].got # pool[j].token
        BY <3>2, <4>1 DEF IsNew, Holds
      <4>3. \A i \in DOMAIN pool' \ DOMAIN pool : pool'[i].token = caller[e].got
        BY <2>1, <2>2, <3>2, InsertedEntry
      <4> QED
        BY <4>2, <4>3
    <3> QED
      BY <3>1, <3>2
  <2>3. nextId' \in Nat /\ nextId' <= nextId => Once
    BY <2>1
  <2>4. nextId' = nextId => Once
    BY <2>1, <2>3
  <2>5. Restart => Once
    BY <2>1, <2>3, RestartEffect
  <2>6. (\E i \in DOMAIN pool : Expire(i)) \/ (\E e \in Callers : Snapshot(e)) \/
            (\E e \in Callers, i \in DOMAIN pool, l \in Reissued : StartRelogin(e, i, l)) \/
            (\E e \in Callers, ok \in BOOLEAN : Write(e, ok)) => nextId' = nextId
    BY DEF Expire, Snapshot, StartRelogin, Write
  <2>7. (\E e \in Callers : Errand(e)) => Once
    BY <2>1, <2>2, <2>4, ErrandFile
  <2> HIDE DEF Once
  <2> QED
    BY <2>4, <2>5, <2>6, <2>7, NextCases
<1> QED
  BY <1>1, RotationInvariant, PTL DEF RotationSpec, NoDoubleImport

=============================================================================
