------------------------------ MODULE Registry ------------------------------
(***************************************************************************)
(* Client keys (src/admin/client_keys.rs), the group registry              *)
(* (src/admin/groups.rs) and the handlers that keep groups, keys and       *)
(* credentials in step (src/admin/handlers.rs).  A handler that touches    *)
(* several files is several steps; no lock spans them, so other handlers   *)
(* run in between; the process may die between any two, and main.rs        *)
(* repairs what it can at the next boot.                                   *)
(* Keys and groups are written under the lock that changes them, and those *)
(* writes succeed; credentials.json is written later and may fail.  A      *)
(* plaintext is the number of the draw that produced it.                   *)
(***************************************************************************)
EXTENDS Naturals, FiniteSets, Functions

CONSTANTS Accounts,      \* the credentials of the pool
          GroupNames,    \* names an operator gives to groups
          Handlers,      \* bound: requests of several steps that are under way at once
          MaxPlain,      \* bound: plaintexts ever drawn
          MaxKeys        \* bound: the highest id of a client key

ASSUME RegistryAssumption ==
    MaxPlain \in Nat /\ MaxKeys \in Nat

VARIABLES
    groups,       \* GroupManager.entries and groups.json
    belongs,      \* credentials.groups of every credential
    savedGroups,  \* the same in credentials.json
    keys,         \* ClientKeyManager.entries and its file
    byKey,        \* by_key: plaintext |-> id
    nextKey,      \* next_id
    apiKey,       \* config.apiKey
    drawn,        \* how many plaintexts were drawn
    jobs,         \* where each handler of several steps is
    revoked,      \* history: plaintexts rotated out, deleted or replaced
    keyLost,      \* history: config.apiKey lost the last rotation: a write failed
                  \* or another handler's overtook it
    strays,       \* history: names given to a key or a credential since boot when
                  \* not registered, or when a deletion had looked, and not
                  \* registered since
    refused       \* history: a rename was rolled back since boot

groupVars == <<groups, belongs, savedGroups, strays, refused>>
keyVars == <<keys, byKey, nextKey, apiKey, drawn, revoked, keyLost>>
registryVars == <<groupVars, keyVars, jobs>>

SystemId == 0
NoGroup == "ungrouped"
NoJob == [step |-> "none", old |-> NoGroup, new |-> NoGroup, plain |-> 0]
Free(h) == jobs[h].step = "none"
Quiet == \A h \in Handlers : Free(h)
Goes(h, step) == jobs' = [jobs EXCEPT ![h].step = step]
Ends(h) == jobs' = [jobs EXCEPT ![h] = NoJob]
OldAt(steps) == {jobs[h].old : h \in {k \in Handlers : jobs[k].step \in steps}}

\* Names a rename has taken out of the registry and not yet out of the keys.
BeingRenamed == OldAt({"rename_accounts", "save_renamed", "rename_keys", "roll_back"})

\* Names a deletion will take out of the registry without another look at the
\* credentials, or at the keys.
CheckedAccounts == OldAt({"count_keys", "save_cleared", "clear_keys", "delete"})
CheckedKeys == OldAt({"delete"})

\* Names that go astray when given while `checked` are past their last look.
Astray(names, checked) == names \ (groups \ checked)

Key(p, g, sys) == [plain |-> p, group |-> g, disabled |-> FALSE, system |-> sys]
Index(entries) == [p \in {entries[i].plain : i \in DOMAIN entries} |->
                      CHOOSE i \in DOMAIN entries : entries[i].plain = p]
NextIds(entries) ==      \* one above the highest, and only that
    {n \in {i + 1 : i \in DOMAIN entries} : \A i \in DOMAIN entries : i < n}

\* verify_and_touch: the enabled keys a presented plaintext matches.
Authenticates(p) == {i \in DOMAIN keys : ~keys[i].disabled /\ keys[i].plain = p}

\* count_credentials_with_group and count_with_group, for every name at once.
KeyGroups == {keys[i].group : i \in DOMAIN keys} \ {NoGroup}
AccountNames(b) == UNION {b[a] : a \in Accounts}
NamesInUse(b) == KeyGroups \cup AccountNames(b)

\* list_credential_groups and used_group_names: what boot registers again.
BootNamesOfAccounts(b) == AccountNames(b)                  \* mutant: keys forgotten
BootNames(b) == NamesInUse(b)

\* sync_system_key drops every client key with the old or the new value.
Conflicts(entries, p) ==
    {i \in DOMAIN entries \ {SystemId} : entries[i].plain \in {p, entries[SystemId].plain}}

Synced(entries, p) ==
    [i \in DOMAIN entries \ Conflicts(entries, p) |->
        IF i = SystemId /\ entries[i].plain # p
        THEN [entries[i] EXCEPT !.plain = p, !.disabled = FALSE] ELSE entries[i]]

RegistryInit ==
    /\ groups \in {S \in SUBSET GroupNames : Cardinality(S) = 1}
    /\ belongs \in [Accounts -> SUBSET groups] /\ savedGroups = belongs
    /\ keys = [i \in {SystemId} |-> Key(1, NoGroup, TRUE)]
    /\ byKey = Index(keys) /\ nextKey = 1 /\ apiKey = 1 /\ drawn = 1
    /\ jobs = [h \in Handlers |-> NoJob]
    /\ revoked = {} /\ keyLost = FALSE /\ strays = {} /\ refused = FALSE

-----------------------------------------------------------------------------
(* Client keys.  Nothing looks a group's name up before it is stored.      *)

CreateKey(g) ==
    /\ drawn < MaxPlain /\ nextKey <= MaxKeys
    /\ drawn' = drawn + 1 /\ nextKey' = nextKey + 1
    /\ keys' = [i \in DOMAIN keys \cup {nextKey} |->
                   IF i = nextKey THEN Key(drawn', g, FALSE) ELSE keys[i]]
    /\ byKey' = [p \in DOMAIN byKey \cup {drawn'} |-> IF p = drawn' THEN nextKey ELSE byKey[p]]
    /\ strays' = strays \cup Astray({g} \ {NoGroup}, CheckedKeys)
    /\ UNCHANGED <<apiKey, revoked, keyLost, jobs, groups, belongs, savedGroups, refused>>

\* Deleting refuses the system key.
DeleteKey(i) ==
    /\ i \in DOMAIN keys /\ ~keys[i].system
    /\ keys' = Restrict(keys, DOMAIN keys \ {i})
    /\ byKey' = Restrict(byKey, DOMAIN byKey \ {keys[i].plain})
    /\ revoked' = revoked \cup {keys[i].plain}
    /\ UNCHANGED <<nextKey, apiKey, drawn, keyLost, jobs, groupVars>>

\* set_disabled.
DisableKey(i, disabled) ==
    /\ i \in DOMAIN keys /\ keys' = [keys EXCEPT ![i].disabled = disabled]
    /\ UNCHANGED <<byKey, nextKey, apiKey, drawn, revoked, keyLost, jobs, groupVars>>

\* update_meta, the group.
EditKey(i, g) ==
    /\ i \in DOMAIN keys /\ keys' = [keys EXCEPT ![i].group = g]
    /\ strays' = strays \cup Astray({g} \ {NoGroup, keys[i].group}, CheckedKeys)
    /\ UNCHANGED <<byKey, nextKey, apiKey, drawn, revoked, keyLost, jobs,
                   groups, belongs, savedGroups, refused>>

\* rotate: the old plaintext leaves by_key, the new one takes its id.
RotatedIndexKeepsOld(i, old, new) ==                       \* mutant
    [p \in DOMAIN byKey \cup {new} |-> IF p = new THEN i ELSE byKey[p]]
RotatedIndex(i, old, new) ==
    [p \in (DOMAIN byKey \ {old}) \cup {new} |-> IF p = new THEN i ELSE byKey[p]]

\* rotate_client_key writes what it drew to config.json afterwards when it was
\* the system key.
RotateKey(h, i) ==
    /\ Free(h) /\ i \in DOMAIN keys /\ drawn < MaxPlain
    /\ drawn' = drawn + 1
    /\ keys' = [keys EXCEPT ![i].plain = drawn']
    /\ byKey' = RotatedIndex(i, keys[i].plain, drawn')
    /\ revoked' = revoked \cup {keys[i].plain}
    /\ jobs' = IF keys[i].system
               THEN [jobs EXCEPT ![h].step = "persist_api_key", ![h].plain = drawn'] ELSE jobs
    /\ UNCHANGED <<nextKey, apiKey, keyLost, groupVars>>

\* update_config_file only logs a write that fails.
PersistNothing(plain, ok) == apiKey                        \* mutant
WrittenApiKey(plain, ok) == IF ok THEN plain ELSE apiKey
PersistApiKey(h, ok) ==
    /\ jobs[h].step = "persist_api_key" /\ Ends(h)
    /\ apiKey' = WrittenApiKey(jobs[h].plain, ok)
    /\ keyLost' = ~(ok /\ jobs[h].plain = keys[SystemId].plain)
    /\ UNCHANGED <<keys, byKey, nextKey, drawn, revoked, groupVars>>

\* Any other setting: update_config_file loads the whole of config.json and
\* saves the whole, with no lock, so what it read of apiKey may be old.
LoadConfig(h) ==
    /\ Free(h) /\ jobs' = [jobs EXCEPT ![h].step = "save_config", ![h].plain = apiKey]
    /\ UNCHANGED <<groupVars, keyVars>>

SaveConfig(h) ==
    /\ jobs[h].step = "save_config" /\ Ends(h)
    /\ apiKey' = jobs[h].plain /\ keyLost' = (keyLost \/ apiKey' # apiKey)
    /\ UNCHANGED <<keys, byKey, nextKey, drawn, revoked, groupVars>>

-----------------------------------------------------------------------------
(* Groups: one registry operation, or a cascade of several                 *)

\* A registered name is no stray, unless a deletion of it is past its last look.
Registered(n) == strays \ ({n} \ CheckedAccounts)

CreateGroup(n) ==
    /\ n \notin groups /\ groups' = groups \cup {n} /\ strays' = Registered(n)
    /\ UNCHANGED <<belongs, savedGroups, refused, jobs, keyVars>>

\* update_credential: the groups of a credential, in memory.
AssignGroups(a, S) ==
    /\ belongs' = [belongs EXCEPT ![a] = S]
    /\ strays' = strays \cup Astray(S \ belongs[a], CheckedAccounts)
    /\ UNCHANGED <<groups, savedGroups, refused, jobs, keyVars>>

\* persist_credentials, for update_credential or for any change of the pool:
\* snapshot and write under persist_lock.
SaveAccounts ==
    /\ savedGroups' = belongs
    /\ UNCHANGED <<groups, belongs, strays, refused, jobs, keyVars>>

\* update_group: the registry first; then rename_credential_group, which saves
\* if it changed a credential; then the keys.
RenameGroup(h, n, m) ==
    /\ Free(h) /\ n \in groups /\ m \notin groups
    /\ groups' = (groups \ {n}) \cup {m} /\ strays' = Registered(m)
    /\ jobs' = [jobs EXCEPT ![h] = [NoJob EXCEPT !.step = "rename_accounts", !.old = n, !.new = m]]
    /\ UNCHANGED <<belongs, savedGroups, refused, keyVars>>

RenamedIn(S, old, new) == IF old \in S THEN (S \ {old}) \cup {new} ELSE S

RenameAccounts(h) ==
    LET renamed == [a \in Accounts |-> RenamedIn(belongs[a], jobs[h].old, jobs[h].new)]
    IN /\ jobs[h].step = "rename_accounts"
       /\ belongs' = renamed
       /\ strays' = strays \cup
             (IF renamed = belongs THEN {} ELSE Astray({jobs[h].new}, CheckedAccounts))
       /\ Goes(h, IF renamed = belongs THEN "rename_keys" ELSE "save_renamed")
       /\ UNCHANGED <<groups, savedGroups, refused, keyVars>>

SaveRenamed(h, ok) ==
    /\ jobs[h].step = "save_renamed"
    /\ savedGroups' = IF ok THEN belongs ELSE savedGroups
    /\ Goes(h, IF ok THEN "rename_keys" ELSE "roll_back")
    /\ UNCHANGED <<groups, belongs, strays, refused, keyVars>>

\* The rename back is ignored when it is refused itself.
RollBack(h) ==
    /\ jobs[h].step = "roll_back" /\ refused' = TRUE /\ Ends(h)
    /\ groups' = IF jobs[h].new \in groups /\ jobs[h].old \notin groups
                 THEN (groups \ {jobs[h].new}) \cup {jobs[h].old} ELSE groups
    /\ UNCHANGED <<belongs, savedGroups, strays, keyVars>>

\* The keys that name one group name another: rename_group, clear_group.
Regrouped(old, new) ==
    [i \in DOMAIN keys |-> IF keys[i].group = old THEN [keys[i] EXCEPT !.group = new] ELSE keys[i]]

RenameKeys(h) ==
    /\ jobs[h].step = "rename_keys" /\ Ends(h)
    /\ keys' = Regrouped(jobs[h].old, jobs[h].new)
    /\ strays' = strays \cup (IF keys' = keys THEN {} ELSE Astray({jobs[h].new}, CheckedKeys))
    /\ UNCHANGED <<byKey, nextKey, apiKey, drawn, revoked, keyLost,
                   groups, belongs, savedGroups, refused>>

\* delete_group: refused while something names the group, unless forced; the
\* credentials are counted first, then the keys.
DeleteGroup(h, n, force) ==
    /\ Free(h) /\ n \in groups /\ (force \/ n \notin AccountNames(belongs))
    /\ jobs' = [jobs EXCEPT ![h] = [NoJob EXCEPT
                   !.step = IF force THEN "clear_accounts" ELSE "count_keys", !.old = n]]
    /\ UNCHANGED <<groupVars, keyVars>>

CountKeys(h) ==
    /\ jobs[h].step = "count_keys"
    /\ IF jobs[h].old \in KeyGroups THEN Ends(h) ELSE Goes(h, "delete")
    /\ UNCHANGED <<groupVars, keyVars>>

ClearAccounts(h) ==
    /\ jobs[h].step = "clear_accounts"
    /\ belongs' = [a \in Accounts |-> belongs[a] \ {jobs[h].old}]
    /\ Goes(h, IF belongs' = belongs THEN "clear_keys" ELSE "save_cleared")
    /\ UNCHANGED <<groups, savedGroups, strays, refused, keyVars>>

SaveCleared(h, ok) ==
    /\ jobs[h].step = "save_cleared"
    /\ savedGroups' = IF ok THEN belongs ELSE savedGroups
    /\ IF ok THEN Goes(h, "clear_keys") ELSE Ends(h)
    /\ UNCHANGED <<groups, belongs, strays, refused, keyVars>>

ClearKeys(h) ==
    /\ jobs[h].step = "clear_keys" /\ Goes(h, "delete")
    /\ keys' = Regrouped(jobs[h].old, NoGroup)
    /\ UNCHANGED <<byKey, nextKey, apiKey, drawn, revoked, keyLost, groupVars>>

RemoveGroup(h) ==
    /\ jobs[h].step = "delete" /\ groups' = groups \ {jobs[h].old} /\ Ends(h)
    /\ UNCHANGED <<belongs, savedGroups, strays, refused, keyVars>>

-----------------------------------------------------------------------------
(* Boot: main.rs loads the files, registers every name in use and syncs    *)
(* the system key with config.json, which an operator may have edited.     *)
Reboot(p) ==
    LET lost == keyLost \/ \E h \in Handlers : jobs[h].step = "persist_api_key"
    IN /\ apiKey' = p /\ drawn' = IF p > drawn THEN p ELSE drawn
       /\ belongs' = savedGroups /\ UNCHANGED savedGroups
       /\ groups' = groups \cup BootNames(savedGroups)
       /\ keys' = Synced(keys, p)
       /\ byKey' = Index(keys') /\ nextKey' \in NextIds(keys)
       /\ jobs' = [h \in Handlers |-> NoJob] /\ strays' = {} /\ refused' = FALSE /\ keyLost' = FALSE
       /\ revoked' = IF p = apiKey /\ ~lost THEN revoked
                     ELSE (revoked \cup {keys[i].plain : i \in DOMAIN keys})
                            \ {keys'[i].plain : i \in DOMAIN keys'}

\* What a boot may find in config.json.
BootTexts == {apiKey} \cup 1..(IF drawn < MaxPlain THEN drawn + 1 ELSE drawn)

KeyNext ==
    \/ \E g \in GroupNames \cup {NoGroup} : CreateKey(g)
    \/ \E i \in DOMAIN keys : DeleteKey(i) \/ \E b \in BOOLEAN : DisableKey(i, b)
    \/ \E h \in Handlers :
        \/ \E i \in DOMAIN keys : RotateKey(h, i)
        \/ \E b \in BOOLEAN : PersistApiKey(h, b)
        \/ LoadConfig(h) \/ SaveConfig(h)

GroupNext ==
    \/ \E n \in GroupNames : CreateGroup(n)
    \/ \E i \in DOMAIN keys, g \in GroupNames \cup {NoGroup} : EditKey(i, g)
    \/ \E a \in Accounts, S \in SUBSET GroupNames : AssignGroups(a, S)
    \/ SaveAccounts
    \/ \E h \in Handlers :
        \/ \E n, m \in GroupNames : RenameGroup(h, n, m)
        \/ \E n \in GroupNames, b \in BOOLEAN : DeleteGroup(h, n, b)
        \/ \E b \in BOOLEAN : SaveRenamed(h, b) \/ SaveCleared(h, b)
        \/ RenameAccounts(h) \/ RollBack(h) \/ RenameKeys(h)
        \/ CountKeys(h) \/ ClearAccounts(h) \/ ClearKeys(h) \/ RemoveGroup(h)

RegistryNext == KeyNext \/ GroupNext \/ \E p \in BootTexts : Reboot(p)

-----------------------------------------------------------------------------
(* Properties                                                              *)

\* by_key is exactly the inverse of the entries, whatever was rotated, deleted,
\* synchronised or reloaded: create_with_key relies on it with an expect, and
\* two keys never share a plaintext.
KeyIndexExact ==
    /\ \A i \in DOMAIN keys : keys[i].plain \in DOMAIN byKey /\ byKey[keys[i].plain] = i
    /\ \A p \in DOMAIN byKey : byKey[p] \in DOMAIN keys /\ keys[byKey[p]].plain = p

\* A plaintext that was rotated out, deleted or replaced by config.json never
\* authenticates again, over restarts too.  A boot revives one only when an
\* operator wrote it into config.json, or when the write of the system key was
\* lost: it failed, the process died before it, or a handler that had an older
\* value of config.json wrote it later (persist_api_key, update_config_file).
RevokedStaysDead == \A p \in revoked : Authenticates(p) = {}

\* At every moment, whichever handlers run at once and whatever crashed half way
\* through a cascade, every group a credential or a key names is registered, or
\* a rename under way is taking it from them; except for the names given
\* unregistered in this process, or given when a deletion of the name had
\* already counted or cleared its references, and except after a rename that
\* was refused because its save failed.  (The next boot registers them all.)
RegistryConsistent ==
    refused \/ NamesInUse(belongs) \subseteq groups \cup strays \cup BeingRenamed

\* A rename that is refused leaves the registry and the credentials in step.
\* (update_group, "级联：失败时尝试回滚分组改名（避免注册表与凭据 / Key 不一致）")
RefusedRenameUndone == (refused /\ Quiet) => NamesInUse(belongs) \subseteq groups \cup strays
=============================================================================
