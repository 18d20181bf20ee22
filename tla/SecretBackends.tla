---------------------------- MODULE SecretBackends ----------------------------
(***************************************************************************)
(* The three stores of secrets (crates/storage/credentials.rs) as          *)
(* operators: a plain file, one entry of the system's store per secret     *)
(* with a cache (Linux, Windows), and one entry with all secrets, which    *)
(* takes over the separate entries of earlier versions (macOS).  An        *)
(* operation is a function from a store and the underlying calls that      *)
(* fail in it to the store afterwards and the answer.                      *)
(***************************************************************************)
EXTENDS Integers

CONSTANTS Passwords, ChannelKeys, Values

Keys == Passwords \union ChannelKeys
None == 0
Unread == -1

ASSUME SecretBackendsAssumption ==
    /\ Passwords \intersect ChannelKeys = {}
    /\ Values \subseteq Nat \ {None}

Failures == {"read", "write", "remove"}
Secrets == [Keys -> Values \union {None}]
NoSecrets == [k \in Keys |-> None]
NothingRead == [k \in Keys |-> Unread]

Kinds == {"local_file", "entries", "vault"}

Stores == [kind : Kinds,
           item : Secrets,         \* what the file, the entries or the vault hold
           separate : Secrets,     \* entries an earlier version may have left
           cache : [Keys -> Values \union {None, Unread}],
           checked : SUBSET Keys]  \* separate entries looked up or cleared

(* A store as a new process finds it.                                      *)
Opened(s) == [s EXCEPT !.cache = NothingRead, !.checked = {}]

Answer(s, error, value) == [store |-> s, error |-> error, value |-> value]
Done(s) == Answer(s, "", None)

Put(s, k, v) ==
    [s EXCEPT !.item[k] = v,
              !.cache[k] = IF s.kind = "local_file" THEN @ ELSE v]

(* VaultBackend::loaded: the whole vault is read at once.                  *)
Loaded(s) ==
    IF \A k \in Keys : s.cache[k] # Unread THEN s ELSE [s EXCEPT !.cache = s.item]

(* The call that reads the store fails; nothing is cached.                 *)
ReadFails(s, k, fails) ==
    /\ "read" \in fails
    /\ CASE s.kind = "local_file" -> TRUE
         [] s.kind = "entries" -> s.cache[k] = Unread
         [] s.kind = "vault" -> Loaded(s) # s

ClearSeparate(s, k, fails) ==
    IF k \in s.checked THEN s
    ELSE [s EXCEPT !.checked = @ \union {k},
                   !.separate[k] = IF "remove" \in fails THEN @ ELSE None]

(* VaultBackend::get, once the vault is loaded.                            *)
GetFromVault(s, k, fails) ==
    IF s.cache[k] # None THEN Answer(s, "", s.cache[k])
    ELSE IF k \in s.checked THEN Done(s)
    ELSE IF "read" \in fails THEN Answer(s, "refused", None)
    ELSE IF s.separate[k] = None THEN Done([s EXCEPT !.checked = @ \union {k}])
    ELSE Answer(IF "write" \in fails THEN s
                ELSE ClearSeparate(Put(s, k, s.separate[k]), k, fails),
                "", s.separate[k])

Get(s, k, fails) ==
    IF ReadFails(s, k, fails) THEN Answer(s, "refused", None)
    ELSE CASE s.kind = "local_file" -> Answer(s, "", s.item[k])
           [] s.kind = "entries" ->
                LET known == IF s.cache[k] = Unread
                             THEN [s EXCEPT !.cache[k] = s.item[k]] ELSE s
                IN  Answer(known, "", known.cache[k])
           [] s.kind = "vault" -> GetFromVault(Loaded(s), k, fails)

SetInVault(s, k, v, fails) ==
    IF s.cache[k] # v /\ "write" \in fails THEN Answer(s, "refused", None)
    ELSE Done(ClearSeparate(Put(s, k, v), k, fails))

(* Mutant: the cache takes the value before the entry is written.          *)
Set_CacheFirst(s, k, v, fails) ==
    CASE s.kind = "local_file" ->
            IF fails \intersect {"read", "write"} # {} THEN Answer(s, "refused", None)
            ELSE Done(Put(s, k, v))
      [] s.kind = "entries" ->
            IF s.cache[k] = v THEN Done(s)
            ELSE IF "write" \in fails THEN Answer([s EXCEPT !.cache[k] = v], "refused", None)
            ELSE Done(Put(s, k, v))
      [] s.kind = "vault" ->
            IF ReadFails(s, k, fails) THEN Answer(s, "refused", None)
            ELSE SetInVault(Loaded(s), k, v, fails)

(* CredentialStore::set with a value that is not empty.                    *)
Set(s, k, v, fails) ==
    CASE s.kind = "local_file" ->
            IF fails \intersect {"read", "write"} # {} THEN Answer(s, "refused", None)
            ELSE Done(Put(s, k, v))
      [] s.kind = "entries" ->
            IF s.cache[k] = v THEN Done(s)
            ELSE IF "write" \in fails THEN Answer(s, "refused", None)
            ELSE Done(Put(s, k, v))
      [] s.kind = "vault" ->
            IF ReadFails(s, k, fails) THEN Answer(s, "refused", None)
            ELSE SetInVault(Loaded(s), k, v, fails)

(* VaultBackend::delete, once the vault is loaded: the separate entry      *)
(* counts as cleared before it is removed.                                 *)
DeleteFromVault(s, k, fails) ==
    IF s.cache[k] # None /\ "write" \in fails THEN Answer(s, "refused", None)
    ELSE Answer(ClearSeparate(Put(s, k, None), k, fails),
                IF k \notin s.checked /\ "remove" \in fails THEN "refused" ELSE "", None)

Delete(s, k, fails) ==
    CASE s.kind = "local_file" ->
            IF "read" \in fails \/ (s.item[k] # None /\ "write" \in fails)
            THEN Answer(s, "refused", None)
            ELSE Done(Put(s, k, None))
      [] s.kind = "entries" ->
            IF s.cache[k] = None THEN Done(s)
            ELSE IF "remove" \in fails THEN Answer(s, "refused", None)
            ELSE Done(Put(s, k, None))
      [] s.kind = "vault" ->
            IF ReadFails(s, k, fails) THEN Answer(s, "refused", None)
            ELSE DeleteFromVault(Loaded(s), k, fails)

(* What a read would answer now, and after a restart.                      *)
Seen(s, k) == Get(s, k, {}).value
Kept(s, k) == Seen(Opened(s), k)

=============================================================================
