---------------------------- MODULE ConfigStore ----------------------------
(* The settings and the device cache of src-tauri/src/config.rs: two values  *)
(* in memory behind two mutexes, two files written by whole replacement, one *)
(* key file, and the threads that change them.  Three ways of writing exist  *)
(* side by side:                                                             *)
(*   - memory first (update_zoom_position, update_credentials,               *)
(*     set_audio_muted, add/clear_manual_node, every cache writer): mutate,  *)
(*     release the mutex, then save() takes the save lock and clones again;  *)
(*   - persist first (change_settings_if_with and its users): both locks     *)
(*     held from the clone to the publication;                               *)
(*   - commit (commit_restream_settings_with, commit_restream_protocol_with):*)
(*     the save lock held throughout, the settings mutex only for the clone  *)
(*     and for the publication of the writer's own section.                  *)
(* A poisoned mutex is recovered by every caller, so poisoning changes       *)
(* nothing here.  Files: atomic_write replaces a file in one step (rename);  *)
(* what a crash loses is memory, never a half written file.                  *)
EXTENDS Naturals, FiniteSets

CONSTANTS Writers,       \* threads that call AppConfig
          Ports,         \* UDP input and SRT listener ports
          Secrets,       \* SRT passphrases and camera passwords
          Macs,          \* device identities
          MaxWrites,     \* bound: operations begun
          MaxFaults,     \* bound: failed saves, unreadable files, lost keys, crashes
          None,          \* no secret, no file, no row, no holder
          Damaged,       \* a file that does not parse
          Foreign        \* a key blob this user cannot unwrap

Unbound == "unbound"

-----------------------------------------------------------------------------
(* Values.  A stored secret is empty or the ciphertext of a secret under a   *)
(* key; keys are numbered, the key file holds one of them, nothing, or a     *)
(* blob another user wrapped.                                                *)

Keys == 0..(MaxWrites + 1)
Cipher(text, key) == [text |-> text, key |-> key]
Stored == {None} \cup [text : Secrets, key : Keys]
KeyFile == Keys \cup {None, Foreign}

\* SrtPassphraseState.
Unencrypted == [state |-> "unencrypted"]
Available(text) == [state |-> "available", text |-> text]
Unavailable(cipher) == [state |-> "unavailable", cipher |-> cipher]
Passphrase == {Unencrypted} \cup {Available(t) : t \in Secrets}
                \cup {Unavailable(c) : c \in Stored \ {None}}

\* AppSettings: the groups that have writers of different kinds.  `muted`
\* stands for the memory-first fields of which only the last value matters
\* (audio_muted, zoom_positions), `pin` for the manual node of one address:
\* absent, unbound, or bound to an identity.
Pin == {None, Unbound} \cup Macs
\* `udp` is the UDP input port, or 0 while the input is RTSP.
Settings == [udp : Ports \cup {0}, srt : Ports, pass : Passphrase, protocol : {"rtsp", "srt"},
             migrated : BOOLEAN, creds : {None} \cup Secrets, muted : BOOLEAN, pin : Pin]

\* PersistedAppSettings: the same groups with both secrets protected.
\* `legacy`: the file still carries the device_cache of an older build.
File == [udp : Ports \cup {0}, srt : Ports, pass : Stored, protocol : {"rtsp", "srt"},
         migrated : BOOLEAN, creds : Stored, muted : BOOLEAN, pin : Pin,
         legacy : BOOLEAN]
Rows == {None, "old", "new"}                  \* one device_cache row

\* Port 0 is no port, and the three marks are not values they stand beside.
ASSUME ConstantsAssumption ==
  /\ Cardinality(Ports) >= 2 /\ Secrets # {} /\ Macs # {} /\ 0 \notin Ports
  /\ MaxWrites \in Nat /\ MaxFaults \in Nat
  /\ None \notin Writers \cup Nat /\ Foreign \notin Nat
  /\ None \notin Settings /\ None \notin [text : Secrets, key : Keys]
  /\ None \notin File /\ Damaged \notin File

\* AppSettings::default.
Defaults == [udp |-> 0, srt |-> CHOOSE p \in Ports : TRUE, pass |-> Unencrypted,
             protocol |-> "rtsp", migrated |-> TRUE, creds |-> None, muted |-> FALSE,
             pin |-> None]

VARIABLES memory,      \* AppConfig.settings
          cache,       \* AppConfig.cache
          disk,        \* config.toml: a File, Damaged or None
          cacheDisk,   \* device_cache.toml: a row value, Damaged or "absent"
          keyFile,     \* .key
          saveLock,    \* holder of CONFIG_SAVE_LOCK
          cacheLock,   \* holder of CACHE_SAVE_LOCK
          mutex,       \* holder of the settings mutex across a persist
          gate,        \* holder of RelayService.restream_transaction
          job,         \* per writer: the operation under way
          used,        \* [writes, faults] spent
          ghost        \* observations: see Ghosts

vars == <<memory, cache, disk, cacheDisk, keyFile, saveLock, cacheLock, mutex, gate, job,
          used, ghost>>

-----------------------------------------------------------------------------
(* Validation, encryption, loading                                           *)

\* validate_prospective_settings: the one rule between two sections.  The
\* ranges of single fields are the types above.
Accepts(s) == s.udp # s.srt

\* A bug: the ciphertext of a secret that cannot be decrypted is not kept.
StoredPassDropped(pass, key) ==
  IF pass.state = "available" THEN Cipher(pass.text, key) ELSE None

\* persisted_settings_with_srt_encryptor: how the passphrase is stored.
StoredPass(pass, key) ==
  CASE pass.state = "unencrypted" -> None
    [] pass.state = "available"   -> Cipher(pass.text, key)
    [] pass.state = "unavailable" -> pass.cipher

\* The file a save writes.
Persisted(s, key) ==
  [udp |-> s.udp, srt |-> s.srt, pass |-> StoredPass(s.pass, key), protocol |-> s.protocol,
   migrated |-> s.migrated, creds |-> IF s.creds = None THEN None ELSE Cipher(s.creds, key),
   muted |-> s.muted, pin |-> s.pin, legacy |-> FALSE]

\* read_key_from: the usable key.
UsableKey(unreadable) == IF unreadable \/ keyFile = Foreign THEN None ELSE keyFile

\* resolve_srt_passphrase: never empty because it could not be decrypted.
LoadedPass(stored, key) ==
  IF stored = None THEN Unencrypted
  ELSE IF stored.key = key THEN Available(stored.text) ELSE Unavailable(stored)

\* resolve_credentials and decrypt_field: cleared when they cannot be decrypted.
LoadedCreds(stored, key) ==
  IF stored # None /\ stored.key = key THEN stored.text ELSE None

\* runtime_settings_from_persisted.
Loaded(f, key) ==
  [udp |-> f.udp, srt |-> f.srt, pass |-> LoadedPass(f.pass, key), protocol |-> f.protocol,
   migrated |-> f.migrated, creds |-> LoadedCreds(f.creds, key), muted |-> f.muted,
   pin |-> f.pin]

\* What a file and a settings value have in common, secrets compared by
\* content: the ghost of every agreement below.
Text(stored) == IF stored = None THEN None ELSE stored.text
PassText(pass) ==
  CASE pass.state = "unencrypted" -> None
    [] pass.state = "available"   -> pass.text
    [] pass.state = "unavailable" -> pass.cipher.text
SameFirm(s, f) == /\ s.udp = f.udp /\ s.srt = f.srt /\ PassText(s.pass) = Text(f.pass)
                  /\ s.protocol = f.protocol /\ s.migrated = f.migrated
SameSoft(s, f) == s.creds = Text(f.creds) /\ s.muted = f.muted /\ s.pin = f.pin

-----------------------------------------------------------------------------
(* Operations                                                                *)

\* Each operation names its kind and its argument.  For "restream" the
\* argument is the section rebased on memory under the transaction gate; for
\* "bind" and "upsert" it says whether the caller's fence has gone stale.
MemoryFirst == {"creds", "mute", "pin", "clear"}
Commits == {"restream", "protocol"}

Idle == [at |-> "idle"]

\* dirty, cacheDirty: memory was changed and not yet written, because a save
\* failed or a load could not restore everything; unread: settings were
\* replaced by defaults although a readable file exists; keyLost: the key file
\* was removed or belongs to another user.
Ghosts == [dirty : BOOLEAN, cacheDirty : BOOLEAN, unread : BOOLEAN, keyLost : BOOLEAN]

\* update_credentials; set_audio_muted and update_zoom_position;
\* clear_manual_nodes.
SetCredentials(s, c) == [s EXCEPT !.creds = c]
SetMuted(s, b) == [s EXCEPT !.muted = b]
ClearPins(s) == [s EXCEPT !.pin = None]

\* add_manual_node: a different identity at the address is refused, an unbound
\* pin may be completed.
AddPin(s, p) ==
  IF s.pin \in Macs /\ p \in Macs /\ s.pin # p THEN None
  ELSE [s EXCEPT !.pin = IF @ \in Macs THEN @ ELSE p]

\* bind_manual_identity: only an unbound pin is bound.
BindPin(s, m) == IF s.pin = Unbound THEN [s EXCEPT !.pin = m] ELSE None

\* remove_manual_node: only the pin the caller saw.
RemovePin(s, p) == IF s.pin # None /\ s.pin = p THEN [s EXCEPT !.pin = None] ELSE None

\* update_stream_with: the whole stream section, audio_muted included, if the
\* result is acceptable.
UpdateStream(s, port, b) ==
  LET n == [s EXCEPT !.udp = port, !.muted = b] IN IF Accepts(n) THEN n ELSE None

\* migrate_bind_ids_with: once.
MigrateBindIds(s) == IF s.migrated THEN None ELSE [s EXCEPT !.migrated = TRUE]

\* prospective_restream_settings: both server sections, if acceptable.
Restreamed(s, section) ==
  LET n == [s EXCEPT !.srt = section.srt, !.pass = section.pass]
  IN IF Accepts(n) THEN n ELSE None

\* commit_restream_protocol_with.
Switched(s, protocol) == [s EXCEPT !.protocol = protocol]

\* The settings an operation asks for; None when it refuses or changes nothing.
Changed(op, s) ==
  CASE op.kind = "creds"    -> SetCredentials(s, op.arg)
    [] op.kind = "mute"     -> SetMuted(s, op.arg)
    [] op.kind = "clear"    -> ClearPins(s)
    [] op.kind = "pin"      -> AddPin(s, op.arg)
    [] op.kind = "stream"   -> UpdateStream(s, op.arg[1], op.arg[2])
    [] op.kind = "migrate"  -> MigrateBindIds(s)
    [] op.kind = "bind"     -> BindPin(s, op.arg)
    [] op.kind = "unpin"    -> RemovePin(s, op.arg)
    [] op.kind = "restream" -> Restreamed(s, op.arg)
    [] op.kind = "protocol" -> Switched(s, op.arg)

\* The section a commit publishes into memory, whatever else changed there.
Published(op, s) ==
  IF op.kind = "restream" THEN [s EXCEPT !.srt = op.arg.srt, !.pass = op.arg.pass]
  ELSE [s EXCEPT !.protocol = op.arg]

Begin(w, job1) ==
  /\ job[w] = Idle /\ used.writes < MaxWrites
  /\ used' = [used EXCEPT !.writes = @ + 1]
  /\ job' = [job EXCEPT ![w] = job1]

Request(op, at) == [at |-> at, op |-> op, next |-> None, key |-> None]

Fault == used.faults < MaxFaults /\ used' = [used EXCEPT !.faults = @ + 1]

-----------------------------------------------------------------------------
(* Memory-first writers                                                      *)

\* update_credentials, set_audio_muted, update_zoom_position, add_manual_node,
\* clear_manual_nodes: the mutation, in its own hold of the settings mutex.  A
\* refused pin returns before it saves.
Mutate(w, op) ==
  /\ mutex = None
  /\ IF Changed(op, memory) = None
     THEN Begin(w, Idle) /\ UNCHANGED memory
     ELSE Begin(w, Request(op, "save")) /\ memory' = Changed(op, memory)
  /\ UNCHANGED <<cache, disk, cacheDisk, keyFile, saveLock, cacheLock, mutex, gate, ghost>>

\* A bug: saves do not exclude one another.
SaveLockAny == TRUE

\* CONFIG_SAVE_LOCK.
SaveLockFree == saveLock = None

\* save: the save lock first, then a clone of memory as it is now.
Save(w) ==
  /\ job[w].at = "save" /\ SaveLockFree /\ mutex = None
  /\ saveLock' = w
  /\ job' = [job EXCEPT ![w].at = "key", ![w].next = memory]
  /\ UNCHANGED <<memory, cache, disk, cacheDisk, keyFile, cacheLock, mutex, gate, used, ghost>>

-----------------------------------------------------------------------------
(* Persist-first writers                                                     *)

\* change_settings_if_with, bind_manual_node_with, remove_manual_node,
\* set_selected_adapter_mac: save lock, settings mutex, clone and change.  A
\* stale fence, a refused or an unneeded change returns without writing.
Change(w, op, stale) ==
  /\ SaveLockFree /\ mutex = None
  /\ IF stale \/ Changed(op, memory) = None
     THEN Begin(w, Idle) /\ UNCHANGED <<saveLock, mutex>>
     ELSE /\ Begin(w, [Request(op, "key") EXCEPT !.next = Changed(op, memory)])
          /\ saveLock' = w /\ mutex' = w
  /\ UNCHANGED <<memory, cache, disk, cacheDisk, keyFile, cacheLock, gate, ghost>>

-----------------------------------------------------------------------------
(* Commits of the re-stream transaction                                      *)

\* apply_restream_settings_with and switch_restream_protocol_with under the
\* transaction gate: the requested section is rebased on memory, and Keep
\* resolved against the passphrase found there.
Rebase(w, kind) ==
  /\ gate = None /\ mutex = None
  /\ \E arg \in (IF kind = "protocol" THEN {"rtsp", "srt"}
                 ELSE [srt : Ports, pass : {memory.pass, Unencrypted}
                                             \cup {Available(t) : t \in Secrets}]) :
       LET op == [kind |-> kind, arg |-> arg]
       IN /\ Changed(op, memory) # None
          /\ Begin(w, Request(op, "lock"))
  /\ gate' = w
  /\ UNCHANGED <<memory, cache, disk, cacheDisk, keyFile, saveLock, cacheLock, mutex, ghost>>

\* commit_restream_settings_with, commit_restream_protocol_with: the save
\* lock, a fresh clone, and the check against what the other sections are now.
Commit(w) ==
  /\ job[w].at = "lock" /\ SaveLockFree /\ mutex = None
  /\ IF Changed(job[w].op, memory) = None
     THEN /\ job' = [job EXCEPT ![w] = Idle] /\ gate' = None
          /\ UNCHANGED saveLock
     ELSE /\ job' = [job EXCEPT ![w].at = "key", ![w].next = Changed(job[w].op, memory)]
          /\ saveLock' = w
          /\ UNCHANGED gate
  /\ UNCHANGED <<memory, cache, disk, cacheDisk, keyFile, cacheLock, mutex, used, ghost>>

-----------------------------------------------------------------------------
(* save_to_disk                                                              *)

\* get_or_create_key_at: a new key only when there is none for this user.
Regenerates(unreadable) == ~unreadable /\ keyFile \in {None, Foreign}

NewKey == CHOOSE k \in Keys : /\ k # keyFile
                              /\ \A w \in Writers : job[w] # Idle => job[w].key # k
                              /\ disk \in {None, Damaged} \/ (\A c \in {disk.pass, disk.creds} :
                                                                c # None => c.key # k)

Release(w) ==
  /\ job' = [job EXCEPT ![w] = Idle]
  /\ saveLock' = None
  /\ mutex' = IF mutex = w THEN None ELSE mutex
  /\ gate' = IF gate = w THEN None ELSE gate

\* The key of the save; legacy raw keys are re-wrapped with the same bytes.
TakeKey(w) ==
  /\ job[w].at = "key"
  /\ keyFile' = IF Regenerates(FALSE) THEN NewKey ELSE keyFile
  /\ job' = [job EXCEPT ![w].at = "written", ![w].key = keyFile']
  /\ UNCHANGED <<memory, cache, disk, cacheDisk, saveLock, cacheLock, mutex, gate, used, ghost>>

\* Memory after a failed persist.
Kept(w) == memory

\* A save that fails: the directory, the key, the encryption or the file.  A
\* transiently unreadable key fails the save and is not replaced.
SaveFails(w) ==
  /\ job[w].at \in {"key", "written"}
  /\ Fault
  /\ keyFile' = IF job[w].at = "key" /\ Regenerates(TRUE) THEN NewKey ELSE keyFile
  /\ memory' = IF mutex = w THEN Kept(w) ELSE memory
  /\ ghost' = [ghost EXCEPT !.dirty = @ \/ job[w].op.kind \in MemoryFirst]
  /\ Release(w)
  /\ UNCHANGED <<cache, disk, cacheDisk, cacheLock>>

\* atomic_write: the rename replaces the file.  A memory-first save is then
\* done, the other two still have to publish.
Write(w) ==
  /\ job[w].at = "written"
  /\ disk' = Persisted(job[w].next, job[w].key)
  /\ ghost' = [ghost EXCEPT !.dirty = FALSE, !.unread = FALSE]
  /\ IF job[w].op.kind \in MemoryFirst
     THEN Release(w)
     ELSE job' = [job EXCEPT ![w].at = "stored"] /\ UNCHANGED <<saveLock, mutex, gate>>
  /\ UNCHANGED <<memory, cache, cacheDisk, keyFile, cacheLock, used>>

\* `*settings = next`, or the commit's own section under the settings mutex.
Publish(w) ==
  /\ job[w].at = "stored"
  /\ mutex \in {None, w}
  /\ memory' = IF mutex = w THEN job[w].next ELSE Published(job[w].op, memory)
  /\ Release(w)
  /\ UNCHANGED <<cache, disk, cacheDisk, keyFile, cacheLock, used, ghost>>

-----------------------------------------------------------------------------
(* The device cache                                                          *)

\* upsert_cache_record, update_cached_alias_in_place, remove_cached_device.
CacheChanged(op) ==
  CASE op.kind = "upsert" -> op.arg
    [] op.kind = "alias"  -> IF cache = None THEN None ELSE op.arg
    [] op.kind = "evict"  -> None

\* The mutation in memory: nothing for a stale fence or an unchanged row.
MutateCache(w, op, stale) ==
  /\ IF stale \/ (op.kind # "upsert" /\ CacheChanged(op) = cache)
     THEN Begin(w, Idle) /\ UNCHANGED cache
     ELSE Begin(w, Request(op, "cache")) /\ cache' = CacheChanged(op)
  /\ UNCHANGED <<memory, disk, cacheDisk, keyFile, saveLock, cacheLock, mutex, gate, ghost>>

\* save_cache: CACHE_SAVE_LOCK, then the clone.
SaveCache(w) ==
  /\ job[w].at = "cache" /\ cacheLock = None
  /\ cacheLock' = w
  /\ job' = [job EXCEPT ![w].at = "cached", ![w].next = cache]
  /\ UNCHANGED <<memory, cache, disk, cacheDisk, keyFile, saveLock, mutex, gate, used, ghost>>

\* save_cache_to_disk, which may fail.
WriteCache(w) ==
  /\ job[w].at = "cached"
  /\ cacheLock' = None
  /\ job' = [job EXCEPT ![w] = Idle]
  /\ \/ /\ cacheDisk' = job[w].next
        /\ ghost' = [ghost EXCEPT !.cacheDirty = FALSE]
        /\ UNCHANGED used
     \/ /\ Fault
        /\ ghost' = [ghost EXCEPT !.cacheDirty = TRUE]
        /\ UNCHANGED cacheDisk
  /\ UNCHANGED <<memory, cache, disk, keyFile, saveLock, mutex, gate>>

-----------------------------------------------------------------------------
(* Launch, crash and the file system                                         *)

\* load_or_default.  A file that cannot be read gives defaults and stays; one
\* that does not parse, or breaks a rule, gives defaults and is moved aside,
\* best effort.
\* The cache comes from its own file, else from the legacy field, and then is
\* written at once, best effort.
Load(unreadable, noKey, migrates) ==
  LET read == disk \notin {None, Damaged} /\ ~unreadable /\ Accepts(disk)
      kept == disk \notin {None, Damaged} /\ (unreadable \/ Accepts(disk))
      rows == IF cacheDisk \in Rows THEN cacheDisk
              ELSE IF disk \notin {None, Damaged} /\ kept /\ disk.legacy THEN "old" ELSE None
  IN /\ memory' = IF read THEN Loaded(disk, UsableKey(noKey)) ELSE Defaults
     /\ disk' \in IF kept THEN {disk} ELSE {None, disk}
     /\ cache' = rows
     /\ cacheDisk' = IF cacheDisk \in Rows THEN cacheDisk
                     ELSE IF rows # None /\ migrates THEN rows ELSE "absent"
     /\ ghost' = [ghost EXCEPT !.dirty = ~read \/ ~SameFirm(memory', disk) \/ ~SameSoft(memory', disk),
                               !.cacheDirty = cacheDisk' # rows,
                               !.unread = ~read /\ kept]

\* The process ends at any point and is started again.  A transiently
\* unreadable settings or key file, and a failed cache migration, are faults
\* beyond the crash.
Restart ==
  \E unreadable, noKey, migrates \in BOOLEAN :
    LET One(b) == IF b THEN 1 ELSE 0
        cost == 1 + One(unreadable) + One(noKey) + One(~migrates)
    IN /\ used.faults + cost <= MaxFaults
       /\ used' = [used EXCEPT !.faults = @ + cost]
       /\ Load(unreadable, noKey, migrates)
       /\ saveLock' = None /\ cacheLock' = None /\ mutex' = None /\ gate' = None
       /\ job' = [w \in Writers |-> Idle]
       /\ UNCHANGED keyFile

\* Outside the program: the key file is removed or wrapped by another user,
\* or a file is edited into something that does not parse.
KeyLost ==
  /\ Fault /\ keyFile \notin {None, Foreign}
  /\ keyFile' \in {None, Foreign}
  /\ ghost' = [ghost EXCEPT !.keyLost = TRUE]
  /\ UNCHANGED <<memory, cache, disk, cacheDisk, saveLock, cacheLock, mutex, gate, job>>

Damage ==
  /\ Fault
  /\ \/ disk' = Damaged /\ disk \notin {None, Damaged} /\ UNCHANGED cacheDisk
     \/ cacheDisk' = Damaged /\ cacheDisk \in Rows /\ UNCHANGED disk
  /\ ghost' = [ghost EXCEPT !.dirty = @ \/ disk' = Damaged,
                            !.cacheDirty = @ \/ cacheDisk' = Damaged]
  /\ UNCHANGED <<memory, cache, keyFile, saveLock, cacheLock, mutex, gate, job>>

\* First launch, or a launch over the files of an earlier run: a protected
\* passphrase and credentials under key 0, with or without the legacy cache.
Init ==
  /\ keyFile \in {None, 0}
  /\ \/ keyFile = None /\ disk = None
     \/ /\ keyFile = 0
        /\ \E legacy \in BOOLEAN, t \in Secrets :
             disk = [Persisted([Defaults EXCEPT !.pass = Available(t), !.creds = t,
                                               !.migrated = FALSE], 0)
                       EXCEPT !.legacy = legacy]
  /\ memory = IF disk = None THEN Defaults ELSE Loaded(disk, keyFile)
  /\ cacheDisk = IF disk # None /\ disk.legacy THEN "old" ELSE "absent"
  /\ cache = IF cacheDisk = "absent" THEN None ELSE cacheDisk
  /\ saveLock = None /\ cacheLock = None /\ mutex = None /\ gate = None
  /\ job = [w \in Writers |-> Idle]
  /\ used = [writes |-> 0, faults |-> 0]
  /\ ghost = [dirty |-> disk = None, cacheDirty |-> FALSE, unread |-> FALSE, keyLost |-> FALSE]

\* The requests a writer may bring.
Calls(w) ==
  \/ \E c \in {None} \cup Secrets : Mutate(w, [kind |-> "creds", arg |-> c])
  \/ \E b \in BOOLEAN : Mutate(w, [kind |-> "mute", arg |-> b])
  \/ \E p \in {Unbound} \cup Macs : Mutate(w, [kind |-> "pin", arg |-> p])
  \/ Mutate(w, [kind |-> "clear", arg |-> 0])
  \/ \E p \in Ports \cup {0}, b \in BOOLEAN : Change(w, [kind |-> "stream", arg |-> <<p, b>>], FALSE)
  \/ Change(w, [kind |-> "migrate", arg |-> 0], FALSE)
  \/ \E m \in Macs, stale \in BOOLEAN : Change(w, [kind |-> "bind", arg |-> m], stale)
  \/ \E p \in {Unbound} \cup Macs : Change(w, [kind |-> "unpin", arg |-> p], FALSE)
  \/ \E kind \in Commits : Rebase(w, kind)
  \/ \E stale \in BOOLEAN : MutateCache(w, [kind |-> "upsert", arg |-> "new"], stale)
  \/ MutateCache(w, [kind |-> "alias", arg |-> "old"], FALSE)
  \/ MutateCache(w, [kind |-> "evict", arg |-> 0], FALSE)

Steps(w) ==
  Save(w) \/ Commit(w) \/ TakeKey(w) \/ SaveFails(w) \/ Write(w) \/ Publish(w)
    \/ SaveCache(w) \/ WriteCache(w)

Next == (\E w \in Writers : Calls(w) \/ Steps(w)) \/ Restart \/ KeyLost \/ Damage

Spec == Init /\ [][Next]_vars

-----------------------------------------------------------------------------
(* Properties                                                                *)

\* Types.
TypeOK ==
  /\ memory \in Settings /\ cache \in Rows
  /\ disk \in File \cup {None, Damaged} /\ cacheDisk \in Rows \cup {Damaged, "absent"}
  /\ keyFile \in KeyFile
  /\ {saveLock, cacheLock, mutex, gate} \subseteq Writers \cup {None}
  /\ ghost \in Ghosts

Quiet == \A w \in Writers : job[w] = Idle

\* Once no writer is under way, both files hold what memory holds: no update
\* of any group is overwritten by the older clone of another save
\* (CONFIG_SAVE_LOCK, CACHE_SAVE_LOCK, config.rs 1659-1666).  The exception is
\* a memory-first change whose own save failed, until the next save succeeds.
Settled ==
  Quiet => /\ ~ghost.dirty => SameFirm(memory, disk) /\ SameSoft(memory, disk)
           /\ ~ghost.cacheDirty => cacheDisk = cache \/ (cacheDisk = "absent" /\ cache = None)

\* The persist-first groups never disagree: at every moment when nobody holds
\* the save lock, the stream, re-stream, passphrase, selector and migration
\* fields in memory are the ones in the file, failed saves included.
FirmAgrees ==
  (saveLock = None /\ disk \notin {None, Damaged} /\ ~ghost.unread) => SameFirm(memory, disk)

\* The stored passphrase changes only by a re-stream commit that carries a new
\* one, and stays decryptable with the key file unless that was taken away:
\* neither an unreadable key, a key of another user, a crash between the key
\* and the settings file nor an unrelated save costs the user the secret.
SecretKept ==
  [][(disk \in File /\ disk' \in File /\ ~ghost.unread) =>
       /\ Text(disk.pass) # Text(disk'.pass) =>
            \E w \in Writers : /\ job[w] # Idle /\ job[w].op.kind = "restream"
                               /\ Text(disk'.pass) = PassText(job[w].op.arg.pass)
       /\ (disk'.pass # None /\ ~ghost'.keyLost) => disk'.pass.key = keyFile']_vars

\* Settings a launch would reject are never in memory or in the file: the
\* UDP-input and the SRT-listener port are checked against each other under
\* the save lock, although different requests change them.
PortsApart == memory.udp # memory.srt /\ (disk \in File => disk.udp # disk.srt)

\* Memory and the two files stay one truth that a launch accepts: nothing is
\* lost between concurrent saves, the persist-first groups never diverge and
\* no save combines two halves that exclude each other.
SettingsTrue == Settled /\ FirmAgrees /\ PortsApart
=============================================================================
