------------------------- MODULE ConfigStoreProofs -------------------------
(***************************************************************************)
(* Proofs about the settings and the device cache.  The argument follows   *)
(* the save lock: only its holder changes a persist-first field, so the    *)
(* clone it carries agrees with memory on those fields until it publishes; *)
(* a memory-first field the clone may miss has another save still to come. *)
(***************************************************************************)
EXTENDS ConfigStore, FiniteSetTheorems, TLAPS

PersistFirst == {"stream", "migrate", "bind", "unpin"}

\* What a request may carry.
Section == [srt : Ports, pass : Passphrase]
Carries(op) ==
  \/ op.kind = "creds" /\ op.arg \in {None} \cup Secrets
  \/ op.kind = "mute" /\ op.arg \in BOOLEAN
  \/ op.kind \in {"pin", "unpin"} /\ op.arg \in {Unbound} \cup Macs
  \/ op.kind = "stream" /\ op.arg \in (Ports \cup {0}) \X BOOLEAN
  \/ op.kind = "bind" /\ op.arg \in Macs
  \/ op.kind = "restream" /\ op.arg \in Section
  \/ op.kind = "protocol" /\ op.arg \in {"rtsp", "srt"}
  \/ op.kind \in {"upsert", "alias"} /\ op.arg \in {"old", "new"}
  \/ op.kind \in {"clear", "migrate", "evict"}

\* A request under way: its place, what it saves and the key it saves with.
IsRequest(j) == j \in [at : {j.at}, op : {j.op}, next : {j.next}, key : {j.key}]

\* The places a request of each kind goes through.
Route(kind) ==
  IF kind \in MemoryFirst THEN {"save", "key", "written"}
  ELSE IF kind \in PersistFirst THEN {"key", "written", "stored"}
  ELSE IF kind \in Commits THEN {"lock", "key", "written", "stored"}
  ELSE {"cache", "cached"}

\* A request is well formed and in one of its places; only a save that has
\* taken its key carries one.
Jobs ==
  /\ used \in [writes : 0 .. MaxWrites, faults : 0 .. MaxFaults]
  /\ job = [w \in Writers |-> job[w]]
  /\ \A w \in Writers : job[w] # Idle =>
       /\ used.writes > 0
       /\ IsRequest(job[w]) /\ Carries(job[w].op)
       /\ job[w].at \in Route(job[w].op.kind)
       /\ job[w].at \notin {"written", "stored"} => job[w].key = None
       /\ job[w].at \in {"written", "stored"} => job[w].key \in Keys
       /\ job[w].at = "cached" => job[w].next \in Rows

\* The writer in save_to_disk.
Saving(w) == job[w].at \in {"key", "written", "stored"}

\* Each lock is held exactly from the step that takes it.
Locks ==
  \A w \in Writers :
    /\ saveLock = w <=> Saving(w)
    /\ mutex = w <=> Saving(w) /\ job[w].op.kind \in PersistFirst
    /\ cacheLock = w <=> job[w].at = "cached"

\* The persist-first groups, and the others.
SameFirmGroups(s, r) ==
  /\ s.udp = r.udp /\ s.srt = r.srt /\ s.pass = r.pass
  /\ s.protocol = r.protocol /\ s.migrated = r.migrated
SameSoftGroups(s, r) == s.creds = r.creds /\ s.muted = r.muted /\ s.pin = r.pin

\* A memory-first change has its own save still to come.
SaveToCome == \E v \in Writers : job[v].at = "save"

\* What the clone in a save has in common with memory: everything memory will
\* hold of the persist-first groups, and of the others all but what a save
\* still to come will write.  Once stored it is what the file holds.
Candidate(w) ==
  LET op == job[w].op
      next == job[w].next
  IN /\ next \in Settings /\ Accepts(next)
     /\ op.kind \in MemoryFirst => SameFirmGroups(next, memory)
     /\ op.kind \in PersistFirst => next.pass = memory.pass
     /\ op.kind \in Commits => SameFirmGroups(next, Published(op, memory))
     /\ op.kind \notin PersistFirst => SameSoftGroups(next, memory) \/ SaveToCome
     /\ job[w].at = "stored" /\ disk \in File =>
          SameFirm(next, disk) /\ SameSoft(next, disk)

Candidates == \A w \in Writers : Saving(w) => Candidate(w)

\* A save has replaced the file and not yet published to memory.
Unpublished == \E w \in Writers : job[w].at = "stored"

\* A memory-first save holds the lock.
SoftSaving ==
  \E w \in Writers : Saving(w) /\ job[w].op.kind \in MemoryFirst

\* Memory and the settings file between the saves.
FileAgrees ==
  /\ ~ghost.dirty => disk \in File
  /\ ghost.unread => ghost.dirty
  /\ disk \in File /\ ~ghost.unread /\ ~Unpublished => SameFirm(memory, disk)
  /\ ~ghost.dirty /\ ~Unpublished /\ ~SoftSaving /\ ~SaveToCome =>
       SameSoft(memory, disk)

\* The cache and its file: a clone misses only what a later save will write.
CacheToCome == \E v \in Writers : job[v].at = "cache"
CacheAgrees ==
  /\ \A w \in Writers : job[w].at = "cached" => job[w].next = cache \/ CacheToCome
  /\ ~ghost.cacheDirty /\ ~CacheToCome /\ cacheLock = None =>
       cacheDisk = cache \/ (cacheDisk = "absent" /\ cache = None)

\* A ciphertext that is only carried, and not made, is under the current key.
CarriedKey(pass) == pass.state = "unavailable" => pass.cipher.key = keyFile

\* While the key file was not taken away, what is stored, what a save will
\* store and what it stores it with are under that key.
KeyAgrees ==
  ~ghost.keyLost =>
    /\ disk \in File /\ disk.pass # None => disk.pass.key = keyFile
    /\ CarriedKey(memory.pass)
    /\ \A w \in Writers :
         /\ job[w].at = "written" => job[w].key = keyFile
         /\ Saving(w) => CarriedKey(job[w].next.pass)
         /\ job[w] # Idle /\ job[w].op.kind = "restream" =>
              CarriedKey(job[w].op.arg.pass)

ConfigInv ==
  /\ TypeOK /\ Jobs /\ Locks /\ Candidates /\ FileAgrees /\ CacheAgrees
  /\ KeyAgrees /\ PortsApart

-----------------------------------------------------------------------------
(***************************************************************************)
(* Values: what saving and loading do to a secret and to the settings      *)
(***************************************************************************)

CipherRec == [text : Secrets, key : Keys]

LEMMA Apart ==
  /\ None \notin Writers /\ None \notin Keys /\ Foreign \notin Keys
  /\ None \notin Settings /\ None \notin CipherRec
  /\ None \notin File /\ Damaged \notin File
  <1>1. Keys \subseteq Nat
    BY ConstantsAssumption DEF Keys
  <1> QED  BY <1>1, ConstantsAssumption DEF CipherRec

LEMMA PassCases ==
  ASSUME NEW p \in Passphrase
  PROVE  \/ p = Unencrypted
         \/ \E t \in Secrets : p = Available(t)
         \/ \E c \in CipherRec : p = Unavailable(c)
  BY DEF Passphrase, Stored, CipherRec

\* A secret is stored with the text it has in memory, in a storable form.
LEMMA StoredPassText ==
  ASSUME NEW p \in Passphrase, NEW k \in Keys
  PROVE  /\ Text(StoredPass(p, k)) = PassText(p)
         /\ StoredPass(p, k) \in Stored
         /\ StoredPass(p, k) # None =>
              \/ StoredPass(p, k).key = k
              \/ p.state = "unavailable" /\ StoredPass(p, k) = p.cipher
  <1>1. CASE p = Unencrypted
    <2>1. p.state = "unencrypted"
      BY <1>1 DEF Unencrypted
    <2>2. StoredPass(p, k) = None /\ PassText(p) = None
      BY <2>1 DEF StoredPass, PassText
    <2> QED  BY <2>2 DEF Text, Stored
  <1>2. CASE \E t \in Secrets : p = Available(t)
    <2>1. PICK t \in Secrets : p = Available(t)
      BY <1>2
    <2>2. p.state = "available" /\ p.text = t
      BY <2>1 DEF Available
    <2>3. StoredPass(p, k) = Cipher(t, k) /\ PassText(p) = t
      BY <2>2 DEF StoredPass, PassText
    <2>4. Cipher(t, k).text = t /\ Cipher(t, k).key = k
      BY DEF Cipher
    <2>5. Cipher(t, k) \in CipherRec
      BY DEF Cipher, CipherRec
    <2> QED  BY <2>3, <2>4, <2>5, Apart DEF Stored, CipherRec, Text
  <1>3. CASE \E c \in CipherRec : p = Unavailable(c)
    <2>1. PICK c \in CipherRec : p = Unavailable(c)
      BY <1>3
    <2>2. p.state = "unavailable" /\ p.cipher = c
      BY <2>1 DEF Unavailable
    <2>3. StoredPass(p, k) = c /\ PassText(p) = c.text
      BY <2>2 DEF StoredPass, PassText
    <2>4. c # None
      BY Apart
    <2> QED  BY <2>2, <2>3, <2>4 DEF Text, Stored, CipherRec
  <1> QED  BY <1>1, <1>2, <1>3, PassCases

\* The file a save writes holds what it was given.
LEMMA SavedFile ==
  ASSUME NEW s \in Settings, NEW k \in Keys
  PROVE  /\ Persisted(s, k) \in File
         /\ SameFirm(s, Persisted(s, k)) /\ SameSoft(s, Persisted(s, k))
         /\ Persisted(s, k).udp = s.udp /\ Persisted(s, k).srt = s.srt
         /\ Persisted(s, k).pass = StoredPass(s.pass, k)
  <1> DEFINE pass == StoredPass(s.pass, k)
             creds == IF s.creds = None THEN None ELSE Cipher(s.creds, k)
             f == [udp |-> s.udp, srt |-> s.srt, pass |-> pass,
                   protocol |-> s.protocol, migrated |-> s.migrated,
                   creds |-> creds, muted |-> s.muted, pin |-> s.pin,
                   legacy |-> FALSE]
  <1>1. /\ s.udp \in Ports \cup {0} /\ s.srt \in Ports /\ s.pass \in Passphrase
        /\ s.protocol \in {"rtsp", "srt"} /\ s.migrated \in BOOLEAN
        /\ s.creds \in {None} \cup Secrets /\ s.muted \in BOOLEAN /\ s.pin \in Pin
    BY DEF Settings
  <1>2. pass \in Stored /\ Text(pass) = PassText(s.pass)
    BY <1>1, StoredPassText
  <1>3. creds \in Stored /\ Text(creds) = s.creds
    <2>1. CASE s.creds = None
      BY <2>1 DEF Stored, Text
    <2>2. CASE s.creds # None
      <3>1. Cipher(s.creds, k) \in CipherRec /\ Cipher(s.creds, k).text = s.creds
        BY <1>1, <2>2 DEF Cipher, CipherRec
      <3> QED  BY <2>2, <3>1, Apart DEF Stored, Text, CipherRec
    <2> QED  BY <2>1, <2>2
  <1>4. f = Persisted(s, k)
    BY DEF Persisted
  <1> HIDE DEF pass, creds
  <1>5. f \in File
    BY <1>1, <1>2, <1>3, Zenon DEF File
  <1>6. /\ f.udp = s.udp /\ f.srt = s.srt /\ f.pass = pass
        /\ f.protocol = s.protocol /\ f.migrated = s.migrated
        /\ f.creds = creds /\ f.muted = s.muted /\ f.pin = s.pin
    OBVIOUS
  <1> HIDE DEF f
  <1>7. SameFirm(s, f) /\ SameSoft(s, f)
    BY <1>2, <1>3, <1>6 DEF SameFirm, SameSoft
  <1> QED  BY <1>4, <1>5, <1>6, <1>7 DEF pass

\* Loading with any key, none included, keeps the text of the passphrase and
\* carries a ciphertext it cannot read.
LEMMA LoadedPassText ==
  ASSUME NEW c \in Stored, NEW key
  PROVE  /\ LoadedPass(c, key) \in Passphrase
         /\ PassText(LoadedPass(c, key)) = Text(c)
         /\ LoadedPass(c, key).state = "unavailable" =>
              c # None /\ LoadedPass(c, key).cipher = c
  <1> DEFINE p == LoadedPass(c, key)
  <1>1. CASE c = None
    <2>1. p = Unencrypted
      BY <1>1 DEF LoadedPass
    <2>2. p.state = "unencrypted" /\ p \in Passphrase
      BY <2>1 DEF Unencrypted, Passphrase
    <2> HIDE DEF p
    <2>3. PassText(p) = None
      BY <2>2 DEF PassText
    <2> QED  BY <1>1, <2>2, <2>3 DEF Text, p
  <1>2. CASE c # None /\ c.key = key
    <2>1. p = Available(c.text) /\ c.text \in Secrets
      BY <1>2 DEF LoadedPass, Stored
    <2>2. p.state = "available" /\ p.text = c.text /\ p \in Passphrase
      BY <2>1 DEF Available, Passphrase
    <2> HIDE DEF p
    <2>3. PassText(p) = c.text
      BY <2>2 DEF PassText
    <2> QED  BY <1>2, <2>2, <2>3 DEF Text, p
  <1>3. CASE c # None /\ c.key # key
    <2>1. p = Unavailable(c)
      BY <1>3 DEF LoadedPass
    <2>2. p.state = "unavailable" /\ p.cipher = c /\ p \in Passphrase
      BY <1>3, <2>1 DEF Unavailable, Passphrase
    <2> HIDE DEF p
    <2>3. PassText(p) = c.text
      BY <2>2 DEF PassText
    <2> QED  BY <1>3, <2>2, <2>3 DEF Text, p
  <1> QED  BY <1>1, <1>2, <1>3

LEMMA LoadedSettings ==
  ASSUME NEW f \in File, NEW key
  PROVE  /\ Loaded(f, key) \in Settings
         /\ SameFirm(Loaded(f, key), f)
         /\ Loaded(f, key).udp = f.udp /\ Loaded(f, key).srt = f.srt
         /\ Loaded(f, key).pass.state = "unavailable" =>
              f.pass # None /\ Loaded(f, key).pass.cipher = f.pass
  <1> DEFINE pass == LoadedPass(f.pass, key)
             creds == LoadedCreds(f.creds, key)
             s == [udp |-> f.udp, srt |-> f.srt, pass |-> pass,
                   protocol |-> f.protocol, migrated |-> f.migrated,
                   creds |-> creds, muted |-> f.muted, pin |-> f.pin]
  <1>1. /\ f.udp \in Ports \cup {0} /\ f.srt \in Ports /\ f.pass \in Stored
        /\ f.protocol \in {"rtsp", "srt"} /\ f.migrated \in BOOLEAN
        /\ f.creds \in Stored /\ f.muted \in BOOLEAN /\ f.pin \in Pin
    BY DEF File
  <1>2. /\ pass \in Passphrase /\ PassText(pass) = Text(f.pass)
        /\ pass.state = "unavailable" => f.pass # None /\ pass.cipher = f.pass
    BY <1>1, LoadedPassText
  <1>3. creds \in {None} \cup Secrets
    BY <1>1 DEF LoadedCreds, Stored
  <1>4. s = Loaded(f, key)
    BY DEF Loaded
  <1> HIDE DEF pass, creds
  <1>5. s \in Settings
    BY <1>1, <1>2, <1>3, Zenon DEF Settings
  <1>6. /\ s.udp = f.udp /\ s.srt = f.srt /\ s.pass = pass
        /\ s.protocol = f.protocol /\ s.migrated = f.migrated
    OBVIOUS
  <1> HIDE DEF s
  <1>7. SameFirm(s, f)
    BY <1>2, <1>6 DEF SameFirm
  <1> QED  BY <1>2, <1>4, <1>5, <1>6, <1>7

LEMMA DefaultsType ==
  /\ Defaults \in Settings /\ Defaults.udp # Defaults.srt
  /\ Defaults.pass.state = "unencrypted"
  <1> DEFINE port == CHOOSE p \in Ports : TRUE
  <1>1. Ports # {}
    BY ConstantsAssumption, FS_EmptySet
  <1>2. port \in Ports
    BY <1>1
  <1> DEFINE d == [udp |-> 0, srt |-> port, pass |-> Unencrypted,
                   protocol |-> "rtsp", migrated |-> TRUE, creds |-> None,
                   muted |-> FALSE, pin |-> None]
  <1>3. d = Defaults
    BY DEF Defaults
  <1> HIDE DEF port
  <1>4. Unencrypted \in Passphrase /\ None \in Pin
    BY DEF Passphrase, Pin
  <1>5. d \in Settings
    BY <1>2, <1>4, Zenon DEF Settings
  <1>6. d.udp = 0 /\ d.srt = port /\ d.pass = Unencrypted
    OBVIOUS
  <1> HIDE DEF d
  <1> QED  BY <1>2, <1>3, <1>5, <1>6, ConstantsAssumption DEF Unencrypted

-----------------------------------------------------------------------------
(***************************************************************************)
(* What each kind of request may change                                    *)
(***************************************************************************)

\* A memory-first change leaves the persist-first groups alone.
LEMMA SoftChange ==
  ASSUME NEW s \in Settings, NEW op, Carries(op), op.kind \in MemoryFirst,
         Changed(op, s) # None
  PROVE  Changed(op, s) \in Settings /\ SameFirmGroups(Changed(op, s), s)
  <1> USE DEF SameFirmGroups
  <1>1. CASE op.kind = "creds"
    <2> DEFINE n == [s EXCEPT !.creds = op.arg]
    <2>1. op.arg \in {None} \cup Secrets
      BY <1>1 DEF Carries
    <2>2. n \in Settings
      BY <2>1, Zenon DEF Settings
    <2>3. SameFirmGroups(n, s)
      BY DEF Settings
    <2>4. n = Changed(op, s)
      BY <1>1 DEF Changed, SetCredentials
    <2> QED  BY <2>2, <2>3, <2>4, Zenon
  <1>2. CASE op.kind = "mute"
    <2> DEFINE n == [s EXCEPT !.muted = op.arg]
    <2>1. op.arg \in BOOLEAN
      BY <1>2 DEF Carries
    <2>2. n \in Settings
      BY <2>1, Zenon DEF Settings
    <2>3. SameFirmGroups(n, s)
      BY DEF Settings
    <2>4. n = Changed(op, s)
      BY <1>2 DEF Changed, SetMuted
    <2> QED  BY <2>2, <2>3, <2>4, Zenon
  <1>3. CASE op.kind \in {"clear", "pin"}
    <2>1. PICK q \in Pin : Changed(op, s) = [s EXCEPT !.pin = q]
      <3>1. CASE op.kind = "clear"
        BY <3>1 DEF Changed, ClearPins, Pin
      <3>2. CASE op.kind = "pin"
        <4>1. op.arg \in {Unbound} \cup Macs /\ Changed(op, s) = AddPin(s, op.arg)
          BY <3>2 DEF Carries, Changed
        <4>2. Changed(op, s) = [s EXCEPT !.pin = IF s.pin \in Macs THEN s.pin
                                                 ELSE op.arg]
          BY <4>1 DEF AddPin
        <4> QED  BY <4>1, <4>2 DEF Pin
      <3> QED  BY <1>3, <3>1, <3>2
    <2>2. [s EXCEPT !.pin = q] \in Settings
      BY Zenon DEF Settings
    <2>3. SameFirmGroups([s EXCEPT !.pin = q], s)
      BY DEF Settings
    <2> QED  BY <2>1, <2>2, <2>3, Zenon
  <1> QED  BY <1>1, <1>2, <1>3 DEF MemoryFirst

\* A persist-first change is acceptable and leaves the passphrase alone.
LEMMA FirmChange ==
  ASSUME NEW s \in Settings, Accepts(s), NEW op, Carries(op),
         op.kind \in PersistFirst, Changed(op, s) # None
  PROVE  /\ Changed(op, s) \in Settings /\ Accepts(Changed(op, s))
         /\ Changed(op, s).pass = s.pass
  <1>1. CASE op.kind = "stream"
    <2> DEFINE a == op.arg[1]
               b == op.arg[2]
               n == [s EXCEPT !.udp = a, !.muted = b]
    <2>1. a \in Ports \cup {0} /\ b \in BOOLEAN
      BY <1>1 DEF Carries
    <2>2. Changed(op, s) = IF Accepts(n) THEN n ELSE None
      BY <1>1 DEF Changed, UpdateStream
    <2> HIDE DEF a, b
    <2>3. n \in Settings
      BY <2>1, Zenon DEF Settings
    <2>4. n.pass = s.pass
      BY DEF Settings
    <2> HIDE DEF n
    <2> QED  BY <2>2, <2>3, <2>4
  <1>2. CASE op.kind = "migrate"
    <2> DEFINE n == [s EXCEPT !.migrated = TRUE]
    <2>1. n = Changed(op, s)
      BY <1>2 DEF Changed, MigrateBindIds
    <2>2. n \in Settings
      BY Zenon DEF Settings
    <2>3. n.udp = s.udp /\ n.srt = s.srt /\ n.pass = s.pass
      BY DEF Settings
    <2> HIDE DEF n
    <2> QED  BY <2>1, <2>2, <2>3 DEF Accepts
  <1>3. CASE op.kind \in {"bind", "unpin"}
    <2>1. PICK q \in Pin : Changed(op, s) = [s EXCEPT !.pin = q]
      <3>1. CASE op.kind = "bind"
        <4>1. op.arg \in Macs /\ Changed(op, s) = BindPin(s, op.arg)
          BY <3>1 DEF Carries, Changed
        <4> QED  BY <4>1 DEF BindPin, Pin
      <3>2. CASE op.kind = "unpin"
        <4>1. Changed(op, s) = RemovePin(s, op.arg)
          BY <3>2 DEF Changed
        <4> QED  BY <4>1 DEF RemovePin, Pin
      <3> QED  BY <1>3, <3>1, <3>2
    <2> DEFINE n == [s EXCEPT !.pin = q]
    <2>2. n \in Settings
      BY Zenon DEF Settings
    <2>3. n.udp = s.udp /\ n.srt = s.srt /\ n.pass = s.pass
      BY DEF Settings
    <2>4. n = Changed(op, s)
      BY <2>1
    <2> HIDE DEF n
    <2> QED  BY <2>2, <2>3, <2>4 DEF Accepts
  <1> QED  BY <1>1, <1>2, <1>3 DEF PersistFirst

\* A commit publishes the section it stored, and no other group.
LEMMA CommitChange ==
  ASSUME NEW s \in Settings, Accepts(s), NEW op, Carries(op),
         op.kind \in Commits, Changed(op, s) # None
  PROVE  /\ Changed(op, s) \in Settings /\ Accepts(Changed(op, s))
         /\ Changed(op, s) = Published(op, s)
  <1>1. CASE op.kind = "restream"
    <2> DEFINE n == [s EXCEPT !.srt = op.arg.srt, !.pass = op.arg.pass]
    <2>1. op.arg.srt \in Ports /\ op.arg.pass \in Passphrase
      BY <1>1 DEF Carries, Section
    <2>2. Changed(op, s) = IF Accepts(n) THEN n ELSE None
      BY <1>1 DEF Changed, Restreamed
    <2>3. Published(op, s) = n
      BY <1>1 DEF Published
    <2>4. n \in Settings
      BY <2>1, Zenon DEF Settings
    <2> HIDE DEF n
    <2> QED  BY <2>2, <2>3, <2>4
  <1>2. CASE op.kind = "protocol"
    <2> DEFINE n == [s EXCEPT !.protocol = op.arg]
    <2>1. op.arg \in {"rtsp", "srt"}
      BY <1>2 DEF Carries
    <2>2. n = Changed(op, s)
      BY <1>2 DEF Changed, Switched
    <2>3. n = Published(op, s)
      BY <1>2 DEF Published
    <2>4. n \in Settings
      BY <2>1, Zenon DEF Settings
    <2>5. n.udp = s.udp /\ n.srt = s.srt
      BY DEF Settings
    <2> HIDE DEF n
    <2> QED  BY <2>2, <2>3, <2>4, <2>5 DEF Accepts
  <1> QED  BY <1>1, <1>2 DEF Commits

\* What publishing a section sets, and what it leaves as it found it.
LEMMA PublishedGroups ==
  ASSUME NEW s \in Settings, NEW op, Carries(op), op.kind \in Commits
  PROVE  /\ Published(op, s) \in Settings
         /\ SameSoftGroups(Published(op, s), s)
         /\ Published(op, s).udp = s.udp /\ Published(op, s).migrated = s.migrated
         /\ op.kind = "restream" => /\ Published(op, s).srt = op.arg.srt
                                    /\ Published(op, s).pass = op.arg.pass
                                    /\ Published(op, s).protocol = s.protocol
         /\ op.kind # "restream" => /\ Published(op, s).srt = s.srt
                                    /\ Published(op, s).pass = s.pass
                                    /\ Published(op, s).protocol = op.arg
  <1>1. CASE op.kind = "restream"
    <2> DEFINE n == [s EXCEPT !.srt = op.arg.srt, !.pass = op.arg.pass]
    <2>1. op.arg.srt \in Ports /\ op.arg.pass \in Passphrase
      BY <1>1 DEF Carries, Section
    <2>2. n = Published(op, s)
      BY <1>1 DEF Published
    <2>3. n \in Settings
      BY <2>1, Zenon DEF Settings
    <2>4. /\ n.udp = s.udp /\ n.migrated = s.migrated /\ n.srt = op.arg.srt
          /\ n.pass = op.arg.pass /\ n.protocol = s.protocol
          /\ n.creds = s.creds /\ n.muted = s.muted /\ n.pin = s.pin
      BY DEF Settings
    <2> HIDE DEF n
    <2> QED  BY <1>1, <2>2, <2>3, <2>4 DEF SameSoftGroups
  <1>2. CASE op.kind = "protocol"
    <2> DEFINE n == [s EXCEPT !.protocol = op.arg]
    <2>1. op.arg \in {"rtsp", "srt"}
      BY <1>2 DEF Carries
    <2>2. n = Published(op, s)
      BY <1>2 DEF Published
    <2>3. n \in Settings
      BY <2>1, Zenon DEF Settings
    <2>4. /\ n.udp = s.udp /\ n.migrated = s.migrated /\ n.srt = s.srt
          /\ n.pass = s.pass /\ n.protocol = op.arg
          /\ n.creds = s.creds /\ n.muted = s.muted /\ n.pin = s.pin
      BY DEF Settings
    <2> HIDE DEF n
    <2> QED  BY <1>2, <2>2, <2>3, <2>4 DEF SameSoftGroups
  <1> QED  BY <1>1, <1>2 DEF Commits

-----------------------------------------------------------------------------
(***************************************************************************)
(* How a step changes the requests                                         *)
(***************************************************************************)

UsedRec == [writes : 0 .. MaxWrites, faults : 0 .. MaxFaults]
WellFormed(j) ==
  /\ IsRequest(j) /\ Carries(j.op) /\ j.at \in Route(j.op.kind)
  /\ j.at \notin {"written", "stored"} => j.key = None
  /\ j.at \in {"written", "stored"} => j.key \in Keys
  /\ j.at = "cached" => j.next \in Rows

\* A request that is not under way is in no place.
LEMMA IdlePlace == Idle.at = "idle"
  BY DEF Idle

LEMMA UnderWay ==
  ASSUME Jobs, NEW w \in Writers, job[w].at # "idle"
  PROVE  job[w] # Idle /\ WellFormed(job[w]) /\ used.writes > 0
  BY IdlePlace DEF Jobs, WellFormed

LEMMA JobMoves ==
  ASSUME Jobs, NEW w \in Writers, NEW j,
         job' = [job EXCEPT ![w] = j],
         j = Idle \/ (WellFormed(j) /\ used'.writes > 0),
         used' \in UsedRec, used'.writes >= used.writes
  PROVE  /\ Jobs' /\ job'[w] = j
         /\ \A v \in Writers : v # w => job'[v] = job[v]
  <1>1. job = [v \in Writers |-> job[v]]
    BY DEF Jobs
  <1>2. job'[w] = j /\ \A v \in Writers : v # w => job'[v] = job[v]
    BY <1>1, Zenon
  <1>3. job' = [v \in Writers |-> job'[v]]
    BY <1>1
  <1>4. used.writes \in Nat /\ used'.writes \in Nat
    BY ConstantsAssumption DEF Jobs, UsedRec
  <1>5. ASSUME NEW v \in Writers, job'[v] # Idle
        PROVE  used'.writes > 0 /\ WellFormed(job'[v])
    <2>1. CASE v = w
      BY <1>2, <1>5, <2>1
    <2>2. CASE v # w
      BY <1>2, <1>4, <1>5, <2>2 DEF Jobs, WellFormed
    <2> QED  BY <2>1, <2>2
  <1>6. Jobs'
    BY <1>3, <1>5 DEF Jobs, WellFormed, UsedRec
  <1> QED  BY <1>2, <1>6

\* A request by its fields.
LEMMA RequestFields ==
  ASSUME NEW r, NEW a, NEW o, NEW n, NEW k,
         r \in [at : {a}, op : {o}, next : {n}, key : {k}]
  PROVE  IsRequest(r) /\ r.at = a /\ r.op = o /\ r.next = n /\ r.key = k
  BY DEF IsRequest

LEMMA NewRequest ==
  ASSUME NEW o, NEW a, NEW j, j = Request(o, a)
  PROVE  /\ IsRequest(j)
         /\ j.at = a /\ j.op = o /\ j.next = None /\ j.key = None
  <1>1. j \in [at : {a}, op : {o}, next : {None}, key : {None}]
    BY Zenon DEF Request
  <1> QED  BY <1>1 DEF IsRequest

LEMMA Begins ==
  ASSUME Jobs, NEW w \in Writers, NEW j, Begin(w, j), j = Idle \/ WellFormed(j)
  PROVE  /\ Jobs' /\ job[w] = Idle /\ job'[w] = j
         /\ \A v \in Writers : v # w => job'[v] = job[v]
  <1>1. /\ job' = [job EXCEPT ![w] = j] /\ job[w] = Idle
        /\ used.writes < MaxWrites
        /\ used' = [used EXCEPT !.writes = @ + 1]
    BY DEF Begin
  <1>2. used \in UsedRec
    BY DEF Jobs, UsedRec
  <1>3. used' \in UsedRec /\ used'.writes > 0 /\ used'.writes >= used.writes
    BY <1>1, <1>2, ConstantsAssumption DEF UsedRec
  <1> QED  BY <1>1, <1>3, JobMoves

-----------------------------------------------------------------------------
(***************************************************************************)
(* Memory-first writers                                                    *)
(***************************************************************************)

\* A request that is refused, or changes nothing, leaves everything as it was.
LEMMA RefusedInv ==
  ASSUME ConfigInv, NEW w \in Writers, Begin(w, Idle),
         UNCHANGED <<memory, cache, disk, cacheDisk, keyFile, saveLock, cacheLock,
                     mutex, gate, ghost>>
  PROVE  ConfigInv'
  <1> USE DEF ConfigInv
  <1>1. /\ Jobs' /\ job[w] = Idle /\ job'[w] = Idle
        /\ \A v \in Writers : v # w => job'[v] = job[v]
    BY Begins
  <1>2. \A v \in Writers : job'[v] = job[v]
    BY <1>1
  <1>3. TypeOK' /\ Locks' /\ PortsApart'
    BY <1>2 DEF TypeOK, Locks, Saving, PortsApart
  <1>4. Candidates'
    BY <1>2 DEF Candidates, Candidate, Saving, SaveToCome
  <1>5. FileAgrees' /\ CacheAgrees'
    BY <1>2 DEF FileAgrees, CacheAgrees, Unpublished, SoftSaving, SaveToCome,
       CacheToCome, Saving
  <1>6. KeyAgrees'
    BY <1>2 DEF KeyAgrees, CarriedKey, Saving
  <1> QED  BY <1>1, <1>3, <1>4, <1>5, <1>6

\* Publishing the same section into settings that agree on the persist-first
\* groups gives settings that agree on them.
LEMMA PublishedAgree ==
  ASSUME NEW s \in Settings, NEW r \in Settings, SameFirmGroups(s, r),
         NEW op, Carries(op), op.kind \in Commits
  PROVE  SameFirmGroups(Published(op, s), Published(op, r))
  <1> DEFINE a == Published(op, s)
             b == Published(op, r)
  <1>1. /\ a.udp = s.udp /\ a.migrated = s.migrated
        /\ op.kind = "restream" => /\ a.srt = op.arg.srt /\ a.pass = op.arg.pass
                                   /\ a.protocol = s.protocol
        /\ op.kind # "restream" => /\ a.srt = s.srt /\ a.pass = s.pass
                                   /\ a.protocol = op.arg
    BY PublishedGroups
  <1>2. /\ b.udp = r.udp /\ b.migrated = r.migrated
        /\ op.kind = "restream" => /\ b.srt = op.arg.srt /\ b.pass = op.arg.pass
                                   /\ b.protocol = r.protocol
        /\ op.kind # "restream" => /\ b.srt = r.srt /\ b.pass = r.pass
                                   /\ b.protocol = op.arg
    BY PublishedGroups
  <1> HIDE DEF a, b
  <1>3. SameFirmGroups(a, b)
    BY <1>1, <1>2 DEF SameFirmGroups
  <1> QED  BY <1>3 DEF a, b

LEMMA GroupsTransitive ==
  ASSUME NEW a, NEW b, NEW c, SameFirmGroups(a, b), SameFirmGroups(b, c)
  PROVE  SameFirmGroups(a, c)
  BY DEF SameFirmGroups

LEMMA GroupsSymmetric ==
  ASSUME NEW a, NEW b, SameFirmGroups(a, b)
  PROVE  SameFirmGroups(b, a)
  BY DEF SameFirmGroups

LEMMA MutateInv ==
  ASSUME ConfigInv, NEW w \in Writers, NEW op, Carries(op),
         op.kind \in MemoryFirst, Mutate(w, op)
  PROVE  ConfigInv'
  <1> USE DEF ConfigInv
  <1>1. CASE Changed(op, memory) = None
    BY <1>1, RefusedInv DEF Mutate
  <1>2. CASE Changed(op, memory) # None
    <2> DEFINE j == Request(op, "save")
    <2>1. /\ mutex = None /\ Begin(w, j) /\ memory' = Changed(op, memory)
          /\ UNCHANGED <<cache, disk, cacheDisk, keyFile, saveLock, cacheLock,
                         mutex, gate, ghost>>
      BY <1>2 DEF Mutate
    <2>2. IsRequest(j) /\ j.at = "save" /\ j.op = op /\ j.key = None
      <3>1. j = Request(op, "save")
        OBVIOUS
      <3> HIDE DEF j
      <3> QED  BY <3>1, NewRequest
    <2> HIDE DEF j
    <2>3. WellFormed(j)
      BY <2>2 DEF WellFormed, Route
    <2>4. /\ Jobs' /\ job[w] = Idle /\ job'[w] = j
          /\ \A v \in Writers : v # w => job'[v] = job[v]
      BY <2>1, <2>3, Begins
    <2>5. memory \in Settings
      BY DEF TypeOK
    <2>6. memory' \in Settings /\ SameFirmGroups(memory', memory)
      BY <1>2, <2>1, <2>5, SoftChange
    <2>7. job[w].at = "idle" /\ job'[w].at = "save" /\ SaveToCome'
      BY <2>2, <2>4, IdlePlace DEF SaveToCome
    <2>8. TypeOK'
      BY <2>1, <2>6 DEF TypeOK
    <2>9. PortsApart'
      BY <2>1, <2>6 DEF PortsApart, SameFirmGroups
    <2>10. Locks'
      BY <2>1, <2>4, <2>7 DEF Locks, Saving
    <2>11. Candidates'
      <3> SUFFICES ASSUME NEW v \in Writers, Saving(v)' PROVE Candidate(v)'
        BY DEF Candidates
      <3>1. v # w /\ job'[v] = job[v] /\ Saving(v)
        BY <2>4, <2>7 DEF Saving
      <3>2. Candidate(v) /\ Carries(job[v].op)
        BY <3>1, UnderWay DEF Candidates, Saving, WellFormed
      <3> DEFINE k == job[v].op.kind
                 n == job[v].next
      <3>3. k \in MemoryFirst => SameFirmGroups(n, memory')
        BY <3>2, <2>6 DEF Candidate, SameFirmGroups
      <3>4. k \in PersistFirst => n.pass = memory'.pass
        BY <3>2, <2>6 DEF Candidate, SameFirmGroups
      <3>5. k \in Commits => SameFirmGroups(n, Published(job[v].op, memory'))
        <4> SUFFICES ASSUME k \in Commits
                     PROVE  SameFirmGroups(n, Published(job[v].op, memory'))
          OBVIOUS
        <4>1. SameFirmGroups(n, Published(job[v].op, memory))
          BY <3>2 DEF Candidate
        <4>2. SameFirmGroups(Published(job[v].op, memory),
                             Published(job[v].op, memory'))
          BY <2>5, <2>6, <3>2, GroupsSymmetric, PublishedAgree
        <4> QED  BY <4>1, <4>2, GroupsTransitive
      <3> HIDE DEF k, n
      <3> QED  BY <2>1, <2>7, <3>1, <3>2, <3>3, <3>4, <3>5 DEF Candidate, k, n
    <2>12. FileAgrees'
      <3>1. Unpublished' <=> Unpublished
        BY <2>4, <2>7 DEF Unpublished
      <3>2. SameFirm(memory, disk) => SameFirm(memory', disk)
        BY <2>6 DEF SameFirm, SameFirmGroups
      <3> QED  BY <2>1, <2>7, <3>1, <3>2 DEF FileAgrees
    <2>13. CacheAgrees'
      BY <2>1, <2>4, <2>7 DEF CacheAgrees, CacheToCome
    <2>14. KeyAgrees'
      <3>1. j # Idle => j.op.kind # "restream"
        BY <2>2 DEF MemoryFirst
      <3> QED  BY <2>1, <2>4, <2>6, <2>7, <3>1
               DEF KeyAgrees, CarriedKey, Saving, SameFirmGroups
    <2> QED  BY <2>4, <2>8, <2>9, <2>10, <2>11, <2>12, <2>13, <2>14
  <1> QED  BY <1>1, <1>2

-----------------------------------------------------------------------------
(***************************************************************************)
(* Into save_to_disk                                                       *)
(***************************************************************************)

\* A writer takes the save lock with a clone of memory, changed by its own
\* request and by nothing else.
LEMMA EntersSave ==
  ASSUME ConfigInv, NEW w \in Writers, NEW o, NEW n,
         saveLock = None, mutex = None, saveLock' = w,
         job[w].at \in {"idle", "save", "lock"},
         job'[w].at = "key", job'[w].op = o, job'[w].next = n,
         \A v \in Writers : v # w => job'[v] = job[v],
         Jobs', Carries(o), n \in Settings, Accepts(n),
         o.kind \in MemoryFirst \cup PersistFirst \cup Commits,
         o.kind \in MemoryFirst => n = memory,
         o.kind \in PersistFirst => n.pass = memory.pass,
         o.kind \in Commits => n = Published(o, memory) /\ job[w].at = "lock",
         o.kind \notin MemoryFirst => job[w].at # "save",
         o.kind = "restream" => job[w] # Idle /\ job[w].op = o,
         mutex' = IF o.kind \in PersistFirst THEN w ELSE mutex,
         UNCHANGED <<memory, cache, disk, cacheDisk, keyFile, cacheLock, gate,
                     ghost>>
  PROVE  ConfigInv'
  <1> USE DEF ConfigInv
  <1>1. \A v \in Writers : ~Saving(v)
    BY Apart DEF Locks
  <1>2. \A v \in Writers : Saving(v)' <=> v = w
    BY <1>1 DEF Saving
  <1>3. memory \in Settings /\ w # None
    BY Apart DEF TypeOK
  <1>4. TypeOK' /\ PortsApart'
    BY DEF TypeOK, PortsApart
  <1>5. Locks'
    <2>1. ASSUME NEW v \in Writers
          PROVE  cacheLock' = v <=> job'[v].at = "cached"
      BY <2>1 DEF Locks
    <2>2. ASSUME NEW v \in Writers
          PROVE  mutex' = v <=> Saving(v)' /\ job'[v].op.kind \in PersistFirst
      <3>1. CASE v = w
        BY <1>2, <1>3, <3>1
      <3>2. CASE v # w
        BY <1>2, <3>2, Apart
      <3> QED  BY <3>1, <3>2
    <2> QED  BY <1>2, <2>1, <2>2 DEF Locks
  <1>6. Candidates'
    <2>1. o.kind \in Commits => SameSoftGroups(n, memory)
      BY <1>3, PublishedGroups
    <2>2. o.kind \in MemoryFirst => SameFirmGroups(n, memory) /\ SameSoftGroups(n, memory)
      BY DEF SameFirmGroups, SameSoftGroups
    <2>3. o.kind \in Commits => SameFirmGroups(n, Published(o, memory))
      BY DEF SameFirmGroups
    <2>4. Candidate(w)'
      BY <2>1, <2>2, <2>3 DEF Candidate
    <2> QED  BY <1>2, <2>4 DEF Candidates
  <1>7. FileAgrees'
    <2>1. ~Unpublished /\ ~Unpublished' /\ ~SoftSaving
      BY <1>1, <1>2 DEF Unpublished, SoftSaving, Saving
    <2>2. CASE o.kind \in MemoryFirst
      <3>1. SoftSaving'
        BY <1>2, <2>2 DEF SoftSaving
      <3> QED  BY <2>1, <3>1 DEF FileAgrees
    <2>3. CASE o.kind \notin MemoryFirst
      <3>1. SaveToCome => SaveToCome'
        BY <2>3 DEF SaveToCome
      <3> QED  BY <2>1, <3>1 DEF FileAgrees
    <2> QED  BY <2>2, <2>3
  <1>8. CacheAgrees'
    BY DEF CacheAgrees, CacheToCome
  <1>9. KeyAgrees'
    <2> SUFFICES ASSUME ~ghost.keyLost PROVE KeyAgrees'
      BY DEF KeyAgrees
    <2>1. CarriedKey(n.pass)
      <3>1. CASE o.kind \in MemoryFirst \cup PersistFirst
        BY <3>1 DEF KeyAgrees
      <3>2. CASE o.kind \in Commits
        <4>1. o.kind = "restream" => n.pass = o.arg.pass
          BY <1>3, <3>2, PublishedGroups
        <4>2. o.kind # "restream" => n.pass = memory.pass
          BY <1>3, <3>2, PublishedGroups
        <4> QED  BY <4>1, <4>2 DEF KeyAgrees
      <3> QED  BY <3>1, <3>2
    <2>2. ASSUME NEW v \in Writers
          PROVE  /\ job'[v].at = "written" => job'[v].key = keyFile
                 /\ Saving(v)' => CarriedKey(job'[v].next.pass)
                 /\ job'[v] # Idle /\ job'[v].op.kind = "restream" =>
                      CarriedKey(job'[v].op.arg.pass)
      <3>1. CASE v = w
        BY <2>1, <3>1 DEF KeyAgrees
      <3>2. CASE v # w
        BY <1>2, <3>2 DEF KeyAgrees
      <3> QED  BY <3>1, <3>2
    <2> QED  BY <2>2 DEF KeyAgrees, CarriedKey
  <1> QED  BY <1>4, <1>5, <1>6, <1>7, <1>8, <1>9

LEMMA SaveInv ==
  ASSUME ConfigInv, NEW w \in Writers, Save(w)
  PROVE  ConfigInv'
  <1> USE DEF ConfigInv
  <1> DEFINE j == [job[w] EXCEPT !.at = "key", !.next = memory]
  <1>1. /\ job[w].at = "save" /\ saveLock = None /\ mutex = None /\ saveLock' = w
        /\ job' = [job EXCEPT ![w].at = "key", ![w].next = memory]
        /\ UNCHANGED <<memory, cache, disk, cacheDisk, keyFile, cacheLock, mutex,
                       gate, used, ghost>>
    BY DEF Save, SaveLockFree
  <1>2. job' = [job EXCEPT ![w] = j]
    BY <1>1
  <1>3. WellFormed(job[w]) /\ used.writes > 0
    BY <1>1, UnderWay
  <1>4. /\ IsRequest(j) /\ j.at = "key" /\ j.op = job[w].op /\ j.next = memory
        /\ j.key = job[w].key
    <2>1. job[w] \in [at : {job[w].at}, op : {job[w].op}, next : {job[w].next},
                      key : {job[w].key}]
      BY <1>3 DEF WellFormed, IsRequest
    <2>2. j \in [at : {"key"}, op : {job[w].op}, next : {memory},
                 key : {job[w].key}]
      BY <2>1, Zenon
    <2> HIDE DEF j
    <2> QED  BY <2>2, RequestFields
  <1> HIDE DEF j
  <1>5. job[w].op.kind \in MemoryFirst /\ job[w].op.kind \notin PersistFirst \cup Commits
    BY <1>1, <1>3 DEF WellFormed, Route, MemoryFirst, PersistFirst, Commits
  <1>6. WellFormed(j) /\ Carries(j.op)
    BY <1>1, <1>3, <1>4, <1>5 DEF WellFormed, Route
  <1>7. /\ Jobs' /\ job'[w] = j
        /\ \A v \in Writers : v # w => job'[v] = job[v]
    <2>1. used' \in UsedRec /\ used'.writes >= used.writes /\ used'.writes > 0
      BY <1>1, <1>3, ConstantsAssumption DEF Jobs, UsedRec
    <2> QED  BY <1>2, <1>6, <2>1, JobMoves
  <1>8. memory \in Settings /\ Accepts(memory)
    BY DEF TypeOK, PortsApart, Accepts
  <1>9. j.op.kind # "restream"
    BY <1>4, <1>5 DEF Commits
  <1> QED  BY <1>1, <1>4, <1>5, <1>6, <1>7, <1>8, <1>9, EntersSave

LEMMA ChangeInv ==
  ASSUME ConfigInv, NEW w \in Writers, NEW op, NEW stale, Carries(op),
         op.kind \in PersistFirst, Change(w, op, stale)
  PROVE  ConfigInv'
  <1> USE DEF ConfigInv
  <1>1. CASE stale \/ Changed(op, memory) = None
    BY <1>1, RefusedInv DEF Change
  <1>2. CASE ~(stale \/ Changed(op, memory) = None)
    <2> DEFINE n == Changed(op, memory)
               j == [Request(op, "key") EXCEPT !.next = n]
    <2>1. /\ saveLock = None /\ mutex = None /\ Begin(w, j)
          /\ saveLock' = w /\ mutex' = w /\ n # None
          /\ UNCHANGED <<memory, cache, disk, cacheDisk, keyFile, cacheLock, gate,
                         ghost>>
      BY <1>2 DEF Change, SaveLockFree
    <2>2. memory \in Settings /\ Accepts(memory)
      BY DEF TypeOK, PortsApart, Accepts
    <2>3. n \in Settings /\ Accepts(n) /\ n.pass = memory.pass
      BY <2>1, <2>2, FirmChange
    <2> HIDE DEF n
    <2>4. IsRequest(j) /\ j.at = "key" /\ j.op = op /\ j.next = n /\ j.key = None
      <3>1. j \in [at : {"key"}, op : {op}, next : {n}, key : {None}]
        BY Zenon DEF Request
      <3> HIDE DEF j
      <3> QED  BY <3>1, RequestFields
    <2> HIDE DEF j
    <2>5. op.kind \notin MemoryFirst \cup Commits
      BY DEF MemoryFirst, PersistFirst, Commits
    <2>6. WellFormed(j)
      BY <2>4, <2>5 DEF WellFormed, Route
    <2>7. /\ Jobs' /\ job[w] = Idle /\ job'[w] = j
          /\ \A v \in Writers : v # w => job'[v] = job[v]
      BY <2>1, <2>6, Begins
    <2>8. job[w].at = "idle" /\ op.kind # "restream"
      BY <2>5, <2>7, IdlePlace DEF Commits
    <2> QED  BY <2>1, <2>3, <2>4, <2>5, <2>7, <2>8, EntersSave
  <1> QED  BY <1>1, <1>2

\* A commit waits for the save lock, or gives up before it has it.
LEMMA PlainMove ==
  ASSUME ConfigInv, NEW w \in Writers, Jobs',
         job[w].at \in {"idle", "lock"}, job'[w].at \in {"idle", "lock"},
         \A v \in Writers : v # w => job'[v] = job[v],
         ~ghost.keyLost /\ job'[w] # Idle /\ job'[w].op.kind = "restream" =>
           CarriedKey(job'[w].op.arg.pass),
         gate' \in Writers \cup {None},
         UNCHANGED <<memory, cache, disk, cacheDisk, keyFile, saveLock, cacheLock,
                     mutex, ghost>>
  PROVE  ConfigInv'
  <1> USE DEF ConfigInv
  <1>1. ~Saving(w) /\ ~Saving(w)'
    BY DEF Saving
  <1>2. /\ \A v \in Writers : v # w => (Saving(v)' <=> Saving(v))
        /\ SaveToCome' <=> SaveToCome
        /\ Unpublished' <=> Unpublished
        /\ SoftSaving' <=> SoftSaving
        /\ CacheToCome' <=> CacheToCome
    BY <1>1 DEF Saving, SaveToCome, Unpublished, SoftSaving, CacheToCome
  <1>3. TypeOK' /\ PortsApart'
    BY DEF TypeOK, PortsApart
  <1>4. Locks'
    <2>1. ASSUME NEW v \in Writers
          PROVE  /\ saveLock' = v <=> Saving(v)'
                 /\ mutex' = v <=> Saving(v)' /\ job'[v].op.kind \in PersistFirst
                 /\ cacheLock' = v <=> job'[v].at = "cached"
      <3>1. CASE v = w
        BY <1>1, <3>1 DEF Locks
      <3>2. CASE v # w
        BY <1>2, <3>2 DEF Locks
      <3> QED  BY <3>1, <3>2
    <2> QED  BY <2>1 DEF Locks
  <1>5. Candidates'
    <2> SUFFICES ASSUME NEW v \in Writers, Saving(v)' PROVE Candidate(v)'
      BY DEF Candidates
    <2>1. Candidate(v) /\ job'[v] = job[v]
      BY <1>1, <1>2 DEF Candidates
    <2> QED  BY <1>2, <2>1 DEF Candidate
  <1>6. FileAgrees'
    BY <1>2 DEF FileAgrees
  <1>7. CacheAgrees'
    BY <1>2 DEF CacheAgrees
  <1>8. KeyAgrees'
    <2> SUFFICES ASSUME ~ghost.keyLost PROVE KeyAgrees'
      BY DEF KeyAgrees
    <2>1. ASSUME NEW v \in Writers
          PROVE  /\ job'[v].at = "written" => job'[v].key = keyFile
                 /\ Saving(v)' => CarriedKey(job'[v].next.pass)
                 /\ job'[v] # Idle /\ job'[v].op.kind = "restream" =>
                      CarriedKey(job'[v].op.arg.pass)
      <3>1. CASE v = w
        BY <1>1, <3>1
      <3>2. CASE v # w
        BY <1>2, <3>2 DEF KeyAgrees
      <3> QED  BY <3>1, <3>2
    <2> QED  BY <2>1 DEF KeyAgrees, CarriedKey
  <1> QED  BY <1>3, <1>4, <1>5, <1>6, <1>7, <1>8

LEMMA RebaseInv ==
  ASSUME ConfigInv, NEW w \in Writers, NEW kind \in Commits, Rebase(w, kind)
  PROVE  ConfigInv'
  <1> USE DEF ConfigInv
  <1>1. PICK arg \in (IF kind = "protocol" THEN {"rtsp", "srt"}
                      ELSE [srt : Ports, pass : {memory.pass, Unencrypted}
                                           \cup {Available(t) : t \in Secrets}]) :
          Begin(w, Request([kind |-> kind, arg |-> arg], "lock"))
    BY DEF Rebase
  <1> DEFINE op == [kind |-> kind, arg |-> arg]
             j == Request(op, "lock")
  <1>2. op.kind = kind /\ op.arg = arg
    OBVIOUS
  <1>3. IsRequest(j) /\ j.at = "lock" /\ j.op = op /\ j.key = None
    <2>1. j = Request(op, "lock")
      OBVIOUS
    <2> HIDE DEF j, op
    <2> QED  BY <2>1, NewRequest
  <1>4. Begin(w, j)
    BY <1>1
  <1> HIDE DEF op, j
  <1>5. memory.pass \in Passphrase
    BY DEF TypeOK, Settings
  <1>6. kind = "restream" =>
          /\ arg.srt \in Ports /\ arg \in Section
          /\ arg.pass = memory.pass \/ arg.pass = Unencrypted
               \/ \E t \in Secrets : arg.pass = Available(t)
    <2> SUFFICES ASSUME kind = "restream"
                 PROVE  /\ arg.srt \in Ports /\ arg \in Section
                        /\ arg.pass = memory.pass \/ arg.pass = Unencrypted
                             \/ \E t \in Secrets : arg.pass = Available(t)
      OBVIOUS
    <2> DEFINE P == {memory.pass, Unencrypted} \cup {Available(t) : t \in Secrets}
    <2>1. arg \in [srt : Ports, pass : P]
      BY <1>1
    <2>2. P \subseteq Passphrase
      BY <1>5 DEF Passphrase
    <2>3. arg.srt \in Ports /\ arg.pass \in P
      BY <2>1
    <2>4. arg \in Section
      <3> HIDE DEF P
      <3> QED  BY <2>1, <2>2, Zenon DEF Section
    <2> QED  BY <2>3, <2>4
  <1>7. Carries(op) /\ op.kind \in Commits
    BY <1>1, <1>2, <1>6 DEF Carries, Commits
  <1>8. WellFormed(j)
    BY <1>3, <1>7 DEF WellFormed, Route, MemoryFirst, PersistFirst, Commits
  <1>9. /\ Jobs' /\ job[w] = Idle /\ job'[w] = j
        /\ \A v \in Writers : v # w => job'[v] = job[v]
    BY <1>4, <1>8, Begins
  <1>10. ~ghost.keyLost /\ op.kind = "restream" => CarriedKey(op.arg.pass)
    BY <1>2, <1>6 DEF KeyAgrees, CarriedKey, Unencrypted, Available
  <1>11. /\ gate' \in Writers \cup {None}
         /\ UNCHANGED <<memory, cache, disk, cacheDisk, keyFile, saveLock,
                        cacheLock, mutex, ghost>>
    BY DEF Rebase
  <1> QED  BY <1>3, <1>9, <1>10, <1>11, IdlePlace, PlainMove

LEMMA CommitInv ==
  ASSUME ConfigInv, NEW w \in Writers, Commit(w)
  PROVE  ConfigInv'
  <1> USE DEF ConfigInv
  <1> DEFINE op == job[w].op
             n == Changed(op, memory)
  <1>1. /\ job[w].at = "lock" /\ saveLock = None /\ mutex = None
        /\ UNCHANGED <<memory, cache, disk, cacheDisk, keyFile, cacheLock, mutex,
                       used, ghost>>
    BY DEF Commit, SaveLockFree
  <1>2. WellFormed(job[w]) /\ used.writes > 0 /\ job[w] # Idle
    BY <1>1, UnderWay
  <1>3. /\ op.kind \in Commits /\ Carries(op)
        /\ op.kind \notin MemoryFirst \cup PersistFirst
    BY <1>1, <1>2 DEF WellFormed, Route, MemoryFirst, PersistFirst, Commits
  <1>4. used' \in UsedRec /\ used'.writes >= used.writes /\ used'.writes > 0
    BY <1>1, <1>2, ConstantsAssumption DEF Jobs, UsedRec
  <1>5. CASE n = None
    <2>1. /\ job' = [job EXCEPT ![w] = Idle] /\ gate' = None /\ saveLock' = saveLock
      BY <1>5 DEF Commit
    <2>2. /\ Jobs' /\ job'[w] = Idle
          /\ \A v \in Writers : v # w => job'[v] = job[v]
      BY <1>4, <2>1, JobMoves
    <2> QED  BY <1>1, <2>1, <2>2, IdlePlace, PlainMove
  <1>6. CASE n # None
    <2> DEFINE j == [job[w] EXCEPT !.at = "key", !.next = n]
    <2>1. /\ job' = [job EXCEPT ![w].at = "key", ![w].next = n]
          /\ saveLock' = w /\ gate' = gate
      BY <1>6 DEF Commit
    <2>2. job' = [job EXCEPT ![w] = j]
      BY <2>1
    <2>3. memory \in Settings /\ Accepts(memory)
      BY DEF TypeOK, PortsApart, Accepts
    <2>4. n \in Settings /\ Accepts(n) /\ n = Published(op, memory)
      BY <1>3, <1>6, <2>3, CommitChange
    <2> HIDE DEF n
    <2>5. /\ IsRequest(j) /\ j.at = "key" /\ j.op = job[w].op /\ j.next = n
          /\ j.key = job[w].key
      <3>1. job[w] \in [at : {job[w].at}, op : {job[w].op}, next : {job[w].next},
                        key : {job[w].key}]
        BY <1>2 DEF WellFormed, IsRequest
      <3>2. j \in [at : {"key"}, op : {job[w].op}, next : {n}, key : {job[w].key}]
        BY <3>1, Zenon
      <3> HIDE DEF j, op
      <3> QED  BY <3>2, RequestFields
    <2> HIDE DEF j
    <2>6. WellFormed(j)
      BY <1>1, <1>2, <1>3, <2>5 DEF WellFormed, Route
    <2>7. /\ Jobs' /\ job'[w] = j
          /\ \A v \in Writers : v # w => job'[v] = job[v]
      BY <1>4, <2>2, <2>6, JobMoves
    <2> HIDE DEF op
    <2>8. job[w].op = op
      BY DEF op
    <2> QED  BY <1>1, <1>2, <1>3, <2>1, <2>4, <2>5, <2>7, <2>8, EntersSave
  <1> QED  BY <1>5, <1>6

-----------------------------------------------------------------------------
(***************************************************************************)
(* save_to_disk                                                            *)
(***************************************************************************)

\* One writer at a time is in save_to_disk.
LEMMA OneSaver ==
  ASSUME ConfigInv, NEW w \in Writers, Saving(w)
  PROVE  /\ saveLock = w
         /\ \A v \in Writers : Saving(v) <=> v = w
         /\ mutex \in {w, None}
         /\ mutex = w <=> job[w].op.kind \in PersistFirst
         /\ job[w] # Idle /\ WellFormed(job[w]) /\ used.writes > 0
         /\ Candidate(w)
  <1> USE DEF ConfigInv
  <1>1. saveLock = w /\ \A v \in Writers : Saving(v) <=> v = w
    BY DEF Locks
  <1>2. mutex \in {w, None} /\ (mutex = w <=> job[w].op.kind \in PersistFirst)
    BY <1>1 DEF Locks, TypeOK
  <1>3. job[w] # Idle /\ WellFormed(job[w]) /\ used.writes > 0
    BY UnderWay DEF Saving
  <1> QED  BY <1>1, <1>2, <1>3 DEF Candidates

\* The end of a save: every lock it held is free.
LEMMA Released ==
  ASSUME ConfigInv, NEW w \in Writers, Saving(w), Release(w),
         used' \in UsedRec, used'.writes >= used.writes, cacheLock' = cacheLock
  PROVE  /\ Jobs' /\ Locks' /\ saveLock' = None /\ mutex' = None
         /\ gate' \in Writers \cup {None}
         /\ job'[w] = Idle /\ job'[w].at = "idle"
         /\ \A v \in Writers : v # w => job'[v] = job[v]
         /\ \A v \in Writers : ~Saving(v)'
         /\ Candidates' /\ ~Unpublished' /\ ~SoftSaving'
         /\ SaveToCome' <=> SaveToCome
         /\ CacheToCome' <=> CacheToCome
  <1>1. /\ saveLock = w /\ \A v \in Writers : Saving(v) <=> v = w
        /\ mutex \in {w, None}
    BY OneSaver
  <1>2. /\ job' = [job EXCEPT ![w] = Idle] /\ saveLock' = None
        /\ mutex' = None /\ gate' \in {None, gate}
    BY <1>1 DEF Release
  <1>3. /\ Jobs' /\ job'[w] = Idle
        /\ \A v \in Writers : v # w => job'[v] = job[v]
    BY <1>2, JobMoves DEF ConfigInv
  <1>4. job'[w].at = "idle"
    BY <1>3, IdlePlace
  <1>5. \A v \in Writers : ~Saving(v)'
    BY <1>1, <1>3, <1>4 DEF Saving
  <1>6. Locks'
    <2>1. \A v \in Writers : cacheLock' = v <=> job'[v].at = "cached"
      BY <1>3, <1>4 DEF ConfigInv, Locks, Saving
    <2> QED  BY <1>2, <1>5, <2>1, Apart DEF Locks
  <1>7. Candidates' /\ ~Unpublished' /\ ~SoftSaving'
    BY <1>5 DEF Candidates, Unpublished, SoftSaving, Saving
  <1>8. (SaveToCome' <=> SaveToCome) /\ (CacheToCome' <=> CacheToCome)
    BY <1>3, <1>4 DEF SaveToCome, CacheToCome, Saving
  <1>9. gate' \in Writers \cup {None}
    BY <1>2 DEF ConfigInv, TypeOK
  <1> QED  BY <1>2, <1>3, <1>4, <1>5, <1>6, <1>7, <1>8, <1>9

LEMMA CacheAfterRelease ==
  ASSUME CacheAgrees, NEW w \in Writers, Saving(w), job'[w].at = "idle",
         \A v \in Writers : v # w => job'[v] = job[v],
         CacheToCome' <=> CacheToCome,
         UNCHANGED <<cache, cacheDisk, cacheLock>>,
         ghost'.cacheDirty = ghost.cacheDirty
  PROVE  CacheAgrees'
  BY DEF CacheAgrees, Saving

LEMMA SaveFailsInv ==
  ASSUME ConfigInv, NEW w \in Writers, SaveFails(w)
  PROVE  ConfigInv'
  <1> USE DEF ConfigInv
  <1>1. /\ job[w].at \in {"key", "written"} /\ Release(w)
        /\ used' = [used EXCEPT !.faults = @ + 1] /\ used.faults < MaxFaults
        /\ keyFile' = keyFile /\ memory' = memory
        /\ ghost' = [ghost EXCEPT !.dirty = @ \/ job[w].op.kind \in MemoryFirst]
        /\ UNCHANGED <<cache, disk, cacheDisk, cacheLock>>
    BY DEF SaveFails, Fault, Regenerates, Kept
  <1>2. Saving(w)
    BY <1>1 DEF Saving
  <1>3. used' \in UsedRec /\ used'.writes >= used.writes
    BY <1>1, ConstantsAssumption DEF Jobs, UsedRec
  <1>4. /\ Jobs' /\ Locks' /\ saveLock' = None /\ mutex' = None
        /\ gate' \in Writers \cup {None}
        /\ job'[w] = Idle /\ job'[w].at = "idle"
        /\ \A v \in Writers : v # w => job'[v] = job[v]
        /\ \A v \in Writers : ~Saving(v)'
        /\ Candidates' /\ ~Unpublished' /\ ~SoftSaving'
        /\ SaveToCome' <=> SaveToCome
        /\ CacheToCome' <=> CacheToCome
    BY <1>1, <1>2, <1>3, Released
  <1>5. \A v \in Writers : Saving(v) <=> v = w
    BY <1>2, OneSaver
  <1>6. ghost \in Ghosts
    BY DEF TypeOK
  <1>7. /\ ghost'.unread = ghost.unread /\ ghost'.keyLost = ghost.keyLost
        /\ ghost'.cacheDirty = ghost.cacheDirty
        /\ ghost'.dirty <=> ghost.dirty \/ job[w].op.kind \in MemoryFirst
    BY <1>1, <1>6 DEF Ghosts
  <1>8. ghost' \in Ghosts
    <2> DEFINE d == ghost.dirty \/ job[w].op.kind \in MemoryFirst
    <2>1. d \in BOOLEAN /\ ghost' = [ghost EXCEPT !.dirty = d]
      BY <1>1
    <2> HIDE DEF d
    <2> QED  BY <1>6, <2>1, Zenon DEF Ghosts
  <1>9. TypeOK' /\ PortsApart'
    BY <1>1, <1>4, <1>8 DEF TypeOK, PortsApart
  <1>10. FileAgrees'
    <2>1. ~Unpublished
      BY <1>1, <1>5 DEF Unpublished, Saving
    <2>2. job[w].op.kind \notin MemoryFirst => ~SoftSaving
      BY <1>5 DEF SoftSaving
    <2> QED  BY <1>1, <1>4, <1>7, <2>1, <2>2 DEF FileAgrees
  <1>11. CacheAgrees'
    BY <1>1, <1>2, <1>4, <1>7, CacheAfterRelease
  <1>12. KeyAgrees'
    <2>1. \A v \in Writers : job'[v] = job[v] \/ job'[v] = Idle
      BY <1>4
    <2>2. \A v \in Writers : job'[v].at # "written"
      BY <1>4 DEF Saving
    <2> QED  BY <1>1, <1>4, <1>7, <2>1, <2>2 DEF KeyAgrees, CarriedKey
  <1> QED  BY <1>4, <1>9, <1>10, <1>11, <1>12

\* A key nothing is stored under exists, and is chosen.
LEMMA NewKeyType ==
  ASSUME ConfigInv, NEW w \in Writers, job[w].at = "key",
         keyFile \in {None, Foreign}
  PROVE  NewKey \in Keys
  <1> USE DEF ConfigInv
  <1>1. \A v \in Writers : job[v] # Idle => job[v].key = None
    <2> SUFFICES ASSUME NEW v \in Writers, job[v] # Idle PROVE job[v].key = None
      OBVIOUS
    <2>1. Saving(v) <=> v = w
      BY OneSaver DEF Saving
    <2>2. job[v].at \notin {"written", "stored"}
      BY <2>1 DEF Saving
    <2> QED  BY <2>2 DEF Jobs
  <1>2. used.writes > 0 /\ used.writes \in 0 .. MaxWrites
    BY UnderWay DEF Jobs
  <1>3. 0 \in Keys /\ 1 \in Keys /\ 2 \in Keys
    BY <1>2, ConstantsAssumption DEF Keys
  <1> DEFINE a == disk.pass.key
             b == disk.creds.key
  <1>4. PICK k \in {0, 1, 2} : k # a /\ k # b
    <2> HIDE DEF a, b
    <2> QED  OBVIOUS
  <1>5. /\ k \in Keys /\ k # keyFile
        /\ \A v \in Writers : job[v] # Idle => job[v].key # k
        /\ \A c \in {disk.pass, disk.creds} : c # None => c.key # k
    BY <1>1, <1>3, <1>4, Apart
  <1>6. \E q \in Keys : /\ q # keyFile
                        /\ \A v \in Writers : job[v] # Idle => job[v].key # q
                        /\ disk \in {None, Damaged} \/ (\A c \in {disk.pass, disk.creds} :
                                                          c # None => c.key # q)
    BY <1>5
  <1> QED  BY <1>6, Zenon DEF NewKey

\* Without a key file nothing is carried.
LEMMA NothingCarried ==
  ASSUME NEW p \in Passphrase, CarriedKey(p), keyFile \notin Keys
  PROVE  p.state # "unavailable"
  <1> SUFFICES ASSUME p.state = "unavailable" PROVE FALSE
    OBVIOUS
  <1>1. PICK c \in CipherRec : p = Unavailable(c)
    BY PassCases DEF Unencrypted, Available
  <1>2. p.cipher = c /\ c.key \in Keys
    BY <1>1 DEF Unavailable, CipherRec
  <1> QED  BY <1>2 DEF CarriedKey

LEMMA TakeKeyInv ==
  ASSUME ConfigInv, NEW w \in Writers, TakeKey(w)
  PROVE  ConfigInv'
  <1> USE DEF ConfigInv
  <1> DEFINE j == [job[w] EXCEPT !.at = "written", !.key = keyFile']
  <1>1. /\ job[w].at = "key"
        /\ job' = [job EXCEPT ![w].at = "written", ![w].key = keyFile']
        /\ UNCHANGED <<memory, cache, disk, cacheDisk, saveLock, cacheLock, mutex,
                       gate, used, ghost>>
    BY DEF TakeKey
  <1>2. Saving(w)
    BY <1>1 DEF Saving
  <1>3. /\ saveLock = w /\ \A v \in Writers : Saving(v) <=> v = w
        /\ job[w] # Idle /\ WellFormed(job[w]) /\ used.writes > 0
        /\ Candidate(w)
    BY <1>2, OneSaver
  <1>4. keyFile' \in Keys /\ (keyFile \in Keys => keyFile' = keyFile)
    <2>1. CASE keyFile \in {None, Foreign}
      <3>1. keyFile' = NewKey
        BY <2>1 DEF TakeKey, Regenerates
      <3> QED  BY <1>1, <2>1, <3>1, NewKeyType, Apart
    <2>2. CASE keyFile \notin {None, Foreign}
      BY <2>2 DEF TakeKey, Regenerates, TypeOK, KeyFile
    <2> QED  BY <2>1, <2>2
  <1>5. /\ IsRequest(j) /\ j.at = "written" /\ j.op = job[w].op
        /\ j.next = job[w].next /\ j.key = keyFile'
    <2>1. job[w] \in [at : {job[w].at}, op : {job[w].op}, next : {job[w].next},
                      key : {job[w].key}]
      BY <1>3 DEF WellFormed, IsRequest
    <2>2. j \in [at : {"written"}, op : {job[w].op}, next : {job[w].next},
                 key : {keyFile'}]
      BY <2>1, Zenon
    <2> HIDE DEF j
    <2> QED  BY <2>2, RequestFields
  <1>6. job' = [job EXCEPT ![w] = j]
    BY <1>1
  <1> HIDE DEF j
  <1>7. WellFormed(j)
    BY <1>1, <1>3, <1>4, <1>5 DEF WellFormed, Route
  <1>8. /\ Jobs' /\ job'[w] = j
        /\ \A v \in Writers : v # w => job'[v] = job[v]
    <2>1. used' \in UsedRec /\ used'.writes >= used.writes /\ used'.writes > 0
      BY <1>1, <1>3, ConstantsAssumption DEF Jobs, UsedRec
    <2> QED  BY <1>6, <1>7, <2>1, JobMoves
  <1>9. \A v \in Writers : Saving(v)' <=> Saving(v)
    BY <1>1, <1>5, <1>8 DEF Saving
  <1>10. \A v \in Writers : job'[v].op = job[v].op /\ job'[v].next = job[v].next
    BY <1>5, <1>8
  <1>11. TypeOK' /\ PortsApart'
    BY <1>1, <1>4 DEF TypeOK, PortsApart, KeyFile
  <1>12. Locks'
    <2>1. \A v \in Writers : cacheLock' = v <=> job'[v].at = "cached"
      BY <1>1, <1>5, <1>8 DEF Locks
    <2> QED  BY <1>1, <1>9, <1>10, <2>1 DEF Locks
  <1>13. /\ SaveToCome' <=> SaveToCome
         /\ CacheToCome' <=> CacheToCome
         /\ Unpublished' <=> Unpublished
         /\ SoftSaving' <=> SoftSaving
    BY <1>1, <1>5, <1>8, <1>9, <1>10 DEF SaveToCome, CacheToCome, Unpublished,
       SoftSaving
  <1>14. Candidates'
    <2>1. Candidate(w)'
      BY <1>1, <1>3, <1>5, <1>8, <1>13 DEF Candidate
    <2> QED  BY <1>3, <1>9, <2>1 DEF Candidates
  <1>15. FileAgrees'
    BY <1>1, <1>13 DEF FileAgrees
  <1>16. CacheAgrees'
    BY <1>1, <1>5, <1>8, <1>13 DEF CacheAgrees
  <1>17. KeyAgrees'
    <2> SUFFICES ASSUME ~ghost.keyLost PROVE KeyAgrees'
      BY <1>1 DEF KeyAgrees
    <2>2. disk \in File /\ disk.pass # None => disk.pass.key = keyFile'
      <3> SUFFICES ASSUME disk \in File, disk.pass # None
                   PROVE  disk.pass.key = keyFile'
        OBVIOUS
      <3>1. disk.pass.key = keyFile
        BY DEF KeyAgrees
      <3>2. disk.pass.key \in Keys
        BY DEF File, Stored
      <3> QED  BY <1>4, <3>1, <3>2
    <2>3. ASSUME NEW p \in Passphrase, CarriedKey(p)
          PROVE  p.state = "unavailable" => p.cipher.key = keyFile'
      BY <1>4, <2>3, NothingCarried DEF CarriedKey
    <2>4. CarriedKey(memory.pass)'
      BY <1>1, <2>3 DEF TypeOK, Settings, KeyAgrees, CarriedKey
    <2>5. ASSUME NEW v \in Writers
          PROVE  /\ (job[v].at = "written" => job[v].key = keyFile)'
                 /\ (Saving(v) => CarriedKey(job[v].next.pass))'
                 /\ (job[v] # Idle /\ job[v].op.kind = "restream" =>
                       CarriedKey(job[v].op.arg.pass))'
      <3>1. (job[v].at = "written" => job[v].key = keyFile)'
        BY <1>3, <1>5, <1>8, <1>9 DEF Saving
      <3>2. (Saving(v) => CarriedKey(job[v].next.pass))'
        <4> SUFFICES ASSUME Saving(v)' PROVE CarriedKey(job[v].next.pass)'
          OBVIOUS
        <4>1. v = w /\ job[v].next \in Settings
          BY <1>3, <1>9 DEF Candidate
        <4>2. job[v].next.pass \in Passphrase
          BY <4>1 DEF Settings
        <4>3. CarriedKey(job[v].next.pass)
          BY <1>2, <4>1 DEF KeyAgrees
        <4> QED  BY <1>10, <2>3, <4>2, <4>3 DEF CarriedKey
      <3>3. (job[v] # Idle /\ job[v].op.kind = "restream" =>
               CarriedKey(job[v].op.arg.pass))'
        <4> SUFFICES ASSUME (job[v] # Idle)', (job[v].op.kind = "restream")'
                     PROVE  CarriedKey(job[v].op.arg.pass)'
          OBVIOUS
        <4>1. job[v] # Idle /\ job[v].op.kind = "restream"
          BY <1>3, <1>8, <1>10
        <4>2. CarriedKey(job[v].op.arg.pass) /\ Carries(job[v].op)
          BY <4>1 DEF KeyAgrees, Jobs
        <4>3. job[v].op.arg.pass \in Passphrase
          BY <4>1, <4>2 DEF Carries, Section
        <4> QED  BY <1>10, <2>3, <4>2, <4>3 DEF CarriedKey
      <3> QED  BY <3>1, <3>2, <3>3
    <2> QED  BY <1>1, <2>2, <2>4, <2>5 DEF KeyAgrees
  <1> QED  BY <1>8, <1>11, <1>12, <1>14, <1>15, <1>16, <1>17

\* Only a re-stream commit that carries another passphrase stores another one.
PassphraseKept ==
  disk \in File /\ disk' \in File /\ ~ghost.unread =>
    (Text(disk.pass) # Text(disk'.pass) =>
       \E w \in Writers : /\ job[w] # Idle /\ job[w].op.kind = "restream"
                          /\ Text(disk'.pass) = PassText(job[w].op.arg.pass))

\* What Write leaves in the file.
LEMMA WrittenFile ==
  ASSUME ConfigInv, NEW w \in Writers, job[w].at = "written",
         disk' = Persisted(job[w].next, job[w].key)
  PROVE  /\ disk' \in File
         /\ SameFirm(job[w].next, disk') /\ SameSoft(job[w].next, disk')
         /\ disk'.udp # disk'.srt
         /\ ~ghost.keyLost /\ disk'.pass # None => disk'.pass.key = keyFile
         /\ PassphraseKept
  <1> USE DEF ConfigInv
  <1> DEFINE n == job[w].next
             k == job[w].key
  <1>1. Saving(w)
    BY DEF Saving
  <1>2. /\ \A v \in Writers : Saving(v) <=> v = w
        /\ job[w] # Idle /\ WellFormed(job[w]) /\ Candidate(w)
    BY <1>1, OneSaver
  <1>3. n \in Settings /\ Accepts(n) /\ k \in Keys /\ n.pass \in Passphrase
    BY <1>2 DEF Candidate, WellFormed, Settings
  <1>4. /\ disk' \in File /\ SameFirm(n, disk') /\ SameSoft(n, disk')
        /\ disk'.udp = n.udp /\ disk'.srt = n.srt
        /\ disk'.pass = StoredPass(n.pass, k)
    BY <1>3, SavedFile
  <1>5. ~ghost.keyLost /\ disk'.pass # None => disk'.pass.key = keyFile
    BY <1>1, <1>3, <1>4, StoredPassText DEF KeyAgrees, CarriedKey
  <1>6. ASSUME disk \in File, ~ghost.unread, Text(disk.pass) # Text(disk'.pass)
        PROVE  job[w].op.kind = "restream" /\ Text(disk'.pass) = PassText(job[w].op.arg.pass)
    <2>1. Text(disk'.pass) = PassText(n.pass)
      BY <1>4 DEF SameFirm
    <2>2. ~Unpublished
      BY <1>2 DEF Unpublished, Saving
    <2>3. PassText(memory.pass) = Text(disk.pass)
      BY <1>6, <2>2 DEF FileAgrees, SameFirm
    <2>4. n.pass # memory.pass
      BY <1>6, <2>1, <2>3
    <2>5. job[w].op.kind \in Commits /\ Carries(job[w].op)
      BY <1>2, <2>4 DEF Candidate, WellFormed, Route, SameFirmGroups
    <2>6. n.pass = Published(job[w].op, memory).pass /\ memory \in Settings
      BY <1>2, <2>5 DEF Candidate, SameFirmGroups, TypeOK
    <2>7. job[w].op.kind = "restream" /\ n.pass = job[w].op.arg.pass
      BY <2>4, <2>5, <2>6, PublishedGroups
    <2> QED  BY <2>1, <2>7
  <1>7. PassphraseKept
    BY <1>2, <1>6 DEF PassphraseKept
  <1> QED  BY <1>3, <1>4, <1>5, <1>7 DEF Accepts

LEMMA WriteInv ==
  ASSUME ConfigInv, NEW w \in Writers, Write(w)
  PROVE  ConfigInv' /\ PassphraseKept
  <1> USE DEF ConfigInv
  <1> DEFINE n == job[w].next
  <1>1. /\ job[w].at = "written"
        /\ disk' = Persisted(job[w].next, job[w].key)
        /\ ghost' = [ghost EXCEPT !.dirty = FALSE, !.unread = FALSE]
        /\ UNCHANGED <<memory, cache, cacheDisk, keyFile, cacheLock, used>>
    BY DEF Write
  <1>2. /\ disk' \in File /\ SameFirm(n, disk') /\ SameSoft(n, disk')
        /\ disk'.udp # disk'.srt
        /\ ~ghost.keyLost /\ disk'.pass # None => disk'.pass.key = keyFile
        /\ PassphraseKept
    BY <1>1, WrittenFile
  <1>3. ghost' \in Ghosts
    BY <1>1, Zenon DEF TypeOK, Ghosts
  <1>4. /\ ghost'.dirty = FALSE /\ ghost'.unread = FALSE
        /\ ghost'.keyLost = ghost.keyLost /\ ghost'.cacheDirty = ghost.cacheDirty
    BY <1>1 DEF TypeOK, Ghosts
  <1>5. PortsApart'
    BY <1>1, <1>2 DEF PortsApart
  <1>6. Saving(w)
    BY <1>1 DEF Saving
  <1>7. /\ saveLock = w /\ \A v \in Writers : Saving(v) <=> v = w
        /\ job[w] # Idle /\ WellFormed(job[w]) /\ used.writes > 0
        /\ Candidate(w)
    BY <1>6, OneSaver
  <1>8. used' \in UsedRec /\ used'.writes >= used.writes /\ used'.writes > 0
    BY <1>1, <1>7, ConstantsAssumption DEF Jobs, UsedRec
  <1>9. CASE job[w].op.kind \in MemoryFirst
    <2>1. Release(w)
      BY <1>9 DEF Write
    <2>2. /\ Jobs' /\ Locks' /\ saveLock' = None /\ mutex' = None
          /\ gate' \in Writers \cup {None}
          /\ job'[w] = Idle /\ job'[w].at = "idle"
          /\ \A v \in Writers : v # w => job'[v] = job[v]
          /\ \A v \in Writers : ~Saving(v)'
          /\ Candidates' /\ ~Unpublished' /\ ~SoftSaving'
          /\ SaveToCome' <=> SaveToCome
          /\ CacheToCome' <=> CacheToCome
      BY <1>1, <1>6, <1>8, <2>1, Released
    <2>3. TypeOK'
      BY <1>1, <1>2, <1>3, <2>2 DEF TypeOK
    <2>4. FileAgrees'
      <3>1. SameFirmGroups(n, memory)
        BY <1>7, <1>9 DEF Candidate
      <3>2. SameFirm(memory, disk')
        BY <1>2, <3>1 DEF SameFirm, SameFirmGroups
      <3>3. ~SaveToCome => SameSoftGroups(n, memory)
        BY <1>7, <1>9 DEF Candidate, MemoryFirst, PersistFirst
      <3>4. ~SaveToCome => SameSoft(memory, disk')
        BY <1>2, <3>3 DEF SameSoft, SameSoftGroups
      <3> QED  BY <1>1, <1>2, <1>4, <2>2, <3>2, <3>4 DEF FileAgrees
    <2>5. CacheAgrees'
      BY <1>1, <1>4, <1>6, <2>2, CacheAfterRelease
    <2>6. KeyAgrees'
      <3>1. \A v \in Writers : job'[v] = job[v] \/ job'[v] = Idle
        BY <2>2
      <3>2. \A v \in Writers : job'[v].at # "written"
        BY <2>2 DEF Saving
      <3> QED  BY <1>1, <1>2, <1>4, <2>2, <3>1, <3>2 DEF KeyAgrees, CarriedKey
    <2> QED  BY <1>2, <1>5, <2>2, <2>3, <2>4, <2>5, <2>6
  <1>10. CASE job[w].op.kind \notin MemoryFirst
    <2> DEFINE j == [job[w] EXCEPT !.at = "stored"]
    <2>1. /\ job' = [job EXCEPT ![w].at = "stored"]
          /\ UNCHANGED <<saveLock, mutex, gate>>
      BY <1>10 DEF Write
    <2>2. job' = [job EXCEPT ![w] = j]
      BY <2>1
    <2>3. /\ IsRequest(j) /\ j.at = "stored" /\ j.op = job[w].op /\ j.next = n
          /\ j.key = job[w].key
      <3>1. job[w] \in [at : {job[w].at}, op : {job[w].op}, next : {job[w].next},
                        key : {job[w].key}]
        BY <1>7 DEF WellFormed, IsRequest
      <3>2. j \in [at : {"stored"}, op : {job[w].op}, next : {job[w].next},
                   key : {job[w].key}]
        BY <3>1, Zenon
      <3> HIDE DEF j
      <3> QED  BY <3>2, RequestFields
    <2> HIDE DEF j
    <2>4. WellFormed(j)
      BY <1>1, <1>7, <1>10, <2>3 DEF WellFormed, Route
    <2>5. /\ Jobs' /\ job'[w] = j
          /\ \A v \in Writers : v # w => job'[v] = job[v]
      BY <1>8, <2>2, <2>4, JobMoves
    <2>6. /\ \A v \in Writers : Saving(v)' <=> Saving(v)
          /\ \A v \in Writers : job'[v].op = job[v].op /\ job'[v].next = job[v].next
      BY <1>6, <2>3, <2>5 DEF Saving
    <2>7. TypeOK'
      BY <1>1, <1>2, <1>3, <2>1 DEF TypeOK
    <2>8. Locks'
      <3>1. \A v \in Writers : cacheLock' = v <=> job'[v].at = "cached"
        BY <1>1, <2>3, <2>5 DEF Locks
      <3> QED  BY <2>1, <2>6, <3>1 DEF Locks
    <2>9. /\ SaveToCome' <=> SaveToCome
          /\ CacheToCome' <=> CacheToCome
          /\ Unpublished'
      BY <1>1, <2>3, <2>5 DEF SaveToCome, CacheToCome, Unpublished
    <2>10. Candidates'
      <3>1. Candidate(w)'
        BY <1>1, <1>2, <1>7, <2>3, <2>5, <2>9 DEF Candidate
      <3> QED  BY <1>7, <2>6, <3>1 DEF Candidates
    <2>11. FileAgrees'
      BY <1>2, <1>4, <2>9 DEF FileAgrees
    <2>12. CacheAgrees'
      BY <1>1, <1>4, <2>3, <2>5, <2>9 DEF CacheAgrees
    <2>13. KeyAgrees'
      <3> SUFFICES ASSUME ~ghost.keyLost PROVE KeyAgrees'
        BY <1>4 DEF KeyAgrees
      <3>1. ASSUME NEW v \in Writers
            PROVE  /\ (job[v].at = "written" => job[v].key = keyFile)'
                   /\ (Saving(v) => CarriedKey(job[v].next.pass))'
                   /\ (job[v] # Idle /\ job[v].op.kind = "restream" =>
                         CarriedKey(job[v].op.arg.pass))'
        <4>1. CASE v = w
          BY <1>1, <1>6, <1>7, <2>3, <2>5, <4>1 DEF KeyAgrees, CarriedKey
        <4>2. CASE v # w
          BY <1>1, <2>5, <2>6, <4>2 DEF KeyAgrees, CarriedKey
        <4> QED  BY <4>1, <4>2
      <3> QED  BY <1>1, <1>2, <3>1 DEF KeyAgrees, CarriedKey
    <2> QED  BY <1>2, <1>5, <2>5, <2>7, <2>8, <2>10, <2>11, <2>12, <2>13
  <1> QED  BY <1>9, <1>10

LEMMA PublishInv ==
  ASSUME ConfigInv, NEW w \in Writers, Publish(w)
  PROVE  ConfigInv'
  <1> USE DEF ConfigInv
  <1> DEFINE n == job[w].next
             op == job[w].op
  <1>1. /\ job[w].at = "stored" /\ Release(w)
        /\ memory' = IF mutex = w THEN n ELSE Published(op, memory)
        /\ UNCHANGED <<cache, disk, cacheDisk, keyFile, cacheLock, used, ghost>>
    BY DEF Publish
  <1>2. Saving(w)
    BY <1>1 DEF Saving
  <1>3. /\ mutex = w <=> op.kind \in PersistFirst
        /\ \A v \in Writers : Saving(v) <=> v = w
        /\ job[w] # Idle /\ WellFormed(job[w]) /\ Candidate(w)
    BY <1>2, OneSaver
  <1>4. used' \in UsedRec /\ used'.writes >= used.writes
    BY <1>1, ConstantsAssumption DEF Jobs, UsedRec
  <1>5. /\ Jobs' /\ Locks' /\ saveLock' = None /\ mutex' = None
        /\ gate' \in Writers \cup {None}
        /\ job'[w] = Idle /\ job'[w].at = "idle"
        /\ \A v \in Writers : v # w => job'[v] = job[v]
        /\ \A v \in Writers : ~Saving(v)'
        /\ Candidates' /\ ~Unpublished' /\ ~SoftSaving'
        /\ SaveToCome' <=> SaveToCome
        /\ CacheToCome' <=> CacheToCome
    BY <1>1, <1>2, <1>4, Released
  <1>6. memory \in Settings /\ n \in Settings /\ Accepts(n)
    BY <1>3 DEF TypeOK, Candidate
  <1>7. /\ memory' \in Settings /\ SameFirmGroups(n, memory')
        /\ ~SaveToCome => SameSoftGroups(n, memory')
    <2>1. CASE op.kind \in PersistFirst
      BY <1>1, <1>3, <1>6, <2>1 DEF SameFirmGroups, SameSoftGroups
    <2>2. CASE op.kind \notin PersistFirst
      <3>1. op.kind \in Commits /\ Carries(op) /\ memory' = Published(op, memory)
        BY <1>1, <1>3, <2>2 DEF WellFormed, Route
      <3>2. memory' \in Settings /\ SameSoftGroups(memory', memory)
        BY <1>6, <3>1, PublishedGroups
      <3>3. SameFirmGroups(n, memory')
        BY <1>3, <3>1 DEF Candidate
      <3>4. ~SaveToCome => SameSoftGroups(n, memory)
        BY <1>3, <2>2 DEF Candidate
      <3> QED  BY <3>2, <3>3, <3>4 DEF SameSoftGroups
    <2> QED  BY <2>1, <2>2
  <1>8. TypeOK'
    BY <1>1, <1>5, <1>7 DEF TypeOK
  <1>9. PortsApart'
    BY <1>1, <1>6, <1>7 DEF PortsApart, SameFirmGroups, Accepts
  <1>10. FileAgrees'
    <2>1. disk \in File => SameFirm(memory', disk)
      BY <1>1, <1>3, <1>7 DEF Candidate, SameFirm, SameFirmGroups
    <2>2. disk \in File /\ ~SaveToCome => SameSoft(memory', disk)
      BY <1>1, <1>3, <1>7 DEF Candidate, SameSoft, SameSoftGroups
    <2> QED  BY <1>1, <1>5, <2>1, <2>2 DEF FileAgrees
  <1>11. CacheAgrees'
    BY <1>1, <1>2, <1>5, CacheAfterRelease
  <1>12. KeyAgrees'
    <2>1. \A v \in Writers : job'[v] = job[v] \/ job'[v] = Idle
      BY <1>5
    <2>2. \A v \in Writers : job'[v].at # "written"
      BY <1>5 DEF Saving
    <2>3. memory'.pass = n.pass
      BY <1>7 DEF SameFirmGroups
    <2> QED  BY <1>1, <1>2, <1>5, <2>1, <2>2, <2>3 DEF KeyAgrees, CarriedKey
  <1> QED  BY <1>5, <1>8, <1>9, <1>10, <1>11, <1>12

-----------------------------------------------------------------------------
(***************************************************************************)
(* The device cache                                                        *)
(***************************************************************************)

\* A step of a cache request leaves the settings side as it was.
LEMMA CacheMove ==
  ASSUME ConfigInv, NEW w \in Writers, Jobs',
         job[w].at \in {"idle", "cache", "cached"},
         job'[w].at \in {"idle", "cache", "cached"},
         \A v \in Writers : v # w => job'[v] = job[v],
         job'[w] # Idle => job'[w].op.kind # "restream",
         cache' \in Rows, cacheDisk' \in Rows \cup {Damaged, "absent"},
         cacheLock' \in Writers \cup {None},
         \A v \in Writers : cacheLock' = v <=> job'[v].at = "cached",
         ghost' \in Ghosts, ghost'.dirty = ghost.dirty,
         ghost'.unread = ghost.unread, ghost'.keyLost = ghost.keyLost,
         CacheAgrees',
         UNCHANGED <<memory, disk, keyFile, saveLock, mutex, gate>>
  PROVE  ConfigInv'
  <1> USE DEF ConfigInv
  <1>1. ~Saving(w) /\ ~Saving(w)'
    BY DEF Saving
  <1>2. /\ \A v \in Writers : v # w => (Saving(v)' <=> Saving(v))
        /\ SaveToCome' <=> SaveToCome
        /\ Unpublished' <=> Unpublished
        /\ SoftSaving' <=> SoftSaving
    BY <1>1 DEF Saving, SaveToCome, Unpublished, SoftSaving
  <1>3. TypeOK' /\ PortsApart'
    BY DEF TypeOK, PortsApart
  <1>4. Locks'
    <2>1. ASSUME NEW v \in Writers
          PROVE  /\ saveLock' = v <=> Saving(v)'
                 /\ mutex' = v <=> Saving(v)' /\ job'[v].op.kind \in PersistFirst
      <3>1. CASE v = w
        BY <1>1, <3>1 DEF Locks
      <3>2. CASE v # w
        BY <1>2, <3>2 DEF Locks
      <3> QED  BY <3>1, <3>2
    <2> QED  BY <2>1 DEF Locks
  <1>5. Candidates'
    <2> SUFFICES ASSUME NEW v \in Writers, Saving(v)' PROVE Candidate(v)'
      BY DEF Candidates
    <2>1. Candidate(v) /\ job'[v] = job[v]
      BY <1>1, <1>2 DEF Candidates
    <2> QED  BY <1>2, <2>1 DEF Candidate
  <1>6. FileAgrees'
    BY <1>2 DEF FileAgrees
  <1>7. KeyAgrees'
    <2> SUFFICES ASSUME ~ghost.keyLost PROVE KeyAgrees'
      BY DEF KeyAgrees
    <2>1. ASSUME NEW v \in Writers
          PROVE  /\ job'[v].at = "written" => job'[v].key = keyFile
                 /\ Saving(v)' => CarriedKey(job'[v].next.pass)
                 /\ job'[v] # Idle /\ job'[v].op.kind = "restream" =>
                      CarriedKey(job'[v].op.arg.pass)
      <3>1. CASE v = w
        BY <1>1, <3>1
      <3>2. CASE v # w
        BY <1>2, <3>2 DEF KeyAgrees
      <3> QED  BY <3>1, <3>2
    <2> QED  BY <2>1 DEF KeyAgrees, CarriedKey
  <1> QED  BY <1>3, <1>4, <1>5, <1>6, <1>7

LEMMA MutateCacheInv ==
  ASSUME ConfigInv, NEW w \in Writers, NEW op, NEW stale, Carries(op),
         op.kind \in {"upsert", "alias", "evict"}, MutateCache(w, op, stale)
  PROVE  ConfigInv'
  <1> USE DEF ConfigInv
  <1>1. CASE stale \/ (op.kind # "upsert" /\ CacheChanged(op) = cache)
    BY <1>1, RefusedInv DEF MutateCache
  <1>2. CASE ~(stale \/ (op.kind # "upsert" /\ CacheChanged(op) = cache))
    <2> DEFINE j == Request(op, "cache")
    <2>1. /\ Begin(w, j) /\ cache' = CacheChanged(op)
          /\ UNCHANGED <<memory, disk, cacheDisk, keyFile, saveLock, cacheLock,
                         mutex, gate, ghost>>
      BY <1>2 DEF MutateCache
    <2>2. IsRequest(j) /\ j.at = "cache" /\ j.op = op /\ j.key = None
      <3>1. j = Request(op, "cache")
        OBVIOUS
      <3> HIDE DEF j
      <3> QED  BY <3>1, NewRequest
    <2> HIDE DEF j
    <2>3. WellFormed(j)
      BY <2>2 DEF WellFormed, Route, MemoryFirst, PersistFirst, Commits
    <2>4. /\ Jobs' /\ job[w] = Idle /\ job'[w] = j
          /\ \A v \in Writers : v # w => job'[v] = job[v]
      BY <2>1, <2>3, Begins
    <2>5. job[w].at = "idle" /\ job'[w].at = "cache" /\ CacheToCome'
      BY <2>2, <2>4, IdlePlace DEF CacheToCome
    <2>6. cache' \in Rows
      BY <2>1 DEF CacheChanged, Carries, Rows
    <2>7. \A v \in Writers : cacheLock' = v <=> job'[v].at = "cached"
      BY <2>1, <2>4, <2>5 DEF Locks
    <2>8. CacheAgrees'
      BY <2>5 DEF CacheAgrees
    <2>9. op.kind # "restream"
      OBVIOUS
    <2>10. /\ cacheDisk' \in Rows \cup {Damaged, "absent"} /\ ghost' \in Ghosts
           /\ cacheLock' \in Writers \cup {None}
      BY <2>1 DEF TypeOK
    <2> QED  BY <2>1, <2>2, <2>4, <2>5, <2>6, <2>7, <2>8, <2>9, <2>10, CacheMove
  <1> QED  BY <1>1, <1>2

LEMMA SaveCacheInv ==
  ASSUME ConfigInv, NEW w \in Writers, SaveCache(w)
  PROVE  ConfigInv'
  <1> USE DEF ConfigInv
  <1> DEFINE j == [job[w] EXCEPT !.at = "cached", !.next = cache]
  <1>1. /\ job[w].at = "cache" /\ cacheLock = None /\ cacheLock' = w
        /\ job' = [job EXCEPT ![w].at = "cached", ![w].next = cache]
        /\ UNCHANGED <<memory, cache, disk, cacheDisk, keyFile, saveLock, mutex,
                       gate, used, ghost>>
    BY DEF SaveCache
  <1>2. job' = [job EXCEPT ![w] = j]
    BY <1>1
  <1>3. WellFormed(job[w]) /\ used.writes > 0
    BY <1>1, UnderWay
  <1>4. /\ IsRequest(j) /\ j.at = "cached" /\ j.op = job[w].op /\ j.next = cache
        /\ j.key = job[w].key
    <2>1. job[w] \in [at : {job[w].at}, op : {job[w].op}, next : {job[w].next},
                      key : {job[w].key}]
      BY <1>3 DEF WellFormed, IsRequest
    <2>2. j \in [at : {"cached"}, op : {job[w].op}, next : {cache},
                 key : {job[w].key}]
      BY <2>1, Zenon
    <2> HIDE DEF j
    <2> QED  BY <2>2, RequestFields
  <1> HIDE DEF j
  <1>5. WellFormed(j) /\ j.op.kind # "restream"
    BY <1>1, <1>3, <1>4 DEF WellFormed, Route, TypeOK, Commits
  <1>6. /\ Jobs' /\ job'[w] = j
        /\ \A v \in Writers : v # w => job'[v] = job[v]
    <2>1. used' \in UsedRec /\ used'.writes >= used.writes /\ used'.writes > 0
      BY <1>1, <1>3, ConstantsAssumption DEF Jobs, UsedRec
    <2> QED  BY <1>2, <1>5, <2>1, JobMoves
  <1>7. \A v \in Writers : job[v].at # "cached"
    BY <1>1, Apart DEF Locks
  <1>8. \A v \in Writers : cacheLock' = v <=> job'[v].at = "cached"
    BY <1>1, <1>4, <1>6, <1>7
  <1>9. CacheAgrees'
    BY <1>1, <1>4, <1>6, <1>7, Apart DEF CacheAgrees
  <1>10. /\ cacheDisk' \in Rows \cup {Damaged, "absent"} /\ ghost' \in Ghosts
         /\ cache' \in Rows
    BY <1>1 DEF TypeOK
  <1> QED  BY <1>1, <1>4, <1>5, <1>6, <1>8, <1>9, <1>10, CacheMove

LEMMA WriteCacheInv ==
  ASSUME ConfigInv, NEW w \in Writers, WriteCache(w)
  PROVE  ConfigInv'
  <1> USE DEF ConfigInv
  <1>1. /\ job[w].at = "cached" /\ cacheLock' = None
        /\ job' = [job EXCEPT ![w] = Idle]
        /\ UNCHANGED <<memory, cache, disk, keyFile, saveLock, mutex, gate>>
    BY DEF WriteCache
  <1>2. /\ used' \in UsedRec /\ used'.writes >= used.writes
        /\ ghost' \in Ghosts /\ ghost'.dirty = ghost.dirty
        /\ ghost'.unread = ghost.unread /\ ghost'.keyLost = ghost.keyLost
        /\ (cacheDisk' = job[w].next \/ (ghost'.cacheDirty /\ cacheDisk' = cacheDisk))
    <2>1. used \in UsedRec /\ ghost \in Ghosts
      BY DEF Jobs, UsedRec, TypeOK
    <2>2. CASE /\ cacheDisk' = job[w].next /\ used' = used
               /\ ghost' = [ghost EXCEPT !.cacheDirty = FALSE]
      <3>1. ghost' \in Ghosts
        BY <2>1, <2>2, Zenon DEF Ghosts
      <3> QED  BY <2>1, <2>2, <3>1, ConstantsAssumption DEF Ghosts, UsedRec
    <2>3. CASE /\ Fault /\ cacheDisk' = cacheDisk
               /\ ghost' = [ghost EXCEPT !.cacheDirty = TRUE]
      <3>1. ghost' \in Ghosts
        BY <2>1, <2>3, Zenon DEF Ghosts
      <3>2. used' \in UsedRec /\ used'.writes >= used.writes
        BY <2>1, <2>3, ConstantsAssumption DEF Fault, UsedRec
      <3> QED  BY <2>1, <2>3, <3>1, <3>2 DEF Ghosts
    <2> QED  BY <2>2, <2>3 DEF WriteCache
  <1>3. /\ Jobs' /\ job'[w] = Idle
        /\ \A v \in Writers : v # w => job'[v] = job[v]
    BY <1>1, <1>2, JobMoves
  <1>4. job'[w].at = "idle"
    BY <1>3, IdlePlace
  <1>5. \A v \in Writers : job'[v].at # "cached"
    BY <1>1, <1>3, <1>4 DEF Locks
  <1>6. \A v \in Writers : cacheLock' = v <=> job'[v].at = "cached"
    BY <1>1, <1>5, Apart
  <1>7. job[w].next \in Rows
    BY <1>1, UnderWay DEF WellFormed
  <1>8. CacheToCome' <=> CacheToCome
    BY <1>1, <1>3, <1>4 DEF CacheToCome
  <1>9. CacheAgrees'
    BY <1>1, <1>2, <1>5, <1>8 DEF CacheAgrees
  <1>10. cacheDisk' \in Rows \cup {Damaged, "absent"} /\ cache' \in Rows
    BY <1>1, <1>2, <1>7 DEF TypeOK
  <1> QED  BY <1>1, <1>2, <1>3, <1>4, <1>6, <1>9, <1>10, CacheMove

-----------------------------------------------------------------------------
(***************************************************************************)
(* Launch, crash and the file system                                       *)
(***************************************************************************)

\* A process that has just started holds no lock and has no request.
LEMMA NobodyWrites ==
  ASSUME job = [w \in Writers |-> Idle], used \in UsedRec,
         saveLock = None, cacheLock = None, mutex = None
  PROVE  /\ Jobs /\ Locks /\ Candidates
         /\ ~Unpublished /\ ~SoftSaving /\ ~SaveToCome /\ ~CacheToCome
         /\ \A w \in Writers : job[w] = Idle /\ ~Saving(w) /\ job[w].at = "idle"
  <1>1. \A w \in Writers : job[w] = Idle /\ job[w].at = "idle"
    BY IdlePlace
  <1>2. \A w \in Writers : ~Saving(w)
    BY <1>1 DEF Saving
  <1>3. Jobs
    BY <1>1 DEF Jobs, UsedRec
  <1>4. Locks
    BY <1>1, <1>2, Apart DEF Locks
  <1> QED  BY <1>1, <1>2, <1>3, <1>4
           DEF Candidates, Unpublished, SoftSaving, SaveToCome, CacheToCome

LEMMA RestartInv ==
  ASSUME ConfigInv, Restart
  PROVE  ConfigInv' /\ (disk' \in File => disk' = disk)
  <1> USE DEF ConfigInv
  <1>1. PICK unreadable \in BOOLEAN, noKey \in BOOLEAN, migrates \in BOOLEAN :
          LET One(b) == IF b THEN 1 ELSE 0
              cost == 1 + One(unreadable) + One(noKey) + One(~migrates)
          IN /\ used.faults + cost <= MaxFaults
             /\ used' = [used EXCEPT !.faults = @ + cost]
             /\ Load(unreadable, noKey, migrates)
             /\ saveLock' = None /\ cacheLock' = None /\ mutex' = None /\ gate' = None
             /\ job' = [w \in Writers |-> Idle]
             /\ UNCHANGED keyFile
    BY Zenon DEF Restart
  <1>2. /\ Load(unreadable, noKey, migrates)
        /\ saveLock' = None /\ cacheLock' = None /\ mutex' = None /\ gate' = None
        /\ job' = [w \in Writers |-> Idle] /\ keyFile' = keyFile
    BY <1>1
  <1>3. used' \in UsedRec
    <2>1. used \in UsedRec
      BY DEF Jobs, UsedRec
    <2>2. PICK cost \in 1 .. 4 : /\ used.faults + cost <= MaxFaults
                                 /\ used' = [used EXCEPT !.faults = @ + cost]
      <3> DEFINE One(b) == IF b THEN 1 ELSE 0
                 c == 1 + One(unreadable) + One(noKey) + One(~migrates)
      <3>1. c \in 1 .. 4
        OBVIOUS
      <3> QED  BY <1>1, <3>1
    <2> QED  BY <2>1, <2>2, ConstantsAssumption DEF UsedRec
  <1>4. /\ (Jobs /\ Locks /\ Candidates)'
        /\ (~Unpublished /\ ~SoftSaving /\ ~SaveToCome /\ ~CacheToCome)'
        /\ (\A w \in Writers : job[w] = Idle /\ ~Saving(w) /\ job[w].at = "idle")'
    <2>1. \A w \in Writers : job'[w] = Idle /\ job'[w].at = "idle"
      BY <1>2, IdlePlace
    <2>2. \A w \in Writers : ~Saving(w)'
      BY <2>1 DEF Saving
    <2>3. Jobs'
      BY <1>2, <1>3, <2>1 DEF Jobs, UsedRec
    <2>4. Locks'
      BY <1>2, <2>1, <2>2, Apart DEF Locks
    <2> QED  BY <2>1, <2>2, <2>3, <2>4
             DEF Candidates, Unpublished, SoftSaving, SaveToCome, CacheToCome
  <1> DEFINE read == disk \in File /\ ~unreadable
             key == UsableKey(noKey)
  <1>5. /\ disk \notin {None, Damaged} <=> disk \in File
        /\ disk \in File => Accepts(disk)
    BY Apart DEF TypeOK, PortsApart, Accepts
  <1>6. memory' = IF read THEN Loaded(disk, key) ELSE Defaults
    BY <1>2, <1>5 DEF Load
  <1>7. (disk \in File => disk' = disk) /\ disk' \in {None, disk}
    BY <1>2, <1>5 DEF Load
  <1>8. /\ cache' \in Rows /\ cacheDisk' \in Rows \cup {Damaged, "absent"}
    BY <1>2 DEF Load, Rows
  <1> DEFINE dirty == ~read \/ ~SameFirm(memory', disk) \/ ~SameSoft(memory', disk)
             unread == ~read /\ disk \in File
             stale == cacheDisk' # cache'
  <1>9. ghost' = [ghost EXCEPT !.dirty = dirty, !.cacheDirty = stale,
                               !.unread = unread]
    BY <1>2, <1>5 DEF Load
  <1>10. /\ ghost' \in Ghosts /\ ghost'.dirty = dirty /\ ghost'.unread = unread
         /\ ghost'.cacheDirty = stale /\ ghost'.keyLost = ghost.keyLost
    <2>1. ghost \in Ghosts
      BY DEF TypeOK
    <2>2. dirty \in BOOLEAN /\ unread \in BOOLEAN /\ stale \in BOOLEAN
      OBVIOUS
    <2> HIDE DEF dirty, unread, stale
    <2>3. ghost' \in Ghosts
      BY <1>9, <2>1, <2>2, Zenon DEF Ghosts
    <2> QED  BY <1>9, <2>1, <2>3 DEF Ghosts
  <1>11. /\ memory' \in Settings /\ memory'.udp # memory'.srt
         /\ read => SameFirm(memory', disk)
         /\ memory'.pass.state = "unavailable" =>
              disk \in File /\ disk.pass # None /\ memory'.pass.cipher = disk.pass
    <2> HIDE DEF key
    <2>1. CASE read
      BY <1>5, <1>6, <2>1, LoadedSettings DEF Accepts
    <2>2. CASE ~read
      BY <1>6, <2>2, DefaultsType
    <2> QED  BY <2>1, <2>2
  <1>12. TypeOK'
    BY <1>2, <1>7, <1>8, <1>10, <1>11 DEF TypeOK
  <1>13. PortsApart'
    BY <1>7, <1>11, Apart DEF PortsApart
  <1>14. FileAgrees'
    BY <1>4, <1>7, <1>10, <1>11, Apart DEF FileAgrees
  <1>15. CacheAgrees'
    BY <1>4, <1>10 DEF CacheAgrees
  <1>16. KeyAgrees'
    <2>1. ~ghost.keyLost => CarriedKey(memory.pass)'
      BY <1>2, <1>11 DEF KeyAgrees, CarriedKey
    <2>2. ~ghost.keyLost => (disk' \in File /\ disk'.pass # None => disk'.pass.key = keyFile')
      BY <1>2, <1>7, Apart DEF KeyAgrees
    <2> QED  BY <1>2, <1>4, <1>10, <2>1, <2>2 DEF KeyAgrees
  <1> QED  BY <1>4, <1>7, <1>12, <1>13, <1>14, <1>15, <1>16, Apart

\* What the outside does leaves every request where it is.
LEMMA FaultJobs ==
  ASSUME Jobs, Fault, job' = job
  PROVE  Jobs'
  <1>1. used' \in UsedRec /\ used'.writes = used.writes
    BY ConstantsAssumption DEF Jobs, Fault, UsedRec
  <1> QED  BY <1>1 DEF Jobs, IsRequest, UsedRec

LEMMA KeyLostInv ==
  ASSUME ConfigInv, KeyLost
  PROVE  ConfigInv' /\ disk' = disk
  <1> USE DEF ConfigInv
  <1>1. /\ Fault /\ keyFile' \in {None, Foreign}
        /\ ghost' = [ghost EXCEPT !.keyLost = TRUE]
        /\ UNCHANGED <<memory, cache, disk, cacheDisk, saveLock, cacheLock, mutex,
                       gate, job>>
    BY DEF KeyLost
  <1>2. ghost' \in Ghosts
    BY <1>1, Zenon DEF TypeOK, Ghosts
  <1>3. /\ ghost'.dirty = ghost.dirty /\ ghost'.unread = ghost.unread
        /\ ghost'.keyLost = TRUE /\ ghost'.cacheDirty = ghost.cacheDirty
    BY <1>1 DEF TypeOK, Ghosts
  <1>4. Jobs'
    BY <1>1, FaultJobs
  <1>5. TypeOK' /\ PortsApart' /\ Locks'
    BY <1>1, <1>2 DEF TypeOK, PortsApart, Locks, Saving, KeyFile
  <1>6. Candidates' /\ FileAgrees' /\ CacheAgrees'
    BY <1>1, <1>3 DEF Candidates, Candidate, FileAgrees, CacheAgrees, Saving,
       SaveToCome, CacheToCome, Unpublished, SoftSaving
  <1>7. KeyAgrees'
    BY <1>3 DEF KeyAgrees
  <1> QED  BY <1>1, <1>4, <1>5, <1>6, <1>7

LEMMA DamageInv ==
  ASSUME ConfigInv, Damage
  PROVE  ConfigInv' /\ (disk' \in File => disk' = disk)
  <1> USE DEF ConfigInv
  <1> DEFINE d == ghost.dirty \/ disk' = Damaged
             c == ghost.cacheDirty \/ cacheDisk' = Damaged
  <1>1. /\ Fault /\ ghost' = [ghost EXCEPT !.dirty = d, !.cacheDirty = c]
        /\ \/ disk' = Damaged /\ cacheDisk' = cacheDisk
           \/ disk' = disk /\ cacheDisk' = Damaged
        /\ UNCHANGED <<memory, cache, keyFile, saveLock, cacheLock, mutex, gate, job>>
    BY DEF Damage
  <1>2. /\ ghost' \in Ghosts /\ ghost'.dirty = d /\ ghost'.cacheDirty = c
        /\ ghost'.unread = ghost.unread /\ ghost'.keyLost = ghost.keyLost
    <2>1. ghost \in Ghosts
      BY DEF TypeOK
    <2>2. d \in BOOLEAN /\ c \in BOOLEAN
      BY <2>1 DEF Ghosts
    <2> HIDE DEF d, c
    <2>3. ghost' \in Ghosts
      BY <1>1, <2>1, <2>2, Zenon DEF Ghosts
    <2> QED  BY <1>1, <2>1, <2>3 DEF Ghosts
  <1>3. disk' \in File => disk' = disk
    BY <1>1, Apart
  <1>4. Jobs'
    BY <1>1, FaultJobs
  <1>5. TypeOK' /\ PortsApart' /\ Locks'
    BY <1>1, <1>2, <1>3 DEF TypeOK, PortsApart, Locks, Saving
  <1>6. Candidates'
    BY <1>1, <1>3 DEF Candidates, Candidate, Saving, SaveToCome
  <1>7. FileAgrees'
    <2>1. ~ghost'.dirty => disk' = disk
      BY <1>1, <1>2
    <2> QED  BY <1>1, <1>2, <1>3, <2>1 DEF FileAgrees, Saving, SaveToCome,
               Unpublished, SoftSaving
  <1>8. CacheAgrees'
    <2>1. ~ghost'.cacheDirty => cacheDisk' = cacheDisk
      BY <1>1, <1>2
    <2> QED  BY <1>1, <1>2, <2>1 DEF CacheAgrees, CacheToCome
  <1>9. KeyAgrees'
    BY <1>1, <1>2, <1>3 DEF KeyAgrees, CarriedKey, Saving
  <1> QED  BY <1>3, <1>4, <1>5, <1>6, <1>7, <1>8, <1>9

\* The files of an earlier run.
LEMMA EarlierFile ==
  ASSUME NEW legacy \in BOOLEAN, NEW t \in Secrets, NEW f,
         f = [Persisted([Defaults EXCEPT !.pass = Available(t), !.creds = t,
                                         !.migrated = FALSE], 0)
                EXCEPT !.legacy = legacy]
  PROVE  /\ f \in File /\ f.udp # f.srt
         /\ f.pass # None => f.pass.key = 0
         /\ f.creds # None => f.creds.key = 0
  <1> DEFINE s == [Defaults EXCEPT !.pass = Available(t), !.creds = t,
                                   !.migrated = FALSE]
             g == Persisted(s, 0)
  <1>1. Available(t) \in Passphrase /\ 0 \in Keys /\ t \in {None} \cup Secrets
    BY ConstantsAssumption DEF Passphrase, Keys
  <1>2. Defaults \in Settings /\ Defaults.udp # Defaults.srt
    BY DefaultsType
  <1>3. s \in Settings
    BY <1>1, <1>2, Zenon DEF Settings
  <1>4. s.udp = Defaults.udp /\ s.srt = Defaults.srt /\ s.pass = Available(t)
    BY <1>2 DEF Settings
  <1> HIDE DEF s
  <1>5. /\ g \in File /\ g.udp = s.udp /\ g.srt = s.srt
        /\ g.pass = StoredPass(Available(t), 0)
    BY <1>1, <1>3, <1>4, SavedFile
  <1>6. g.pass # None => g.pass.key = 0
    <2>1. Available(t).state = "available"
      BY DEF Available
    <2> QED  BY <1>1, <1>5, <2>1, StoredPassText
  <1>7. g.creds # None => g.creds.key = 0
    BY DEF Persisted, Cipher
  <1> HIDE DEF g
  <1>8. f = [g EXCEPT !.legacy = legacy]
    BY DEF g, s
  <1>9. f \in File
    BY <1>5, <1>8, Zenon DEF File
  <1>10. f.udp = g.udp /\ f.srt = g.srt /\ f.pass = g.pass /\ f.creds = g.creds
    BY <1>5, <1>8 DEF File
  <1> QED  BY <1>2, <1>4, <1>5, <1>6, <1>7, <1>9, <1>10

LEMMA ConfigInit ==
  ASSUME Init
  PROVE  ConfigInv
  <1>1. used \in UsedRec
    <2>1. used = [writes |-> 0, faults |-> 0]
      BY DEF Init
    <2> QED  BY <2>1, ConstantsAssumption DEF UsedRec
  <1>2. /\ Jobs /\ Locks /\ Candidates
        /\ ~Unpublished /\ ~SoftSaving /\ ~SaveToCome /\ ~CacheToCome
        /\ \A w \in Writers : job[w] = Idle /\ ~Saving(w) /\ job[w].at = "idle"
    BY <1>1, NobodyWrites DEF Init
  <1>3. /\ ghost.dirty = (disk = None) /\ ghost.unread = FALSE
        /\ ghost.cacheDirty = FALSE /\ ghost.keyLost = FALSE
        /\ ghost \in Ghosts
    <2> DEFINE d == disk = None
    <2>1. /\ d \in BOOLEAN
          /\ ghost = [dirty |-> d, cacheDirty |-> FALSE, unread |-> FALSE,
                      keyLost |-> FALSE]
      BY DEF Init
    <2> HIDE DEF d
    <2>2. ghost \in Ghosts
      BY <2>1, Zenon DEF Ghosts
    <2> QED  BY <2>1, <2>2 DEF d
  <1>4. CacheAgrees
    BY <1>2 DEF Init, CacheAgrees
  <1>5. /\ keyFile \in KeyFile
        /\ cache \in Rows /\ cacheDisk \in Rows \cup {Damaged, "absent"}
        /\ {saveLock, cacheLock, mutex, gate} \subseteq Writers \cup {None}
    <2>1. keyFile \in {None, 0}
      BY DEF Init
    <2>2. keyFile \in KeyFile
      BY <2>1, ConstantsAssumption DEF KeyFile, Keys
    <2>3. cache \in Rows /\ cacheDisk \in Rows \cup {Damaged, "absent"}
      BY DEF Init, Rows
    <2> QED  BY <2>2, <2>3 DEF Init
  <1>6. CASE keyFile = None /\ disk = None
    <2>1. memory = Defaults
      BY <1>6 DEF Init
    <2>2. /\ memory \in Settings /\ memory.udp # memory.srt
          /\ memory.pass.state = "unencrypted"
      BY <2>1, DefaultsType
    <2>3. TypeOK /\ PortsApart
      BY <1>3, <1>5, <1>6, <2>2, Apart DEF TypeOK, PortsApart
    <2>4. FileAgrees
      BY <1>3, <1>6, Apart DEF FileAgrees
    <2>5. KeyAgrees
      BY <1>2, <1>5, <1>6, <2>2, Apart DEF KeyAgrees, CarriedKey
    <2> QED  BY <1>2, <1>4, <2>3, <2>4, <2>5 DEF ConfigInv
  <1>7. CASE keyFile = 0 /\ disk # None
    <2>1. PICK legacy \in BOOLEAN, t \in Secrets :
            disk = [Persisted([Defaults EXCEPT !.pass = Available(t), !.creds = t,
                                               !.migrated = FALSE], 0)
                      EXCEPT !.legacy = legacy]
      BY <1>7 DEF Init
    <2>2. /\ disk \in File /\ disk.udp # disk.srt
          /\ disk.pass # None => disk.pass.key = 0
          /\ disk.creds # None => disk.creds.key = 0
      BY <2>1, EarlierFile
    <2>3. memory = Loaded(disk, 0)
      BY <1>7 DEF Init
    <2>4. /\ memory \in Settings /\ SameFirm(memory, disk)
          /\ memory.udp = disk.udp /\ memory.srt = disk.srt
          /\ memory.pass.state = "unavailable" =>
               disk.pass # None /\ memory.pass.cipher = disk.pass
      BY <2>2, <2>3, LoadedSettings
    <2>5. SameSoft(memory, disk)
      <3>1. /\ memory.creds = LoadedCreds(disk.creds, 0)
            /\ memory.muted = disk.muted /\ memory.pin = disk.pin
        BY <2>3 DEF Loaded
      <3> QED  BY <2>2, <3>1 DEF SameSoft, LoadedCreds, Text
    <2>6. TypeOK /\ PortsApart
      BY <1>3, <1>5, <2>2, <2>4 DEF TypeOK, PortsApart
    <2>7. FileAgrees
      BY <1>3, <2>2, <2>4, <2>5 DEF FileAgrees
    <2>8. KeyAgrees
      BY <1>2, <1>5, <1>7, <2>2, <2>4 DEF KeyAgrees, CarriedKey
    <2> QED  BY <1>2, <1>4, <2>6, <2>7, <2>8 DEF ConfigInv
  <1>8. (keyFile = None /\ disk = None) \/ (keyFile = 0 /\ disk # None)
    <2>1. ASSUME NEW legacy \in BOOLEAN, NEW t \in Secrets,
                 disk = [Persisted([Defaults EXCEPT !.pass = Available(t), !.creds = t,
                                                    !.migrated = FALSE], 0)
                           EXCEPT !.legacy = legacy]
          PROVE  disk # None
      BY <2>1, EarlierFile, Apart
    <2> QED  BY <2>1 DEF Init
  <1> QED  BY <1>6, <1>7, <1>8

-----------------------------------------------------------------------------
(***************************************************************************)
(* The theorems                                                            *)
(***************************************************************************)

\* A call brings a request of its kind.
LEMMA CallsInv ==
  ASSUME ConfigInv, NEW w \in Writers, Calls(w)
  PROVE  ConfigInv' /\ disk' = disk
  <1>1. CASE \E c \in {None} \cup Secrets : Mutate(w, [kind |-> "creds", arg |-> c])
    <2>1. PICK c \in {None} \cup Secrets : Mutate(w, [kind |-> "creds", arg |-> c])
      BY <1>1
    <2> DEFINE op == [kind |-> "creds", arg |-> c]
    <2>2. Carries(op) /\ op.kind \in MemoryFirst
      BY DEF Carries, MemoryFirst
    <2> HIDE DEF op
    <2>3. Mutate(w, op)
      BY <2>1 DEF op
    <2> QED  BY <2>2, <2>3, MutateInv DEF Mutate
  <1>2. CASE \E b \in BOOLEAN : Mutate(w, [kind |-> "mute", arg |-> b])
    <2>1. PICK b \in BOOLEAN : Mutate(w, [kind |-> "mute", arg |-> b])
      BY <1>2
    <2> DEFINE op == [kind |-> "mute", arg |-> b]
    <2>2. Carries(op) /\ op.kind \in MemoryFirst
      BY DEF Carries, MemoryFirst
    <2> HIDE DEF op
    <2>3. Mutate(w, op)
      BY <2>1 DEF op
    <2> QED  BY <2>2, <2>3, MutateInv DEF Mutate
  <1>3. CASE \E p \in {Unbound} \cup Macs : Mutate(w, [kind |-> "pin", arg |-> p])
    <2>1. PICK p \in {Unbound} \cup Macs : Mutate(w, [kind |-> "pin", arg |-> p])
      BY <1>3
    <2> DEFINE op == [kind |-> "pin", arg |-> p]
    <2>2. Carries(op) /\ op.kind \in MemoryFirst
      BY DEF Carries, MemoryFirst
    <2> HIDE DEF op
    <2>3. Mutate(w, op)
      BY <2>1 DEF op
    <2> QED  BY <2>2, <2>3, MutateInv DEF Mutate
  <1>4. CASE Mutate(w, [kind |-> "clear", arg |-> 0])
    <2> DEFINE op == [kind |-> "clear", arg |-> 0]
    <2>1. Carries(op) /\ op.kind \in MemoryFirst
      BY DEF Carries, MemoryFirst
    <2> HIDE DEF op
    <2>2. Mutate(w, op)
      BY <1>4 DEF op
    <2> QED  BY <2>1, <2>2, MutateInv DEF Mutate
  <1>5. CASE \E p \in Ports \cup {0}, b \in BOOLEAN :
               Change(w, [kind |-> "stream", arg |-> <<p, b>>], FALSE)
    <2>1. PICK p \in Ports \cup {0}, b \in BOOLEAN :
                 Change(w, [kind |-> "stream", arg |-> <<p, b>>], FALSE)
      BY <1>5
    <2> DEFINE op == [kind |-> "stream", arg |-> <<p, b>>]
    <2>2. Carries(op) /\ op.kind \in PersistFirst
      BY DEF Carries, PersistFirst
    <2> HIDE DEF op
    <2>3. Change(w, op, FALSE)
      BY <2>1 DEF op
    <2> QED  BY <2>2, <2>3, ChangeInv DEF Change
  <1>6. CASE Change(w, [kind |-> "migrate", arg |-> 0], FALSE)
    <2> DEFINE op == [kind |-> "migrate", arg |-> 0]
    <2>1. Carries(op) /\ op.kind \in PersistFirst
      BY DEF Carries, PersistFirst
    <2> HIDE DEF op
    <2>2. Change(w, op, FALSE)
      BY <1>6 DEF op
    <2> QED  BY <2>1, <2>2, ChangeInv DEF Change
  <1>7. CASE \E m \in Macs, stale \in BOOLEAN :
               Change(w, [kind |-> "bind", arg |-> m], stale)
    <2>1. PICK m \in Macs, stale \in BOOLEAN :
                 Change(w, [kind |-> "bind", arg |-> m], stale)
      BY <1>7
    <2> DEFINE op == [kind |-> "bind", arg |-> m]
    <2>2. Carries(op) /\ op.kind \in PersistFirst
      BY DEF Carries, PersistFirst
    <2> HIDE DEF op
    <2>3. Change(w, op, stale)
      BY <2>1 DEF op
    <2> QED  BY <2>2, <2>3, ChangeInv DEF Change
  <1>8. CASE \E p \in {Unbound} \cup Macs :
               Change(w, [kind |-> "unpin", arg |-> p], FALSE)
    <2>1. PICK p \in {Unbound} \cup Macs :
                 Change(w, [kind |-> "unpin", arg |-> p], FALSE)
      BY <1>8
    <2> DEFINE op == [kind |-> "unpin", arg |-> p]
    <2>2. Carries(op) /\ op.kind \in PersistFirst
      BY DEF Carries, PersistFirst
    <2> HIDE DEF op
    <2>3. Change(w, op, FALSE)
      BY <2>1 DEF op
    <2> QED  BY <2>2, <2>3, ChangeInv DEF Change
  <1>9. CASE \E kind \in Commits : Rebase(w, kind)
    BY <1>9, RebaseInv DEF Rebase
  <1>10. CASE \E stale \in BOOLEAN : MutateCache(w, [kind |-> "upsert", arg |-> "new"], stale)
    <2>1. PICK stale \in BOOLEAN : MutateCache(w, [kind |-> "upsert", arg |-> "new"], stale)
      BY <1>10
    <2> DEFINE op == [kind |-> "upsert", arg |-> "new"]
    <2>2. Carries(op) /\ op.kind \in {"upsert", "alias", "evict"}
      BY DEF Carries
    <2> HIDE DEF op
    <2>3. MutateCache(w, op, stale)
      BY <2>1 DEF op
    <2> QED  BY <2>2, <2>3, MutateCacheInv DEF MutateCache
  <1>11. CASE MutateCache(w, [kind |-> "alias", arg |-> "old"], FALSE)
    <2> DEFINE op == [kind |-> "alias", arg |-> "old"]
    <2>1. Carries(op) /\ op.kind \in {"upsert", "alias", "evict"}
      BY DEF Carries
    <2> HIDE DEF op
    <2>2. MutateCache(w, op, FALSE)
      BY <1>11 DEF op
    <2> QED  BY <2>1, <2>2, MutateCacheInv DEF MutateCache
  <1>12. CASE MutateCache(w, [kind |-> "evict", arg |-> 0], FALSE)
    <2> DEFINE op == [kind |-> "evict", arg |-> 0]
    <2>1. Carries(op) /\ op.kind \in {"upsert", "alias", "evict"}
      BY DEF Carries
    <2> HIDE DEF op
    <2>2. MutateCache(w, op, FALSE)
      BY <1>12 DEF op
    <2> QED  BY <2>1, <2>2, MutateCacheInv DEF MutateCache
  <1> QED  BY <1>1, <1>2, <1>3, <1>4, <1>5, <1>6, <1>7, <1>8, <1>9, <1>10, <1>11,
              <1>12, Zenon DEF Calls

\* Every step keeps the invariant and the stored passphrase.
LEMMA ConfigStep ==
  ASSUME ConfigInv, [Next]_vars
  PROVE  ConfigInv' /\ PassphraseKept
  <1>1. ASSUME disk' \in File => disk' = disk
        PROVE  PassphraseKept
    BY <1>1 DEF PassphraseKept
  <1>2. ASSUME NEW w \in Writers, Calls(w)
        PROVE  ConfigInv' /\ PassphraseKept
    BY <1>1, <1>2, CallsInv
  <1>3. ASSUME NEW w \in Writers, Steps(w)
        PROVE  ConfigInv' /\ PassphraseKept
    <2>1. CASE Save(w)
      BY <1>1, <2>1, SaveInv DEF Save
    <2>2. CASE Commit(w)
      BY <1>1, <2>2, CommitInv DEF Commit
    <2>3. CASE TakeKey(w)
      BY <1>1, <2>3, TakeKeyInv DEF TakeKey
    <2>4. CASE SaveFails(w)
      BY <1>1, <2>4, SaveFailsInv DEF SaveFails
    <2>5. CASE Write(w)
      BY <2>5, WriteInv
    <2>6. CASE Publish(w)
      BY <1>1, <2>6, PublishInv DEF Publish
    <2>7. CASE SaveCache(w)
      BY <1>1, <2>7, SaveCacheInv DEF SaveCache
    <2>8. CASE WriteCache(w)
      BY <1>1, <2>8, WriteCacheInv DEF WriteCache
    <2> QED  BY <1>3, <2>1, <2>2, <2>3, <2>4, <2>5, <2>6, <2>7, <2>8 DEF Steps
  <1>4. CASE Restart
    BY <1>1, <1>4, RestartInv
  <1>5. CASE KeyLost
    BY <1>1, <1>5, KeyLostInv
  <1>6. CASE Damage
    BY <1>1, <1>6, DamageInv
  <1>7. CASE UNCHANGED vars
    <2>1. /\ UNCHANGED <<memory, cache, disk, cacheDisk, keyFile, saveLock>>
          /\ UNCHANGED <<cacheLock, mutex, gate, job, used, ghost>>
      BY <1>7 DEF vars
    <2>2. TypeOK' /\ Jobs' /\ Locks' /\ PortsApart'
      BY <2>1 DEF ConfigInv, TypeOK, Jobs, IsRequest, Locks, Saving, PortsApart
    <2>3. Candidates' /\ FileAgrees' /\ CacheAgrees'
      BY <2>1 DEF ConfigInv, Candidates, Candidate, FileAgrees, CacheAgrees, Saving,
         SaveToCome, CacheToCome, Unpublished, SoftSaving
    <2>4. KeyAgrees'
      BY <2>1 DEF ConfigInv, KeyAgrees, CarriedKey, Saving
    <2> QED  BY <1>1, <2>1, <2>2, <2>3, <2>4 DEF ConfigInv
  <1> QED  BY <1>2, <1>3, <1>4, <1>5, <1>6, <1>7 DEF Next

\* The inductive invariant of the settings, the cache and their files.
THEOREM ConfigInvariant == Spec => []ConfigInv
  <1>1. Init => ConfigInv
    BY ConfigInit
  <1>2. ConfigInv /\ [Next]_vars => ConfigInv'
    BY ConfigStep
  <1> QED  BY <1>1, <1>2, PTL DEF Spec

\* For any number of writers, ports, secrets, operations and faults, memory
\* and the two files are one truth that a launch accepts: whatever clones and
\* saves interleave, once every writer is done the files hold what memory
\* holds, the persist-first groups agree whenever the save lock is free, and
\* no save combines two ports that exclude each other.
THEOREM SettingsTrueAlways == Spec => []SettingsTrue
  <1>1. ConfigInv => SettingsTrue
    <2> SUFFICES ASSUME ConfigInv PROVE SettingsTrue
      OBVIOUS
    <2> USE DEF ConfigInv
    <2>1. ASSUME saveLock = None
          PROVE  (\A w \in Writers : ~Saving(w)) /\ ~Unpublished /\ ~SoftSaving
      BY <2>1, Apart DEF Locks, Saving, Unpublished, SoftSaving
    <2>2. Settled
      <3> SUFFICES ASSUME Quiet
                   PROVE  /\ ~ghost.dirty => SameFirm(memory, disk) /\ SameSoft(memory, disk)
                          /\ ~ghost.cacheDirty =>
                               cacheDisk = cache \/ (cacheDisk = "absent" /\ cache = None)
        BY DEF Settled
      <3>1. \A w \in Writers : job[w].at = "idle"
        BY IdlePlace DEF Quiet
      <3>2. saveLock = None /\ cacheLock = None /\ ~SaveToCome /\ ~CacheToCome
        BY <3>1 DEF Locks, TypeOK, Saving, SaveToCome, CacheToCome
      <3> QED  BY <2>1, <3>2 DEF FileAgrees, CacheAgrees
    <2>3. FirmAgrees
      BY <2>1 DEF FirmAgrees, FileAgrees, TypeOK
    <2> QED  BY <2>2, <2>3 DEF SettingsTrue
  <1> QED  BY <1>1, ConfigInvariant, PTL

\* No save, load, crash, failed write or lost key costs the user the stored
\* passphrase: it changes only by a re-stream commit that carries another one,
\* and while the key file is left alone it is stored under that key.
THEOREM SecretKeptAlways == Spec => SecretKept
  <1>1. ConfigInv /\ ConfigInv' /\ [Next]_vars =>
          [(disk \in File /\ disk' \in File /\ ~ghost.unread) =>
             /\ Text(disk.pass) # Text(disk'.pass) =>
                  \E w \in Writers : /\ job[w] # Idle /\ job[w].op.kind = "restream"
                                     /\ Text(disk'.pass) = PassText(job[w].op.arg.pass)
             /\ (disk'.pass # None /\ ~ghost'.keyLost) => disk'.pass.key = keyFile']_vars
    <2> SUFFICES ASSUME ConfigInv, ConfigInv', [Next]_vars,
                        disk \in File, disk' \in File, ~ghost.unread
                 PROVE  /\ Text(disk.pass) # Text(disk'.pass) =>
                             \E w \in Writers : /\ job[w] # Idle /\ job[w].op.kind = "restream"
                                                /\ Text(disk'.pass) = PassText(job[w].op.arg.pass)
                        /\ (disk'.pass # None /\ ~ghost'.keyLost) => disk'.pass.key = keyFile'
      OBVIOUS
    <2>1. PassphraseKept
      BY ConfigStep
    <2>2. (disk'.pass # None /\ ~ghost'.keyLost) => disk'.pass.key = keyFile'
      BY DEF ConfigInv, KeyAgrees
    <2> QED  BY <2>1, <2>2 DEF PassphraseKept
  <1> QED  BY <1>1, ConfigInvariant, PTL DEF Spec, SecretKept
=============================================================================
