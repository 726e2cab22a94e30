------------------------------- MODULE Password -------------------------------
(***************************************************************************)
(* crypto/crypto.go: PBKDF2, and the passwords whose keys it derives, made *)
(* and validated while the settings of the package change.  A block of     *)
(* PBKDF2 is a step, and so is a turn of its inner loop.                   *)
(*                                                                         *)
(* The j-th byte of the k-th HMAC of block i is the term <<i, k, j>>; the  *)
(* XOR of bytes is a set of them, each twice or never.  The number of a    *)
(* block fits into the four bytes it is hashed as.                         *)
(***************************************************************************)
EXTENDS Integers, SequencesExt, FiniteSetsExt

CONSTANTS
  Secrets,
  Digest,        \* of each hash function the length of its digests
  Iterations,    \* what SetPasswordIterations may be given
  Lengths,       \* what SetPasswordKeyLength may be given
  MaxSettings    \* bounds the calls of the setters

\* A length below 0 is none that a slice can be made of.
ASSUME PasswordAssumption ==
  /\ \A h \in DOMAIN Digest : Digest[h] \in Nat \ {0}
  /\ Iterations \subseteq Int
  /\ Lengths \subseteq Nat

VARIABLES
  settings,      \* [hash, iterations, length]
  changes,       \* how many calls there were of a setter
  password,      \* [iterations, key, length], or none yet
  origin,        \* the secret and the hash function of the password
  job,           \* the call of PBKDF2: [secret, hash, iterations, length]
  passStage,     \* "idle", "block", "rounds"
  block, round,  \* i and k of PBKDF2
  slice,         \* where the block is written to, from slice + 1 on
  derived,       \* the key
  verdict        \* of the last validation: [secret, hash, valid], or none

passVars == <<settings, changes, password, origin, job, passStage, block, round, slice, derived,
              verdict>>

Absent == <<>>

PassInit ==
  /\ settings \in [hash : DOMAIN Digest, iterations : Iterations, length : Lengths]
  /\ changes = 0
  /\ password = Absent /\ origin = Absent /\ job = Absent /\ passStage = "idle"
  /\ block = 0 /\ round = 0 /\ slice = 0 /\ derived = <<>> /\ verdict = Absent

\* SetPasswordHashFunc, SetPasswordIterations, SetPasswordKeyLength
Configure ==
  /\ passStage = "idle" /\ changes < MaxSettings
  /\ \/ \E h \in DOMAIN Digest : settings' = [settings EXCEPT !.hash = h]
     \/ \E n \in Iterations : settings' = [settings EXCEPT !.iterations = n]
     \/ \E n \in Lengths : settings' = [settings EXCEPT !.length = n]
  /\ changes' = changes + 1
  /\ UNCHANGED <<password, origin, job, passStage, block, round, slice, derived, verdict>>

Derive(secret, hash, iterations, length) ==
  /\ job' = [secret |-> secret, hash |-> hash, iterations |-> iterations, length |-> length]
  /\ passStage' = "block"
  /\ block' = 0 /\ round' = 0 /\ slice' = 0
  /\ derived' = [cell \in 1..length |-> {}]
  /\ UNCHANGED <<settings, changes, password>>

\* NewPassword
New(secret) ==
  /\ passStage = "idle" /\ password = Absent
  /\ Derive(secret, settings.hash, settings.iterations, settings.length)
  /\ origin' = [secret |-> secret, hash |-> settings.hash]
  /\ UNCHANGED verdict

\* Slip: the key is as long as new passwords have it.
ValidateNow(secret) ==
  /\ passStage = "idle" /\ password # Absent /\ verdict = Absent
  /\ Derive(secret, settings.hash, settings.iterations, settings.length)
  /\ UNCHANGED <<origin, verdict>>

Validate(secret) ==
  /\ passStage = "idle" /\ password # Absent /\ verdict = Absent
  /\ Derive(secret, settings.hash, password.iterations, password.length)
  /\ UNCHANGED <<origin, verdict>>

BlockLength == Min({Digest[job.hash], job.length - slice})

\* slice[j] ^= digest[j], or = for the first of a block
Mix(b, r) ==
  derived' = [cell \in DOMAIN derived |->
                IF cell \in slice + 1..slice + BlockLength
                THEN SymDiff(derived[cell], {<<b, r, cell - slice>>}) ELSE derived[cell]]

Block ==
  /\ passStage = "block" /\ slice < job.length
  /\ block' = block + 1
  /\ round' = 1
  /\ Mix(block + 1, 0)
  /\ passStage' = "rounds"
  /\ UNCHANGED <<settings, changes, password, origin, job, slice, verdict>>

\* Slip: one round more than iterations says.
OneMore == round <= job.iterations

More == round < job.iterations

Round ==
  /\ passStage = "rounds" /\ More
  /\ Mix(block, round)
  /\ round' = round + 1
  /\ UNCHANGED <<settings, changes, password, origin, job, passStage, block, slice, verdict>>

EndRounds ==
  /\ passStage = "rounds" /\ ~ More
  /\ slice' = slice + BlockLength
  /\ passStage' = "block"
  /\ UNCHANGED <<settings, changes, password, origin, job, block, round, derived, verdict>>

\* PBKDF2 returns, to NewPassword or to ValidateWithHashFunc, which compares the keys: two
\* are equal when they are equal byte by byte, of one secret under one hash function.
Return ==
  /\ passStage = "block" /\ slice = job.length
  /\ passStage' = "idle"
  /\ IF password = Absent
     THEN /\ password' = [iterations |-> job.iterations, key |-> derived, length |-> job.length]
          /\ UNCHANGED verdict
     ELSE /\ verdict' = [secret |-> job.secret, hash |-> job.hash,
                         valid |-> /\ derived = password.key
                                   /\ derived = <<>> \/ ( /\ job.secret = origin.secret
                                                          /\ job.hash = origin.hash)]
          /\ UNCHANGED password
  /\ UNCHANGED <<settings, changes, origin, job, block, round, slice, derived>>

PassNext == \/ Configure \/ Block \/ Round \/ EndRounds \/ Return
            \/ \E secret \in Secrets : New(secret) \/ Validate(secret)

PassSpec == PassInit /\ [][PassNext]_passVars

----------------------------------------------------------------------------
(* Properties *)

\* RFC 2898: byte j of the key, in block b, is the XOR of that byte of the c HMACs of the block.
Standard(hash, iterations, j) ==
  LET b == (j - 1) \div Digest[hash]
  IN  {<<b + 1, c, j - (b * Digest[hash])>> : c \in 0..Max({1, iterations}) - 1}

\* PBKDF2 returns the key that RFC 2898 defines, in full, whatever the length of the key and
\* of the digest.
KeyStandard ==
  passStage = "block" /\ slice = job.length =>
    derived = [j \in 1..job.length |-> Standard(job.hash, job.iterations, j)]

\* A password keeps what its key was derived with: its secret validates after any change of
\* the settings but the hash function, and no other secret does, unless the key is empty.
Validates ==
  verdict # Absent =>
    (verdict.valid <=> \/ password.key = <<>>
                       \/ verdict.secret = origin.secret /\ verdict.hash = origin.hash)
=============================================================================
