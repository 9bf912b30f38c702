-------------------------- MODULE CertificateManager ------------------------
(***************************************************************************)
(* common/tls/tlsgen.go: the cache of certificates.                        *)
(*                                                                         *)
(* Goroutines (Callers) ask for the certificate of a server name, which    *)
(* is looked up, made and kept, or renewed, and load a pair from the       *)
(* output files.  A key pair is a number; name and age say for whom it is  *)
(* and how old: fresh, due (within renewBefore of its end) or expired.     *)
(* mu is the manager's lock when it is held beyond a step.  certFile and   *)
(* keyFile are the pairs whose halves the two output files hold, 0 none.    *)
(*                                                                         *)
(* MaxKeys bounds the key pairs made, MaxAge (1: due, 2: expired) how far  *)
(* time goes.                                                              *)
(***************************************************************************)
EXTENDS Integers

CONSTANTS Callers, Names, NoName, Free, MaxKeys, MaxAge, AutoRenew, HasOutputDir

\* What is assumed of the constants.
CertificateAssumption ==
  /\ MaxKeys \in Nat /\ MaxAge \in 0 .. 2 /\ AutoRenew \in BOOLEAN /\ HasOutputDir \in BOOLEAN
  /\ NoName \notin Names /\ Free \notin Callers

VARIABLES mu, certs, made, name, age, certFile, keyFile, pc, want, key, got
files == <<certFile, keyFile>>
vars == <<mu, certs, made, name, age, files, pc, want, key, got>>

Keys == 1 .. MaxKeys
Due == 1
Expired == 2

\* NewCertificateManager
Init ==
  /\ mu = Free /\ certs = [n \in Names |-> 0]
  /\ made = 0 /\ name = [k \in Keys |-> NoName] /\ age = [k \in Keys |-> 0]
  /\ certFile = 0 /\ keyFile = 0
  /\ pc = [c \in Callers |-> "idle"] /\ want = [c \in Callers |-> NoName]
  /\ key = [c \in Callers |-> 0] /\ got = [c \in Callers |-> 0]

Goto(c, from, to) == pc[c] = from /\ pc' = [pc EXCEPT ![c] = to]

\* GetCertificate: the look-up, under the read lock, and the test of the expiry
GetCertificate(c, n) ==
  /\ pc[c] = "idle" /\ mu = Free
  /\ want' = [want EXCEPT ![c] = n]
  /\ LET k == certs[n]
     IN /\ pc' = [pc EXCEPT ![c] = IF k = 0 THEN "generate"
                                   ELSE IF age[k] < Expired THEN "returned"
                                   ELSE IF AutoRenew THEN "renew" ELSE "failed"]
        /\ got' = [got EXCEPT ![c] = IF k # 0 /\ age[k] < Expired THEN k ELSE 0]
  /\ UNCHANGED <<mu, certs, made, name, age, files, key>>

\* GenerateCertificate: the key pair, made without the lock
Generate(c) ==
  /\ pc[c] \in {"generate", "renewing"} /\ made < MaxKeys
  /\ made' = made + 1
  /\ key' = [key EXCEPT ![c] = made + 1]
  /\ name' = [name EXCEPT ![made + 1] = want[c]]
  /\ pc' = [pc EXCEPT ![c] = IF pc[c] = "generate" THEN "store" ELSE "restore"]
  /\ UNCHANGED <<mu, certs, age, files, want, got>>

\* ... or an error: a key type that is not known, no randomness, a key that does
\* not fit the CA's; renewCertificate unlocks as it returns it
GenerateFails(c) ==
  /\ pc[c] \in {"generate", "renewing"}
  /\ pc' = [pc EXCEPT ![c] = "failed"]
  /\ mu' = IF pc[c] = "renewing" THEN Free ELSE mu
  /\ UNCHANGED <<certs, made, name, age, files, want, key, got>>

\* GenerateCertificate: into the map, under the lock, which renewCertificate holds
Store(c) ==
  /\ pc[c] \in {"store", "restore"} /\ mu = Free
  /\ certs' = [certs EXCEPT ![want[c]] = key[c]]
  /\ pc' = [pc EXCEPT ![c] = IF HasOutputDir THEN "saveCert" ELSE "return"]
  /\ UNCHANGED <<mu, made, name, age, files, want, key, got>>

\* saveToFile: one file and then the other, without the lock
SaveCert(c) ==
  /\ Goto(c, "saveCert", "saveKey")
  /\ certFile' = key[c]
  /\ UNCHANGED <<mu, certs, made, name, age, keyFile, want, key, got>>

SaveKey(c) ==
  /\ Goto(c, "saveKey", "return")
  /\ keyFile' = key[c]
  /\ UNCHANGED <<mu, certs, made, name, age, certFile, want, key, got>>

\* os.WriteFile fails, before or after it has cut the file: the error ends
\* saveToFile, and GenerateCertificate drops it
SaveCertFails(c) ==
  /\ Goto(c, "saveCert", "return")
  /\ certFile' \in {certFile, 0}
  /\ UNCHANGED <<mu, certs, made, name, age, keyFile, want, key, got>>

SaveKeyFails(c) ==
  /\ Goto(c, "saveKey", "return")
  /\ keyFile' \in {keyFile, 0}
  /\ UNCHANGED <<mu, certs, made, name, age, certFile, want, key, got>>

Return(c) ==
  /\ Goto(c, "return", "returned")
  /\ got' = [got EXCEPT ![c] = key[c]]
  /\ UNCHANGED <<mu, certs, made, name, age, files, want, key>>

\* renewCertificate: the lock, for the whole of it; the map never loses a name
Renew(c) ==
  /\ Goto(c, "renew", "renewing")
  /\ mu = Free
  /\ mu' = c
  /\ UNCHANGED <<certs, made, name, age, files, want, key, got>>

\* LoadFromFile: the certificate file ...
LoadCert(c) ==
  /\ pc[c] = "idle" /\ certFile # 0
  /\ pc' = [pc EXCEPT ![c] = "loadKey"]
  /\ key' = [key EXCEPT ![c] = certFile]
  /\ UNCHANGED <<mu, certs, made, name, age, files, want, got>>

\* Mutant: the halves are not compared, and the pair is kept under another name.
LoadKey_Unchecked(c) ==
  /\ Goto(c, "loadKey", "returned")
  /\ mu = Free
  /\ \E n \in Names : certs' = [certs EXCEPT ![n] = key[c]]
  /\ got' = [got EXCEPT ![c] = key[c]]
  /\ UNCHANGED <<mu, made, name, age, files, want, key>>

\* ... and the key file; a pair that fits is kept under the name in it
LoadKey(c) ==
  /\ pc[c] = "loadKey" /\ mu = Free
  /\ IF keyFile = key[c]
     THEN /\ certs' = [certs EXCEPT ![name[key[c]]] = key[c]]
          /\ want' = [want EXCEPT ![c] = name[key[c]]]
          /\ got' = [got EXCEPT ![c] = key[c]]
          /\ pc' = [pc EXCEPT ![c] = "returned"]
     ELSE /\ pc' = [pc EXCEPT ![c] = "failed"]
          /\ UNCHANGED <<certs, want, got>>
  /\ UNCHANGED <<mu, made, name, age, files, key>>

\* The caller uses what it got and may ask again.
Again(c) ==
  /\ pc[c] \in {"returned", "failed"}
  /\ pc' = [pc EXCEPT ![c] = "idle"] /\ got' = [got EXCEPT ![c] = 0] /\ key' = [key EXCEPT ![c] = 0]
  /\ want' = [want EXCEPT ![c] = NoName]
  /\ UNCHANGED <<mu, certs, made, name, age, files>>

\* Time passes.
Age(k) ==
  /\ k <= made /\ age[k] < MaxAge
  /\ age' = [age EXCEPT ![k] = @ + 1]
  /\ UNCHANGED <<mu, certs, made, name, files, pc, want, key, got>>

CallStep(c) ==
  \/ Generate(c) \/ GenerateFails(c) \/ Store(c)
  \/ SaveCert(c) \/ SaveCertFails(c) \/ SaveKey(c) \/ SaveKeyFails(c)
  \/ Return(c) \/ Renew(c) \/ LoadKey(c)

Next ==
  \/ \E c \in Callers : CallStep(c) \/ LoadCert(c) \/ Again(c) \/ \E n \in Names : GetCertificate(c, n)
  \/ \E k \in Keys : Age(k)

Spec == Init /\ [][Next]_vars

\* A call that can go on does.
Fairness == \A c \in Callers : WF_vars(CallStep(c))

-----------------------------------------------------------------------------
\* Type invariant: a held lock is the lock of a renewal that has got it.
TypeOK ==
  /\ certs \in [Names -> 0 .. made] /\ age \in [Keys -> 0 .. MaxAge]
  /\ certFile \in 0 .. made /\ keyFile \in 0 .. made
  /\ \A c \in Callers : mu = c <=> pc[c] \in {"renewing", "restore"}

\* The map gives every name a certificate for that name, and so does
\* GetCertificate, whatever is generated and loaded from files at the same time.
NamesMatch ==
  /\ \A n \in Names : certs[n] # 0 => name[certs[n]] = n
  /\ \A c \in Callers : (pc[c] = "returned" /\ got[c] # 0) => name[got[c]] = want[c]

\* A caller that had nothing cached and made a pair gets it, whoever else asks,
\* loads and writes files, unless a renewal is at work: renewCertificate waits
\* for the lock that it holds, and everyone waits for it.
GetReturns == \A c \in Callers :
  pc[c] = "store" ~> (pc[c] = "returned" \/ \E r \in Callers : pc[r] \in {"renewing", "restore"})
=============================================================================
