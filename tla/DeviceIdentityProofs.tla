------------------------ MODULE DeviceIdentityProofs ------------------------
(***************************************************************************)
(* Proofs about DeviceIdentity for every set of families, installations,   *)
(* keys and handlers, every clock drift and every time to live.            *)
(***************************************************************************)
EXTENDS DeviceIdentity, FiniteSetTheorems, SequenceTheorems, TLAPS

-----------------------------------------------------------------------------
(* Type correctness *)

\* What a row or a request refers to exists.
References ==
    /\ \A d \in DOMAIN devices : devices[d].challenge \in DOMAIN challenges
    /\ \A c \in DOMAIN credentials : credentials[c].device \in DOMAIN devices
    /\ \A r \in DOMAIN requests :
          /\ requests[r].credential \in DOMAIN credentials
          /\ requests[r].op = "ROTATE" =>
                requests[r].key \in Keys /\ requests[r].idempotency \in IdempotencyKeys
    /\ \A x \in rotations : x.old \in DOMAIN credentials /\ x.new \in DOMAIN credentials

WellFormed == TypeOK /\ References

LEMMA ConstantsTyped ==
    /\ MAX_CLOCK_SKEW_SECONDS \in Nat /\ MAX_PAIRING_ATTEMPTS \in Nat /\ PAIRING_TTL \in Nat
    /\ CREDENTIAL_TTL \in Nat /\ ROTATION_GRACE \in Nat /\ MaxTime \in Nat
    /\ Second \in Nat /\ Second > 0
    /\ \A drift \in Drift : drift \in Int
  BY IdentityConstants

\* The tables are sequences, and positions in them numbers.
LEMMA Tables ==
    ASSUME TypeOK
    PROVE  /\ now \in Nat
           /\ DOMAIN challenges = 1..Len(challenges) /\ Len(challenges) \in Nat
           /\ DOMAIN devices = 1..Len(devices) /\ Len(devices) \in Nat
           /\ DOMAIN credentials = 1..Len(credentials) /\ Len(credentials) \in Nat
           /\ DOMAIN requests = 1..Len(requests) /\ Len(requests) \in Nat
           /\ \A c \in DOMAIN challenges : challenges[c] \in Challenge
           /\ \A d \in DOMAIN devices : devices[d] \in Device
           /\ \A c \in DOMAIN credentials : credentials[c] \in Credential
           /\ \A r \in DOMAIN requests : requests[r] \in SignedRequest
  BY ConstantsTyped DEF TypeOK

LEMMA CredentialsRevoked ==
    ASSUME TypeOK, NEW d
    PROVE  /\ RevokeCredentials(d) \in Seq(Credential)
           /\ Len(RevokeCredentials(d)) = Len(credentials)
           /\ \A c \in DOMAIN credentials :
                 /\ RevokeCredentials(d)[c].device = credentials[c].device
                 /\ RevokeCredentials(d)[c].key = credentials[c].key
                 /\ credentials[c].device = d => RevokeCredentials(d)[c].status = "REVOKED"
                 /\ credentials[c].device # d \/ credentials[c].status = "REVOKED" =>
                       RevokeCredentials(d)[c] = credentials[c]
  <1>1. \A c \in DOMAIN credentials : credentials[c] \in Credential
    BY Tables
  <1>2. \A c \in DOMAIN credentials :
           /\ RevokeCredentials(d)[c] \in Credential
           /\ RevokeCredentials(d)[c].device = credentials[c].device
           /\ RevokeCredentials(d)[c].key = credentials[c].key
           /\ credentials[c].device = d => RevokeCredentials(d)[c].status = "REVOKED"
           /\ credentials[c].device # d \/ credentials[c].status = "REVOKED" =>
                 RevokeCredentials(d)[c] = credentials[c]
    BY <1>1 DEF RevokeCredentials, Credential
  <1>3. RevokeCredentials(d) \in [1..Len(credentials) -> Credential]
    BY <1>2, Tables DEF RevokeCredentials
  <1> QED BY <1>2, <1>3, Tables, SeqDef

LEMMA DeviceRevoked ==
    ASSUME TypeOK, NEW d \in DOMAIN devices
    PROVE  /\ RevokeDevice(d) \in Seq(Device)
           /\ Len(RevokeDevice(d)) = Len(devices)
           /\ \A e \in DOMAIN devices :
                 /\ RevokeDevice(d)[e].family = devices[e].family
                 /\ RevokeDevice(d)[e].challenge = devices[e].challenge
                 /\ RevokeDevice(d)[e].revoked = (devices[e].revoked \/ e = d)
                 /\ e # d \/ devices[e].revoked => RevokeDevice(d)[e] = devices[e]
  <1>1. \A e \in DOMAIN devices : devices[e] \in Device
    BY Tables
  <1>2. \A e \in DOMAIN devices :
           RevokeDevice(d)[e] = IF e = d THEN [devices[e] EXCEPT !.revoked = TRUE] ELSE devices[e]
    BY DEF RevokeDevice
  <1>3. \A e \in DOMAIN devices :
           /\ RevokeDevice(d)[e] \in Device
           /\ RevokeDevice(d)[e].family = devices[e].family
           /\ RevokeDevice(d)[e].challenge = devices[e].challenge
           /\ RevokeDevice(d)[e].revoked = (devices[e].revoked \/ e = d)
    BY <1>1, <1>2 DEF Device
  <1>5. ASSUME NEW e \in DOMAIN devices, e # d \/ devices[e].revoked
        PROVE  RevokeDevice(d)[e] = devices[e]
    <2>1. CASE e # d
      BY <1>2, <2>1
    <2>2. CASE e = d
      <3>1. devices[e].revoked = TRUE /\ devices[e] \in Device
        BY <1>1, <1>5, <2>2 DEF Device
      <3>2. [devices[e] EXCEPT !.revoked = TRUE] = devices[e]
        BY <3>1 DEF Device
      <3> QED BY <1>2, <2>2, <3>2
    <2> QED BY <2>1, <2>2
  <1>4. RevokeDevice(d) \in [1..Len(devices) -> Device]
    BY <1>3, Tables DEF RevokeDevice
  <1> QED BY <1>3, <1>4, <1>5, Tables, SeqDef

\* Pairing an installation again leaves all but the device it was, and its credentials.
LEMMA PreviousRevoked ==
    ASSUME WellFormed, NEW i \in Installations
    PROVE  /\ RevokePrevious(i)[1] \in Seq(Device)
           /\ RevokePrevious(i)[2] \in Seq(Credential)
           /\ Len(RevokePrevious(i)[1]) = Len(devices)
           /\ Len(RevokePrevious(i)[2]) = Len(credentials)
           /\ \A e \in DOMAIN devices :
                 /\ RevokePrevious(i)[1][e].family = devices[e].family
                 /\ RevokePrevious(i)[1][e].challenge = devices[e].challenge
                 /\ RevokePrevious(i)[1][e].revoked = (devices[e].revoked \/ e = installed[i])
                 /\ e # installed[i] \/ devices[e].revoked =>
                       RevokePrevious(i)[1][e] = devices[e]
           /\ \A c \in DOMAIN credentials :
                 /\ RevokePrevious(i)[2][c].device = credentials[c].device
                 /\ RevokePrevious(i)[2][c].key = credentials[c].key
                 /\ credentials[c].device = installed[i] =>
                       RevokePrevious(i)[2][c].status = "REVOKED"
                 /\ credentials[c].device # installed[i] \/ credentials[c].status = "REVOKED" =>
                       RevokePrevious(i)[2][c] = credentials[c]
  <1>1. TypeOK /\ installed[i] \in 0..Len(devices)
    BY DEF WellFormed, TypeOK
  <1>2. CASE installed[i] = 0
    <2>1. RevokePrevious(i)[1] = devices /\ RevokePrevious(i)[2] = credentials
      BY <1>2 DEF RevokePrevious
    <2>2. 0 \notin DOMAIN devices
      BY <1>1, Tables
    <2>3. \A c \in DOMAIN credentials : credentials[c].device # installed[i]
      BY <1>2, <2>2 DEF WellFormed, References
    <2>4. \A e \in DOMAIN devices :
             e # installed[i] /\ devices[e].revoked = (devices[e].revoked \/ e = installed[i])
      BY <1>1, <1>2, <2>2, Tables DEF Device
    <2> QED BY <1>1, <2>1, <2>3, <2>4 DEF TypeOK
  <1>3. CASE installed[i] # 0
    <2>1. installed[i] \in DOMAIN devices
      BY <1>1, <1>3, Tables
    <2>2. /\ RevokePrevious(i)[1] = RevokeDevice(installed[i])
          /\ RevokePrevious(i)[2] = RevokeCredentials(installed[i])
      BY <1>3 DEF RevokePrevious
    <2> QED BY <1>1, <2>1, <2>2, DeviceRevoked, CredentialsRevoked
  <1> QED BY <1>2, <1>3

LEMMA ChallengeCreated ==
    ASSUME TypeOK, NEW f \in Families, CreatePairingChallenge(f)
    PROVE  /\ challenges' \in Seq(Challenge)
           /\ DOMAIN challenges \subseteq DOMAIN challenges'
           /\ \A c \in DOMAIN challenges : challenges'[c] = challenges[c]
  <1> DEFINE new == [family |-> f, expires |-> now + PAIRING_TTL, failed |-> 0,
                     consumed |-> FALSE]
  <1>1. new \in Challenge
    BY Tables, ConstantsTyped DEF Challenge
  <1>2. challenges \in Seq(Challenge) /\ challenges' = Append(challenges, new)
    BY DEF TypeOK, CreatePairingChallenge
  <1> HIDE DEF new
  <1>3. /\ challenges' \in Seq(Challenge)
        /\ Len(challenges') = Len(challenges) + 1
        /\ \A c \in 1..Len(challenges) : challenges'[c] = challenges[c]
    BY <1>1, <1>2, AppendProperties
  <1>4. DOMAIN challenges' = 1..Len(challenges')
    BY <1>3
  <1> QED BY <1>3, <1>4, Tables

\* A wrong code only counts.
LEMMA CodeRefused ==
    ASSUME TypeOK, NEW c \in DOMAIN challenges, WrongCode(c)
    PROVE  /\ challenges' \in Seq(Challenge)
           /\ DOMAIN challenges' = DOMAIN challenges
           /\ \A b \in DOMAIN challenges :
                 /\ challenges'[b].family = challenges[b].family
                 /\ challenges'[b].consumed = challenges[b].consumed
                 /\ challenges[b].consumed => challenges'[b] = challenges[b]
  <1>1. /\ challenges[c] \in Challenge /\ ~challenges[c].consumed
        /\ challenges[c].failed \in 0..MAX_PAIRING_ATTEMPTS
        /\ challenges[c].failed + 1 \in 0..MAX_PAIRING_ATTEMPTS
    BY Tables, ConstantsTyped DEF WrongCode, Valid, Challenge
  <1> DEFINE new == [challenges[c] EXCEPT !.failed = @ + 1]
  <1>2. /\ new \in Challenge /\ new.family = challenges[c].family
        /\ new.consumed = challenges[c].consumed
    BY <1>1 DEF Challenge
  <1>3. challenges' = [challenges EXCEPT ![c] = new]
    BY DEF WrongCode
  <1> HIDE DEF new
  <1>4. \A b \in DOMAIN challenges : challenges'[b] = IF b = c THEN new ELSE challenges[b]
    BY <1>3
  <1>5. challenges' \in Seq(Challenge) /\ DOMAIN challenges' = DOMAIN challenges
    BY <1>2, <1>3 DEF TypeOK
  <1> QED BY <1>1, <1>2, <1>4, <1>5

\* Confirming a challenge uses it up and changes nothing else about it.
LEMMA ChallengeConsumed ==
    ASSUME TypeOK, NEW c \in DOMAIN challenges
    PROVE  /\ Consume(c) \in Seq(Challenge)
           /\ DOMAIN Consume(c) = DOMAIN challenges
           /\ Consume(c)[c].consumed
           /\ \A b \in DOMAIN challenges :
                 /\ Consume(c)[b].family = challenges[b].family
                 /\ Consume(c)[b].failed = challenges[b].failed
                 /\ b # c => Consume(c)[b] = challenges[b]
  <1> DEFINE new == [challenges[c] EXCEPT !.consumed = TRUE]
  <1>1. /\ new \in Challenge /\ new.family = challenges[c].family
        /\ new.failed = challenges[c].failed /\ new.consumed
    BY Tables DEF Challenge
  <1>2. Consume(c) = [challenges EXCEPT ![c] = new]
    BY DEF Consume
  <1> HIDE DEF new
  <1>3. \A b \in DOMAIN challenges : Consume(c)[b] = IF b = c THEN new ELSE challenges[b]
    BY <1>2
  <1>4. Consume(c) \in Seq(Challenge) /\ DOMAIN Consume(c) = DOMAIN challenges
    BY <1>1, <1>2 DEF TypeOK
  <1> QED BY <1>1, <1>3, <1>4

\* The device a challenge is confirmed for, and its credential.
LEMMA Paired ==
    ASSUME WellFormed, NEW c \in DOMAIN challenges, NEW i \in Installations, NEW k \in Keys,
           CompletePairing(c, i, k)
    PROVE  /\ devices' \in Seq(Device) /\ credentials' \in Seq(Credential)
           /\ Len(devices') = Len(devices) + 1
           /\ DOMAIN devices' = DOMAIN devices \cup {Len(devices) + 1}
           /\ DOMAIN credentials' = DOMAIN credentials \cup {Len(credentials) + 1}
           /\ Len(devices) + 1 \notin DOMAIN devices
           /\ Len(credentials) + 1 \notin DOMAIN credentials
           /\ credentials'[Len(credentials) + 1].device = Len(devices) + 1
           /\ credentials'[Len(credentials) + 1].key = k
           /\ credentials'[Len(credentials) + 1].status = "ACTIVE"
           /\ \A d \in DOMAIN devices :
                 /\ devices'[d].family = devices[d].family
                 /\ devices'[d].challenge = devices[d].challenge
                 /\ devices'[d].revoked = (devices[d].revoked \/ d = installed[i])
                 /\ devices[d].revoked => devices'[d] = devices[d]
           /\ devices'[Len(devices) + 1].family = challenges[c].family
           /\ devices'[Len(devices) + 1].challenge = c
           /\ ~devices'[Len(devices) + 1].revoked
           /\ \A b \in DOMAIN credentials :
                 /\ credentials'[b].device = credentials[b].device
                 /\ credentials'[b].key = credentials[b].key
                 /\ credentials[b].device = installed[i] => credentials'[b].status = "REVOKED"
                 /\ credentials[b].device # installed[i] \/ credentials[b].status = "REVOKED" =>
                       credentials'[b] = credentials[b]
  <1> DEFINE device == [family |-> challenges[c].family, revoked |-> FALSE, seen |-> Never,
                        protected |-> FALSE, challenge |-> c]
             credential == [device |-> Len(devices) + 1, key |-> k, status |-> "ACTIVE",
                            expires |-> now + CREDENTIAL_TTL]
             D == RevokePrevious(i)[1]
             C == RevokePrevious(i)[2]
  <1>1. TypeOK
    BY DEF WellFormed
  <1>2. /\ device \in Device /\ device.family = challenges[c].family
        /\ device.challenge = c /\ ~device.revoked
    BY <1>1, Tables DEF Device, Challenge, Never
  <1>3. /\ credential \in Credential /\ credential.device = Len(devices) + 1
        /\ credential.key = k /\ credential.status = "ACTIVE"
    BY <1>1, Tables, ConstantsTyped DEF Credential
  <1>4. devices' = Append(D, device) /\ credentials' = Append(C, credential)
    BY DEF CompletePairing
  <1>5. /\ D \in Seq(Device) /\ Len(D) = Len(devices)
        /\ C \in Seq(Credential) /\ Len(C) = Len(credentials)
        /\ \A d \in DOMAIN devices :
              /\ D[d].family = devices[d].family
              /\ D[d].challenge = devices[d].challenge
              /\ D[d].revoked = (devices[d].revoked \/ d = installed[i])
              /\ devices[d].revoked => D[d] = devices[d]
        /\ \A b \in DOMAIN credentials :
              /\ C[b].device = credentials[b].device
              /\ C[b].key = credentials[b].key
              /\ credentials[b].device = installed[i] => C[b].status = "REVOKED"
              /\ credentials[b].device # installed[i] \/ credentials[b].status = "REVOKED" =>
                    C[b] = credentials[b]
    BY PreviousRevoked
  <1> HIDE DEF device, credential, D, C
  <1>6. /\ devices' \in Seq(Device) /\ Len(devices') = Len(devices) + 1
        /\ \A d \in 1..Len(devices) : devices'[d] = D[d]
        /\ devices'[Len(devices) + 1] = device
    BY <1>2, <1>4, <1>5, AppendProperties
  <1>7. /\ credentials' \in Seq(Credential) /\ Len(credentials') = Len(credentials) + 1
        /\ \A b \in 1..Len(credentials) : credentials'[b] = C[b]
        /\ credentials'[Len(credentials) + 1] = credential
    BY <1>3, <1>4, <1>5, AppendProperties
  <1>8. /\ DOMAIN devices' = 1..Len(devices')
        /\ DOMAIN credentials' = 1..Len(credentials')
    BY <1>6, <1>7
  <1>9. /\ DOMAIN devices' = DOMAIN devices \cup {Len(devices) + 1}
        /\ DOMAIN credentials' = DOMAIN credentials \cup {Len(credentials) + 1}
        /\ Len(devices) + 1 \notin DOMAIN devices
        /\ Len(credentials) + 1 \notin DOMAIN credentials
    BY <1>1, <1>6, <1>7, <1>8, Tables
  <1>10. \A d \in DOMAIN devices : devices'[d] = D[d]
    BY <1>1, <1>6, Tables
  <1>11. \A b \in DOMAIN credentials : credentials'[b] = C[b]
    BY <1>1, <1>7, Tables
  <1>12. \A d \in DOMAIN devices :
            /\ devices'[d].family = devices[d].family
            /\ devices'[d].challenge = devices[d].challenge
            /\ devices'[d].revoked = (devices[d].revoked \/ d = installed[i])
            /\ devices[d].revoked => devices'[d] = devices[d]
    BY <1>5, <1>10, Zenon
  <1>13. \A b \in DOMAIN credentials :
            /\ credentials'[b].device = credentials[b].device
            /\ credentials'[b].key = credentials[b].key
            /\ credentials[b].device = installed[i] => credentials'[b].status = "REVOKED"
            /\ credentials[b].device # installed[i] \/ credentials[b].status = "REVOKED" =>
                  credentials'[b] = credentials[b]
    BY <1>5, <1>11, Zenon
  <1>14. /\ devices'[Len(devices) + 1].family = challenges[c].family
         /\ devices'[Len(devices) + 1].challenge = c
         /\ ~devices'[Len(devices) + 1].revoked
    BY <1>2, <1>6
  <1>15. /\ credentials'[Len(credentials) + 1].device = Len(devices) + 1
         /\ credentials'[Len(credentials) + 1].key = k
         /\ credentials'[Len(credentials) + 1].status = "ACTIVE"
    BY <1>3, <1>7
  <1> QED BY <1>6, <1>7, <1>9, <1>12, <1>13, <1>14, <1>15, Zenon

\* The request a handler is about to act on.
LEMMA ActingRequest ==
    ASSUME WellFormed, NEW h \in Handlers, acting[h] # 0
    PROVE  /\ acting[h] \in DOMAIN requests
           /\ requests[acting[h]] \in SignedRequest
           /\ requests[acting[h]].credential \in DOMAIN credentials
           /\ credentials[requests[acting[h]].credential].device \in DOMAIN devices
           /\ requests[acting[h]].op = "ROTATE" =>
                 /\ requests[acting[h]].key \in Keys
                 /\ requests[acting[h]].idempotency \in IdempotencyKeys
  <1>1. acting[h] \in DOMAIN requests
    BY Tables DEF WellFormed, TypeOK
  <1> QED BY <1>1, Tables DEF WellFormed, References

LEMMA DoneTyped ==
    ASSUME TypeOK, NEW h \in Handlers, Done(h)
    PROVE  acting' \in [Handlers -> 0..Len(requests)]
  BY Tables DEF TypeOK, Done

\* Rotating a credential adds one for the same device, and changes the old one only.
LEMMA Rotated ==
    ASSUME WellFormed, NEW h \in Handlers, RotateCredential(h)
    PROVE  LET r == requests[acting[h]]
               old == r.credential
               new == Len(credentials) + 1
           IN  /\ credentials' \in Seq(Credential)
               /\ DOMAIN credentials' = DOMAIN credentials \cup {new}
               /\ new \notin DOMAIN credentials
               /\ old \in DOMAIN credentials /\ credentials[old].status = "ACTIVE"
               /\ r.key \in Keys /\ r.idempotency \in IdempotencyKeys
               /\ ~KeyUsed(r.key)
               /\ Recorded(old, r.idempotency) = {}
               /\ rotations' = rotations \cup
                     {[old |-> old, idempotency |-> r.idempotency, new |-> new]}
               /\ answers' = answers \cup {[old |-> old, idempotency |-> r.idempotency,
                                            key |-> r.key, new |-> new]}
               /\ \A c \in DOMAIN credentials :
                     /\ credentials'[c].device = credentials[c].device
                     /\ credentials'[c].key = credentials[c].key
                     /\ c # old => credentials'[c] = credentials[c]
               /\ credentials'[old].status = "ROTATING"
               /\ credentials'[new].device = credentials[old].device
               /\ credentials'[new].key = r.key
               /\ credentials'[new].status = "ACTIVE"
  <1> DEFINE r == requests[acting[h]]
             old == r.credential
             fading == [credentials[old] EXCEPT !.status = "ROTATING",
                                                !.expires = now + ROTATION_GRACE]
             fresh == [device |-> credentials[old].device, key |-> r.key, status |-> "ACTIVE",
                       expires |-> now + CREDENTIAL_TTL]
             C == [credentials EXCEPT ![old] = fading]
  <1>1. TypeOK /\ acting[h] # 0 /\ r.op = "ROTATE"
    BY DEF WellFormed, RotateCredential
  <1>2. old \in DOMAIN credentials /\ r.key \in Keys /\ r.idempotency \in IdempotencyKeys
    BY <1>1, ActingRequest
  <1>3. credentials[old] \in Credential
    BY <1>1, <1>2, Tables
  <1>4. /\ fading \in Credential /\ fading.status = "ROTATING"
        /\ fading.device = credentials[old].device /\ fading.key = credentials[old].key
    <2>1. now + ROTATION_GRACE \in Nat
      BY <1>1, Tables, ConstantsTyped
    <2>2. credentials[old] \in [device: Nat, key: Keys,
                                status: {"ACTIVE", "ROTATING", "REVOKED"}, expires: Nat]
      BY <1>3 DEF Credential
    <2>3. ASSUME NEW row \in [device: Nat, key: Keys,
                              status: {"ACTIVE", "ROTATING", "REVOKED"}, expires: Nat],
                 NEW end \in Nat
          PROVE  LET ending == [row EXCEPT !.status = "ROTATING", !.expires = end]
                 IN  /\ ending \in [device: Nat, key: Keys,
                                    status: {"ACTIVE", "ROTATING", "REVOKED"}, expires: Nat]
                     /\ ending.status = "ROTATING"
                     /\ ending.device = row.device /\ ending.key = row.key
      OBVIOUS
    <2> QED BY <2>1, <2>2, <2>3 DEF Credential
  <1>5. /\ fresh \in Credential /\ fresh.status = "ACTIVE" /\ fresh.key = r.key
        /\ fresh.device = credentials[old].device
    BY <1>1, <1>2, <1>3, Tables, ConstantsTyped DEF Credential
  <1>6. credentials' = Append(C, fresh)
    <2>1. credentials' = Append([credentials EXCEPT ![old].status = "ROTATING",
                                                    ![old].expires = now + ROTATION_GRACE], fresh)
      BY DEF RotateCredential
    <2>2. [credentials EXCEPT ![old].status = "ROTATING",
                              ![old].expires = now + ROTATION_GRACE] = C
      BY <1>2, <1>3 DEF Credential
    <2> QED BY <2>1, <2>2
  <1>7. /\ MayRotate(old) /\ ~KeyUsed(r.key) /\ Recorded(old, r.idempotency) = {}
        /\ rotations' = rotations \cup
              {[old |-> old, idempotency |-> r.idempotency, new |-> Len(credentials) + 1]}
        /\ answers' = answers \cup {[old |-> old, idempotency |-> r.idempotency,
                                     key |-> r.key, new |-> Len(credentials) + 1]}
    BY DEF RotateCredential, RespondRotation
  <1> HIDE DEF fading, fresh
  <1>8. C \in Seq(Credential) /\ Len(C) = Len(credentials)
    <2>1. credentials \in Seq(Credential)
      BY <1>1 DEF TypeOK
    <2> QED BY <1>2, <1>4, <2>1
  <1>9. \A c \in DOMAIN credentials : C[c] = IF c = old THEN fading ELSE credentials[c]
    BY <1>2
  <1> HIDE DEF C
  <1>10. /\ credentials' \in Seq(Credential) /\ Len(credentials') = Len(credentials) + 1
         /\ \A c \in 1..Len(credentials) : credentials'[c] = C[c]
         /\ credentials'[Len(credentials) + 1] = fresh
    BY <1>5, <1>6, <1>8, AppendProperties
  <1>11. DOMAIN credentials' = 1..Len(credentials')
    BY <1>10
  <1>12. /\ DOMAIN credentials' = DOMAIN credentials \cup {Len(credentials) + 1}
         /\ Len(credentials) + 1 \notin DOMAIN credentials
    BY <1>1, <1>10, <1>11, Tables
  <1>13. \A c \in DOMAIN credentials :
            credentials'[c] = IF c = old THEN fading ELSE credentials[c]
    BY <1>1, <1>9, <1>10, Tables
  <1> QED BY <1>2, <1>4, <1>5, <1>7, <1>10, <1>12, <1>13 DEF MayRotate

LEMMA RowTouched ==
    ASSUME NEW row \in Device, NEW time \in Int, NEW healthy \in BOOLEAN
    PROVE  /\ LET touched == [row EXCEPT !.seen = time, !.protected = healthy]
              IN  /\ touched \in Device /\ touched.family = row.family
                  /\ touched.challenge = row.challenge /\ touched.revoked = row.revoked
           /\ LET touched == [row EXCEPT !.seen = time]
              IN  /\ touched \in Device /\ touched.family = row.family
                  /\ touched.challenge = row.challenge /\ touched.revoked = row.revoked
  BY DEF Device

\* A device's row is written by its own requests, unless it is revoked.
LEMMA Touched ==
    ASSUME WellFormed, NEW h \in Handlers, RecordHeartbeat(h) \/ RecordPilotTelemetry(h)
    PROVE  /\ devices' \in Seq(Device)
           /\ DOMAIN devices' = DOMAIN devices
           /\ \A d \in DOMAIN devices :
                 /\ devices'[d].family = devices[d].family
                 /\ devices'[d].challenge = devices[d].challenge
                 /\ devices'[d].revoked = devices[d].revoked
                 /\ devices[d].revoked => devices'[d] = devices[d]
  <1> DEFINE r == requests[acting[h]]
             d == credentials[r.credential].device
             healthy == r.healthy /\ now - r.at * Second <= MaxHeartbeatAge
  <1>1. acting[h] # 0 /\ TypeOK
    BY DEF RecordHeartbeat, RecordPilotTelemetry, WellFormed
  <1>2. d \in DOMAIN devices /\ r \in SignedRequest
    BY <1>1, ActingRequest
  <1>3. devices[d] \in Device /\ now \in Int
    BY <1>1, <1>2, Tables
  <1>4. healthy \in BOOLEAN
    OBVIOUS
  <1>5. \/ devices' = devices
        \/ /\ ~devices[d].revoked
           /\ \/ devices' = [devices EXCEPT ![d].seen = now, ![d].protected = healthy]
              \/ devices' = [devices EXCEPT ![d].seen = now]
    BY DEF RecordHeartbeat, RecordPilotTelemetry, TouchAllowed
  <1> HIDE DEF r, d, healthy
  <1>6. CASE devices' = devices
    BY <1>1, <1>6 DEF TypeOK
  <1>7. ASSUME NEW row \in Device, devices' = [devices EXCEPT ![d] = row],
               row.family = devices[d].family, row.challenge = devices[d].challenge,
               row.revoked = devices[d].revoked, ~devices[d].revoked
        PROVE  /\ devices' \in Seq(Device)
               /\ DOMAIN devices' = DOMAIN devices
               /\ \A e \in DOMAIN devices :
                     /\ devices'[e].family = devices[e].family
                     /\ devices'[e].challenge = devices[e].challenge
                     /\ devices'[e].revoked = devices[e].revoked
                     /\ devices[e].revoked => devices'[e] = devices[e]
    <2>1. devices \in Seq(Device)
      BY <1>1 DEF TypeOK
    <2>2. \A e \in DOMAIN devices : devices'[e] = IF e = d THEN row ELSE devices[e]
      BY <1>2, <1>7
    <2> QED BY <1>2, <1>7, <2>1, <2>2
  <1>8. CASE ~devices[d].revoked
             /\ devices' = [devices EXCEPT ![d].seen = now, ![d].protected = healthy]
    <2> DEFINE row == [devices[d] EXCEPT !.seen = now, !.protected = healthy]
    <2>1. devices' = [devices EXCEPT ![d] = row]
      BY <1>2, <1>8
    <2>2. /\ row \in Device /\ row.family = devices[d].family
          /\ row.challenge = devices[d].challenge /\ row.revoked = devices[d].revoked
      BY <1>3, <1>4, RowTouched
    <2> QED BY <1>7, <1>8, <2>1, <2>2
  <1>9. CASE ~devices[d].revoked /\ devices' = [devices EXCEPT ![d].seen = now]
    <2> DEFINE row == [devices[d] EXCEPT !.seen = now]
    <2>1. devices' = [devices EXCEPT ![d] = row]
      BY <1>9
    <2>2. /\ row \in Device /\ row.family = devices[d].family
          /\ row.challenge = devices[d].challenge /\ row.revoked = devices[d].revoked
      BY <1>3, RowTouched
    <2> QED BY <1>7, <1>9, <2>1, <2>2
  <1> QED BY <1>5, <1>6, <1>8, <1>9

LEMMA InitWellFormed == Init => WellFormed
  BY ConstantsTyped DEF Init, WellFormed, TypeOK, References

\* A signed request names a credential, and what its operation needs.
LEMMA SignWellFormed ==
    ASSUME WellFormed, NEW c \in DOMAIN credentials, NEW op \in Op, NEW k \in Keys \cup {NoKey},
           NEW ik \in IdempotencyKeys \cup {NoKey}, NEW healthy \in BOOLEAN,
           op = "ROTATE" => k \in Keys /\ ik \in IdempotencyKeys,
           Sign(c, op, k, ik, healthy)
    PROVE  WellFormed'
  <1>1. TypeOK /\ References
    BY DEF WellFormed
  <1>2. PICK drift \in Drift :
           requests' = Append(requests, [credential |-> c, at |-> Seconds(now) + drift, op |-> op,
                                         key |-> k, idempotency |-> ik, healthy |-> healthy])
    BY DEF Sign
  <1> DEFINE new == [credential |-> c, at |-> Seconds(now) + drift, op |-> op,
                     key |-> k, idempotency |-> ik, healthy |-> healthy]
  <1>3. new \in SignedRequest
    <2>1. Seconds(now) + drift \in Int
      BY <1>1, Tables, ConstantsTyped DEF Seconds
    <2> QED BY <1>1, <2>1, Tables DEF SignedRequest
  <1>4. new.credential = c /\ new.op = op /\ new.key = k /\ new.idempotency = ik
    OBVIOUS
  <1> HIDE DEF new
  <1>5. /\ requests' \in Seq(SignedRequest)
        /\ Len(requests') = Len(requests) + 1
        /\ \A r \in 1..Len(requests) : requests'[r] = requests[r]
        /\ requests'[Len(requests) + 1] = new
    BY <1>1, <1>2, <1>3, AppendProperties DEF TypeOK, new
  <1>6. DOMAIN requests' = 1..Len(requests')
    BY <1>5
  <1>7. UNCHANGED <<now, challenges, devices, credentials, installed, rotations, nonces,
                    acting, accepted, answers>>
    BY DEF Sign
  <1>8. TypeOK'
    <2>1. acting \in [Handlers -> 0..Len(requests')] /\ accepted \subseteq 1..Len(requests')
      BY <1>1, <1>5, Tables DEF TypeOK
    <2> QED BY <1>1, <1>5, <1>7, <2>1 DEF TypeOK
  <1>9. ASSUME NEW r \in DOMAIN requests'
        PROVE  /\ requests'[r].credential \in DOMAIN credentials
               /\ requests'[r].op = "ROTATE" =>
                     requests'[r].key \in Keys /\ requests'[r].idempotency \in IdempotencyKeys
    <2>1. r \in DOMAIN requests \/ r = Len(requests) + 1
      BY <1>1, <1>5, <1>6, Tables
    <2>2. CASE r \in DOMAIN requests
      BY <1>1, <1>5, <2>2, Tables DEF References
    <2>3. CASE r = Len(requests) + 1
      BY <1>4, <1>5, <2>3
    <2> QED BY <2>1, <2>2, <2>3
  <1> QED BY <1>1, <1>7, <1>8, <1>9 DEF WellFormed, References

LEMMA PairingWellFormed ==
    ASSUME WellFormed, NEW c \in DOMAIN challenges, NEW i \in Installations, NEW k \in Keys,
           CompletePairing(c, i, k)
    PROVE  WellFormed'
  <1>1. TypeOK /\ References
    BY DEF WellFormed
  <1>2. /\ challenges' = Consume(c)
        /\ installed' = [installed EXCEPT ![i] = Len(devices) + 1]
        /\ UNCHANGED <<now, rotations, nonces, requests, acting, accepted, answers>>
    BY DEF CompletePairing
  <1>3. /\ devices' \in Seq(Device) /\ credentials' \in Seq(Credential)
        /\ Len(devices') = Len(devices) + 1
        /\ DOMAIN devices' = DOMAIN devices \cup {Len(devices) + 1}
        /\ DOMAIN credentials' = DOMAIN credentials \cup {Len(credentials) + 1}
        /\ \A d \in DOMAIN devices : devices'[d].challenge = devices[d].challenge
        /\ \A b \in DOMAIN credentials : credentials'[b].device = credentials[b].device
    BY Paired, Zenon
  <1>8. /\ devices'[Len(devices) + 1].challenge = c
        /\ credentials'[Len(credentials) + 1].device = Len(devices) + 1
    BY Paired, Zenon
  <1>4. challenges' \in Seq(Challenge) /\ DOMAIN challenges' = DOMAIN challenges
    BY <1>1, <1>2, ChallengeConsumed
  <1>5. installed' \in [Installations -> 0..Len(devices')]
    BY <1>1, <1>2, <1>3, Tables DEF TypeOK
  <1>6. TypeOK'
    BY <1>1, <1>2, <1>3, <1>4, <1>5 DEF TypeOK
  <1>7. References'
    BY <1>1, <1>2, <1>3, <1>4, <1>8 DEF References
  <1> QED BY <1>6, <1>7 DEF WellFormed

LEMMA AuthenticateWellFormed ==
    ASSUME WellFormed, NEW h \in Handlers, NEW r \in DOMAIN requests, Authenticate(h, r)
    PROVE  WellFormed'
  <1>1. TypeOK /\ References
    BY DEF WellFormed
  <1>2. /\ UNCHANGED <<now, challenges, devices, credentials, installed, rotations, requests,
                       answers>>
        /\ nonces' \subseteq nonces \cup {[request |-> r, expires |-> NonceExpiry(r)]}
        /\ \/ UNCHANGED <<acting, accepted>>
           \/ acting' = [acting EXCEPT ![h] = r] /\ accepted' = accepted \cup {r}
    BY DEF Authenticate, UnexpiredNonces
  <1>3. [request |-> r, expires |-> NonceExpiry(r)] \in Nonce
    <2>1. r \in Nat /\ requests[r].at \in Int
      BY <1>1, Tables DEF SignedRequest
    <2>2. requests[r].at + MAX_CLOCK_SKEW_SECONDS \in Int
      BY <2>1, ConstantsTyped
    <2>3. NonceExpiry(r) \in Int
      BY <2>2, ConstantsTyped DEF NonceExpiry
    <2> QED BY <2>1, <2>3 DEF Nonce
  <1>4. r \in 1..Len(requests)
    BY <1>1, Tables
  <1>5. TypeOK'
    <2>1. nonces' \subseteq Nonce
      BY <1>1, <1>2, <1>3 DEF TypeOK
    <2>2. r \in 0..Len(requests)
      BY <1>1, <1>4, Tables
    <2>3. acting \in [Handlers -> 0..Len(requests)] /\ accepted \subseteq 1..Len(requests)
      BY <1>1 DEF TypeOK
    <2>4. acting' \in [Handlers -> 0..Len(requests)]
      BY <1>2, <2>2, <2>3
    <2>5. accepted' \subseteq 1..Len(requests)
      BY <1>2, <1>4, <2>3
    <2> QED BY <1>1, <1>2, <2>1, <2>4, <2>5 DEF TypeOK
  <1>6. References'
    BY <1>1, <1>2 DEF References
  <1> QED BY <1>5, <1>6 DEF WellFormed

\* An answer to a rotation.
LEMMA AnswerTyped ==
    ASSUME WellFormed, NEW h \in Handlers, NEW new \in Nat, acting[h] # 0,
           requests[acting[h]].op = "ROTATE", RespondRotation(h, new)
    PROVE  answers' \subseteq Answer
  <1> DEFINE r == requests[acting[h]]
  <1>1. r \in SignedRequest /\ r.key \in Keys /\ r.idempotency \in IdempotencyKeys
    BY ActingRequest
  <1>2. [old |-> r.credential, idempotency |-> r.idempotency, key |-> r.key, new |-> new] \in Answer
    BY <1>1 DEF SignedRequest, Answer
  <1>3. answers \subseteq Answer
    BY DEF WellFormed, TypeOK
  <1> QED BY <1>2, <1>3 DEF RespondRotation

LEMMA RotationWellFormed ==
    ASSUME WellFormed, NEW h \in Handlers, RotateCredential(h)
    PROVE  WellFormed'
  <1> DEFINE r == requests[acting[h]]
             rotation == [old |-> r.credential, idempotency |-> r.idempotency,
                          new |-> Len(credentials) + 1]
  <1>1. TypeOK /\ References /\ acting[h] # 0 /\ r.op = "ROTATE"
    BY DEF WellFormed, RotateCredential
  <1>2. /\ UNCHANGED <<now, challenges, devices, installed, nonces, requests, accepted>>
        /\ Done(h) /\ RespondRotation(h, Len(credentials) + 1)
    BY DEF RotateCredential
  <1>3. /\ credentials' \in Seq(Credential)
        /\ DOMAIN credentials' = DOMAIN credentials \cup {Len(credentials) + 1}
        /\ r.credential \in DOMAIN credentials
        /\ r.idempotency \in IdempotencyKeys
        /\ rotations' = rotations \cup {rotation}
        /\ \A c \in DOMAIN credentials : credentials'[c].device = credentials[c].device
        /\ credentials'[Len(credentials) + 1].device = credentials[r.credential].device
    BY Rotated
  <1>4. /\ rotation \in Rotation /\ rotation.old = r.credential
        /\ rotation.new = Len(credentials) + 1
    BY <1>1, <1>3, Tables DEF Rotation
  <1> HIDE DEF rotation
  <1>5. answers' \subseteq Answer
    BY <1>1, <1>2, AnswerTyped, Tables
  <1>6. acting' \in [Handlers -> 0..Len(requests)]
    BY <1>1, <1>2, DoneTyped
  <1>7. TypeOK'
    BY <1>1, <1>2, <1>3, <1>4, <1>5, <1>6 DEF TypeOK
  <1>8. References'
    BY <1>1, <1>2, <1>3, <1>4 DEF References
  <1> QED BY <1>7, <1>8 DEF WellFormed

LEMMA TouchWellFormed ==
    ASSUME WellFormed, NEW h \in Handlers, RecordHeartbeat(h) \/ RecordPilotTelemetry(h)
    PROVE  WellFormed'
  <1>1. TypeOK /\ References
    BY DEF WellFormed
  <1>2. /\ UNCHANGED <<now, challenges, credentials, installed, rotations, nonces, requests,
                       accepted, answers>>
        /\ Done(h)
    BY DEF RecordHeartbeat, RecordPilotTelemetry
  <1>3. /\ devices' \in Seq(Device) /\ DOMAIN devices' = DOMAIN devices
        /\ \A d \in DOMAIN devices : devices'[d].challenge = devices[d].challenge
    BY Touched
  <1>4. Len(devices') = Len(devices)
    BY <1>1, <1>3, Tables
  <1>5. acting' \in [Handlers -> 0..Len(requests)]
    BY <1>1, <1>2, DoneTyped
  <1>6. TypeOK'
    BY <1>1, <1>2, <1>3, <1>4, <1>5 DEF TypeOK
  <1>7. References'
    BY <1>1, <1>2, <1>3 DEF References
  <1> QED BY <1>6, <1>7 DEF WellFormed

LEMMA RevocationWellFormed ==
    ASSUME WellFormed, NEW d \in DOMAIN devices, ParentRevokes(d)
    PROVE  WellFormed'
  <1>1. TypeOK /\ References
    BY DEF WellFormed
  <1>2. /\ devices' = RevokeDevice(d) /\ credentials' = RevokeCredentials(d)
        /\ UNCHANGED <<now, challenges, installed, rotations, nonces, requests, acting,
                       accepted, answers>>
    BY DEF ParentRevokes
  <1>3. /\ devices' \in Seq(Device) /\ Len(devices') = Len(devices)
        /\ \A e \in DOMAIN devices : devices'[e].challenge = devices[e].challenge
    BY <1>1, <1>2, DeviceRevoked
  <1>4. /\ credentials' \in Seq(Credential) /\ Len(credentials') = Len(credentials)
        /\ \A c \in DOMAIN credentials : credentials'[c].device = credentials[c].device
    BY <1>1, <1>2, CredentialsRevoked
  <1>5. DOMAIN devices' = DOMAIN devices /\ DOMAIN credentials' = DOMAIN credentials
    BY <1>1, <1>3, <1>4, Tables
  <1>6. TypeOK'
    BY <1>1, <1>2, <1>3, <1>4 DEF TypeOK
  <1>7. References'
    BY <1>1, <1>2, <1>3, <1>4, <1>5 DEF References
  <1> QED BY <1>6, <1>7 DEF WellFormed

LEMMA StepWellFormed == WellFormed /\ [Next]_vars => WellFormed'
  <1> SUFFICES ASSUME WellFormed, [Next]_vars
               PROVE  WellFormed'
    OBVIOUS
  <1>1. TypeOK /\ References
    BY DEF WellFormed
  <1>2. CASE Tick
    BY <1>1, <1>2, ConstantsTyped DEF WellFormed, Tick, TypeOK, References
  <1>3. CASE Pairing
    <2>1. ASSUME NEW f \in Families, CreatePairingChallenge(f)
          PROVE  WellFormed'
      <3>1. /\ challenges' \in Seq(Challenge) /\ DOMAIN challenges \subseteq DOMAIN challenges'
            /\ UNCHANGED <<now, devices, credentials, installed, rotations, nonces, requests,
                           acting, accepted, answers>>
        BY <1>1, <2>1, ChallengeCreated DEF CreatePairingChallenge
      <3> QED BY <1>1, <3>1 DEF WellFormed, TypeOK, References
    <2>2. ASSUME NEW c \in DOMAIN challenges, WrongCode(c)
          PROVE  WellFormed'
      <3>1. /\ challenges' \in Seq(Challenge) /\ DOMAIN challenges' = DOMAIN challenges
            /\ UNCHANGED <<now, devices, credentials, installed, rotations, nonces, requests,
                           acting, accepted, answers>>
        BY <1>1, <2>2, CodeRefused DEF WrongCode
      <3> QED BY <1>1, <3>1 DEF WellFormed, TypeOK, References
    <2> QED BY <1>3, <2>1, <2>2, PairingWellFormed, RevocationWellFormed DEF Pairing
  <1>4. CASE Sending
    <2>1. ASSUME NEW c \in DOMAIN credentials, NEW k \in Keys, NEW ik \in IdempotencyKeys,
                 SignRotation(c, k, ik)
          PROVE  WellFormed'
      BY <2>1, SignWellFormed DEF SignRotation, Op
    <2>2. ASSUME NEW c \in DOMAIN credentials, NEW healthy \in BOOLEAN, SignHeartbeat(c, healthy)
          PROVE  WellFormed'
      BY <2>2, SignWellFormed DEF SignHeartbeat, Op
    <2>3. ASSUME NEW c \in DOMAIN credentials, SignTelemetry(c)
          PROVE  WellFormed'
      BY <2>3, SignWellFormed DEF SignTelemetry, Op
    <2> QED BY <1>4, <2>1, <2>2, <2>3 DEF Sending
  <1>5. CASE Serving
    <2>1. ASSUME NEW h \in Handlers, RepeatRotation(h) \/ RefuseRotation(h)
          PROVE  WellFormed'
      <3>1. /\ acting[h] # 0 /\ requests[acting[h]].op = "ROTATE" /\ Done(h)
            /\ UNCHANGED <<now, challenges, devices, credentials, installed, rotations, nonces,
                           requests, accepted>>
        BY <2>1 DEF RepeatRotation, RefuseRotation
      <3>2. \E new \in Nat : RespondRotation(h, new)
        <4>1. CASE RefuseRotation(h)
          BY <4>1 DEF RefuseRotation
        <4>2. CASE RepeatRotation(h)
          <5>1. PICK x \in rotations :
                    RespondRotation(h, IF credentials[x.new].key = requests[acting[h]].key
                                       THEN x.new ELSE 0)
            BY <4>2 DEF RepeatRotation, Recorded
          <5>2. x.new \in Nat
            BY <1>1 DEF TypeOK, Rotation
          <5> QED BY <5>1, <5>2
        <4> QED BY <2>1, <4>1, <4>2
      <3>3. answers' \subseteq Answer
        BY <3>1, <3>2, AnswerTyped
      <3>4. acting' \in [Handlers -> 0..Len(requests)]
        BY <1>1, <3>1, DoneTyped
      <3> QED BY <1>1, <3>1, <3>3, <3>4 DEF WellFormed, TypeOK, References
    <2> QED BY <1>5, <2>1, AuthenticateWellFormed, RotationWellFormed, TouchWellFormed DEF Serving
  <1>6. CASE UNCHANGED vars
    BY <1>1, <1>6 DEF WellFormed, vars, TypeOK, References
  <1> QED BY <1>2, <1>3, <1>4, <1>5, <1>6 DEF Next

LEMMA AlwaysWellFormed == Spec => []WellFormed
  BY InitWellFormed, StepWellFormed, PTL DEF Spec

\* The tables of pairing, credentials and nonces and the requests in flight stay well
\* formed, the count of wrong codes within its limit, however requests and pairings race.
THEOREM IdentityTypeCorrect == Spec => []TypeOK
  <1>1. WellFormed => TypeOK
    BY DEF WellFormed
  <1> QED BY <1>1, AlwaysWellFormed, PTL
-----------------------------------------------------------------------------
(* What a step does to credentials and devices *)

\* Credentials and the devices' lifecycle stay as they are.
Quiet ==
    /\ credentials' = credentials
    /\ DOMAIN devices' = DOMAIN devices
    /\ \A d \in DOMAIN devices :
          /\ devices'[d].family = devices[d].family
          /\ devices'[d].challenge = devices[d].challenge
          /\ devices'[d].revoked = devices[d].revoked
          /\ devices[d].revoked => devices'[d] = devices[d]

LEMMA QuietOrNot ==
    ASSUME WellFormed, [Next]_vars
    PROVE  \/ Quiet
           \/ \E c \in DOMAIN challenges, i \in Installations, k \in Keys : CompletePairing(c, i, k)
           \/ \E d \in DOMAIN devices : ParentRevokes(d)
           \/ \E h \in Handlers : RotateCredential(h)
  <1>1. ASSUME UNCHANGED <<devices, credentials>>
        PROVE  Quiet
    BY <1>1 DEF Quiet
  <1>2. ASSUME NEW f \in Families, CreatePairingChallenge(f)
        PROVE  Quiet
    BY <1>1, <1>2 DEF CreatePairingChallenge
  <1>3. ASSUME NEW c \in DOMAIN challenges, WrongCode(c)
        PROVE  Quiet
    BY <1>1, <1>3 DEF WrongCode
  <1>4. CASE Sending
    BY <1>1, <1>4 DEF Sending, SignRotation, SignHeartbeat, SignTelemetry, Sign
  <1>5. ASSUME NEW h \in Handlers, NEW r \in DOMAIN requests, Authenticate(h, r)
        PROVE  Quiet
    BY <1>1, <1>5 DEF Authenticate
  <1>6. ASSUME NEW h \in Handlers, RepeatRotation(h) \/ RefuseRotation(h)
        PROVE  Quiet
    BY <1>1, <1>6 DEF RepeatRotation, RefuseRotation
  <1>7. ASSUME NEW h \in Handlers, RecordHeartbeat(h) \/ RecordPilotTelemetry(h)
        PROVE  Quiet
    <2>1. credentials' = credentials
      BY <1>7 DEF RecordHeartbeat, RecordPilotTelemetry
    <2> QED BY <1>7, <2>1, Touched DEF Quiet
  <1>8. CASE Tick \/ UNCHANGED vars
    BY <1>1, <1>8 DEF Tick, vars
  <1> QED BY <1>2, <1>3, <1>4, <1>5, <1>6, <1>7, <1>8 DEF Next, Pairing, Serving

\* Revoking a device revokes its credentials, and changes no other row.
LEMMA Revoked ==
    ASSUME WellFormed, NEW d \in DOMAIN devices, ParentRevokes(d)
    PROVE  /\ DOMAIN devices' = DOMAIN devices
           /\ DOMAIN credentials' = DOMAIN credentials
           /\ \A e \in DOMAIN devices :
                 /\ devices'[e].family = devices[e].family
                 /\ devices'[e].challenge = devices[e].challenge
                 /\ devices'[e].revoked = (devices[e].revoked \/ e = d)
                 /\ devices[e].revoked => devices'[e] = devices[e]
           /\ \A c \in DOMAIN credentials :
                 /\ credentials'[c].device = credentials[c].device
                 /\ credentials'[c].key = credentials[c].key
                 /\ credentials[c].device = d => credentials'[c].status = "REVOKED"
                 /\ credentials[c].device # d \/ credentials[c].status = "REVOKED" =>
                       credentials'[c] = credentials[c]
  <1>1. TypeOK /\ devices' = RevokeDevice(d) /\ credentials' = RevokeCredentials(d)
    BY DEF WellFormed, ParentRevokes
  <1>2. /\ devices' \in Seq(Device) /\ Len(devices') = Len(devices)
        /\ \A e \in DOMAIN devices :
              /\ devices'[e].family = devices[e].family
              /\ devices'[e].challenge = devices[e].challenge
              /\ devices'[e].revoked = (devices[e].revoked \/ e = d)
              /\ devices[e].revoked => devices'[e] = devices[e]
    BY <1>1, DeviceRevoked
  <1>3. /\ credentials' \in Seq(Credential) /\ Len(credentials') = Len(credentials)
        /\ \A c \in DOMAIN credentials :
              /\ credentials'[c].device = credentials[c].device
              /\ credentials'[c].key = credentials[c].key
              /\ credentials[c].device = d => credentials'[c].status = "REVOKED"
              /\ credentials[c].device # d \/ credentials[c].status = "REVOKED" =>
                    credentials'[c] = credentials[c]
    BY <1>1, CredentialsRevoked
  <1>4. DOMAIN devices' = DOMAIN devices /\ DOMAIN credentials' = DOMAIN credentials
    BY <1>1, <1>2, <1>3, Tables
  <1> QED BY <1>2, <1>3, <1>4, Zenon

-----------------------------------------------------------------------------
(* One live chain *)

RevokedAreBare ==
    \A c \in DOMAIN credentials :
        devices[credentials[c].device].revoked => credentials[c].status = "REVOKED"

Active(d) ==
    {c \in DOMAIN credentials : credentials[c].device = d /\ credentials[c].status = "ACTIVE"}

OneActive ==
    \A d \in DOMAIN devices :
        ~devices[d].revoked => \E c \in Active(d) : \A b \in Active(d) : b = c

Chained == RevokedAreBare /\ OneActive

LEMMA QuietChained ==
    ASSUME WellFormed, Chained, Quiet
    PROVE  Chained'
  <1>1. RevokedAreBare'
    BY DEF WellFormed, References, Quiet, Chained, RevokedAreBare
  <1>2. OneActive'
    BY DEF Quiet, Chained, OneActive, Active
  <1> QED BY <1>1, <1>2 DEF Chained

LEMMA RevocationChained ==
    ASSUME WellFormed, Chained, NEW d \in DOMAIN devices, ParentRevokes(d)
    PROVE  Chained'
  <1>1. \A c \in DOMAIN credentials : credentials[c].device \in DOMAIN devices
    BY DEF WellFormed, References
  <1>2. RevokedAreBare'
    <2> SUFFICES ASSUME NEW c \in DOMAIN credentials', devices'[credentials'[c].device].revoked
                 PROVE  credentials'[c].status = "REVOKED"
      BY DEF RevokedAreBare
    <2>1. c \in DOMAIN credentials /\ credentials'[c].device = credentials[c].device
      BY Revoked
    <2>2. CASE credentials[c].device = d
      BY <2>1, <2>2, Revoked
    <2>3. CASE credentials[c].device # d
      <3>1. devices[credentials[c].device].revoked
        BY <1>1, <2>1, <2>3, Revoked
      <3> QED BY <2>1, <2>3, <3>1, Revoked DEF Chained, RevokedAreBare
    <2> QED BY <2>2, <2>3
  <1>3. OneActive'
    <2> SUFFICES ASSUME NEW e \in DOMAIN devices', ~devices'[e].revoked
                 PROVE  \E c \in Active(e)' : \A b \in Active(e)' : b = c
      BY DEF OneActive
    <2>1. e \in DOMAIN devices /\ ~devices[e].revoked /\ e # d
      BY Revoked
    <2>2. Active(e)' = Active(e)
      BY <2>1, Revoked DEF Active
    <2> QED BY <2>1, <2>2 DEF Chained, OneActive
  <1> QED BY <1>2, <1>3 DEF Chained

LEMMA PairingChained ==
    ASSUME WellFormed, Chained, NEW c \in DOMAIN challenges, NEW i \in Installations,
           NEW k \in Keys, CompletePairing(c, i, k)
    PROVE  Chained'
  <1> DEFINE d == Len(devices) + 1
             new == Len(credentials) + 1
  <1>1. /\ DOMAIN devices' = DOMAIN devices \cup {d} /\ d \notin DOMAIN devices
        /\ DOMAIN credentials' = DOMAIN credentials \cup {new} /\ new \notin DOMAIN credentials
        /\ ~devices'[d].revoked
        /\ credentials'[new].device = d /\ credentials'[new].status = "ACTIVE"
    BY Paired, Zenon
  <1>6. \A e \in DOMAIN devices : devices'[e].revoked = (devices[e].revoked \/ e = installed[i])
    BY Paired
  <1>7. \A b \in DOMAIN credentials :
           /\ credentials'[b].device = credentials[b].device
           /\ credentials[b].device = installed[i] => credentials'[b].status = "REVOKED"
           /\ credentials[b].device # installed[i] \/ credentials[b].status = "REVOKED" =>
                 credentials'[b] = credentials[b]
    BY Paired
  <1>2. \A b \in DOMAIN credentials : credentials[b].device \in DOMAIN devices
    BY DEF WellFormed, References
  <1> HIDE DEF d, new
  <1>3. RevokedAreBare'
    <2> SUFFICES ASSUME NEW b \in DOMAIN credentials', devices'[credentials'[b].device].revoked
                 PROVE  credentials'[b].status = "REVOKED"
      BY DEF RevokedAreBare
    <2>1. b \in DOMAIN credentials
      BY <1>1
    <2>2. CASE credentials[b].device = installed[i]
      BY <1>1, <1>6, <1>7, <2>1, <2>2
    <2>3. CASE credentials[b].device # installed[i]
      <3>1. devices[credentials[b].device].revoked
        BY <1>1, <1>6, <1>7, <1>2, <2>1, <2>3
      <3> QED BY <1>1, <1>6, <1>7, <2>1, <2>3, <3>1 DEF Chained, RevokedAreBare
    <2> QED BY <2>2, <2>3
  <1>4. OneActive'
    <2> SUFFICES ASSUME NEW e \in DOMAIN devices', ~devices'[e].revoked
                 PROVE  \E b \in Active(e)' : \A a \in Active(e)' : a = b
      BY DEF OneActive
    <2>1. CASE e = d
      <3>1. Active(e)' = {new}
        BY <1>1, <1>6, <1>7, <1>2, <2>1 DEF Active
      <3> QED BY <3>1
    <2>2. CASE e # d
      <3>1. e \in DOMAIN devices /\ ~devices[e].revoked /\ e # installed[i]
        BY <1>1, <1>6, <1>7, <2>2
      <3>2. Active(e)' = Active(e)
        BY <1>1, <1>6, <1>7, <2>2, <3>1 DEF Active
      <3> QED BY <3>1, <3>2 DEF Chained, OneActive
    <2> QED BY <2>1, <2>2
  <1> QED BY <1>3, <1>4 DEF Chained

LEMMA RotationChained ==
    ASSUME WellFormed, Chained, NEW h \in Handlers, RotateCredential(h)
    PROVE  Chained'
  <1> DEFINE old == requests[acting[h]].credential
             d == credentials[old].device
             new == Len(credentials) + 1
  <1>1. /\ devices' = devices
        /\ DOMAIN credentials' = DOMAIN credentials \cup {new} /\ new \notin DOMAIN credentials
        /\ old \in DOMAIN credentials /\ credentials[old].status = "ACTIVE"
        /\ \A c \in DOMAIN credentials :
              /\ credentials'[c].device = credentials[c].device
              /\ c # old => credentials'[c] = credentials[c]
        /\ credentials'[old].status = "ROTATING"
        /\ credentials'[new].device = d /\ credentials'[new].status = "ACTIVE"
    <2>1. devices' = devices
      BY DEF RotateCredential
    <2> QED BY <2>1, Rotated, Zenon
  <1>2. d \in DOMAIN devices /\ ~devices[d].revoked
    BY <1>1 DEF WellFormed, References, Chained, RevokedAreBare
  <1> HIDE DEF old, new
  <1>3. RevokedAreBare'
    <2> SUFFICES ASSUME NEW c \in DOMAIN credentials', devices[credentials'[c].device].revoked
                 PROVE  credentials'[c].status = "REVOKED"
      BY <1>1 DEF RevokedAreBare
    <2>1. c \in DOMAIN credentials /\ c # old
      BY <1>1, <1>2
    <2> QED BY <1>1, <2>1 DEF Chained, RevokedAreBare
  <1>4. OneActive'
    <2> SUFFICES ASSUME NEW e \in DOMAIN devices, ~devices[e].revoked
                 PROVE  \E c \in Active(e)' : \A b \in Active(e)' : b = c
      BY <1>1 DEF OneActive
    <2>1. CASE e = d
      <3>1. \A c \in Active(e) : c = old
        BY <1>1, <2>1 DEF Chained, OneActive, Active
      <3>2. \A c : c \in Active(e)' <=> c = new
        BY <1>1, <2>1, <3>1 DEF Active
      <3> QED BY <3>2
    <2>2. CASE e # d
      <3>1. Active(e)' = Active(e)
        BY <1>1, <2>2 DEF Active
      <3> QED BY <3>1 DEF Chained, OneActive
    <2> QED BY <2>1, <2>2
  <1> QED BY <1>3, <1>4 DEF Chained

LEMMA AlwaysChained == Spec => []Chained
  <1>1. Init => Chained
    BY DEF Init, Chained, RevokedAreBare, OneActive
  <1>2. WellFormed /\ Chained /\ [Next]_vars => Chained'
    BY QuietOrNot, QuietChained, RevocationChained, PairingChained, RotationChained
  <1> QED BY <1>1, <1>2, AlwaysWellFormed, PTL DEF Spec

\* A device that is not revoked has exactly one active credential and a revoked one none
\* left, whichever rotations, pairings and revocations race.
THEOREM DevicesHaveOneLiveChain == Spec => []OneLiveChain
  <1>1. Chained => OneLiveChain
    <2> SUFFICES ASSUME Chained, NEW d \in DOMAIN devices
                 PROVE  LET own == {c \in DOMAIN credentials : credentials[c].device = d}
                        IN  IF devices[d].revoked
                            THEN \A c \in own : credentials[c].status = "REVOKED"
                            ELSE Cardinality({c \in own : credentials[c].status = "ACTIVE"}) = 1
      BY DEF OneLiveChain
    <2>1. CASE devices[d].revoked
      BY <2>1 DEF Chained, RevokedAreBare
    <2>2. CASE ~devices[d].revoked
      <3>1. PICK c \in Active(d) : \A b \in Active(d) : b = c
        BY <2>2 DEF Chained, OneActive
      <3>2. {b \in {a \in DOMAIN credentials : credentials[a].device = d} :
                credentials[b].status = "ACTIVE"} = {c}
        BY <3>1 DEF Active
      <3>3. Cardinality({c}) = 1
        BY FS_Singleton
      <3> QED BY <2>2, <3>2, <3>3
    <2> QED BY <2>1, <2>2
  <1> QED BY <1>1, AlwaysChained, PTL
-----------------------------------------------------------------------------
(* One device for a challenge *)

\* The challenge of a device was confirmed, in time, for its family and for it alone.
Confirmed ==
    /\ \A d \in DOMAIN devices :
          /\ challenges[devices[d].challenge].consumed
          /\ challenges[devices[d].challenge].failed < MAX_PAIRING_ATTEMPTS
          /\ challenges[devices[d].challenge].family = devices[d].family
    /\ \A d, e \in DOMAIN devices : devices[d].challenge = devices[e].challenge => d = e

\* Devices keep their challenges, and confirmed challenges stay what they are.
LEMMA ConfirmedKept ==
    ASSUME WellFormed, Confirmed, DOMAIN devices' = DOMAIN devices,
           \A d \in DOMAIN devices : /\ devices'[d].family = devices[d].family
                                     /\ devices'[d].challenge = devices[d].challenge,
           \A c \in DOMAIN challenges : challenges[c].consumed => challenges'[c] = challenges[c]
    PROVE  Confirmed'
  <1>1. \A d \in DOMAIN devices : devices[d].challenge \in DOMAIN challenges
    BY DEF WellFormed, References
  <1>2. ASSUME NEW d \in DOMAIN devices
        PROVE  /\ challenges'[devices'[d].challenge].consumed
               /\ challenges'[devices'[d].challenge].failed < MAX_PAIRING_ATTEMPTS
               /\ challenges'[devices'[d].challenge].family = devices'[d].family
    BY <1>1, <1>2 DEF Confirmed
  <1>3. \A d, e \in DOMAIN devices : devices'[d].challenge = devices'[e].challenge => d = e
    BY DEF Confirmed
  <1> QED BY <1>2, <1>3 DEF Confirmed

\* Outside pairing nothing changes a challenge but wrong codes and new challenges.
LEMMA ChallengesKept ==
    ASSUME WellFormed, [Next]_vars,
           ~\E c \in DOMAIN challenges, i \in Installations, k \in Keys : CompletePairing(c, i, k)
    PROVE  \A c \in DOMAIN challenges : challenges[c].consumed => challenges'[c] = challenges[c]
  <1>1. TypeOK
    BY DEF WellFormed
  <1>2. CASE UNCHANGED challenges
    BY <1>2
  <1>3. ASSUME NEW f \in Families, CreatePairingChallenge(f)
        PROVE  \A c \in DOMAIN challenges : challenges'[c] = challenges[c]
    BY <1>1, <1>3, ChallengeCreated
  <1>4. ASSUME NEW b \in DOMAIN challenges, WrongCode(b)
        PROVE  \A c \in DOMAIN challenges : challenges[c].consumed => challenges'[c] = challenges[c]
    BY <1>1, <1>4, CodeRefused
  <1>5. ASSUME NEW d \in DOMAIN devices, ParentRevokes(d)
        PROVE  UNCHANGED challenges
    BY <1>5 DEF ParentRevokes
  <1>6. ASSUME Tick \/ Sending \/ Serving \/ UNCHANGED vars
        PROVE  UNCHANGED challenges
    BY <1>6 DEF Tick, Sending, Serving, vars, SignRotation, SignHeartbeat, SignTelemetry, Sign,
                Authenticate, RepeatRotation, RefuseRotation, RotateCredential, RecordHeartbeat,
                RecordPilotTelemetry
  <1> QED BY <1>2, <1>3, <1>4, <1>5, <1>6 DEF Next, Pairing

LEMMA PairingConfirmed ==
    ASSUME WellFormed, Confirmed, NEW c \in DOMAIN challenges, NEW i \in Installations,
           NEW k \in Keys, CompletePairing(c, i, k)
    PROVE  Confirmed'
  <1> DEFINE new == Len(devices) + 1
  <1>1. /\ DOMAIN devices' = DOMAIN devices \cup {new} /\ new \notin DOMAIN devices
        /\ devices'[new].family = challenges[c].family
        /\ devices'[new].challenge = c
    BY Paired, Zenon
  <1>2. \A d \in DOMAIN devices : /\ devices'[d].family = devices[d].family
                                  /\ devices'[d].challenge = devices[d].challenge
    BY Paired
  <1>3. /\ ~challenges[c].consumed /\ challenges[c].failed < MAX_PAIRING_ATTEMPTS
        /\ challenges' = Consume(c)
    BY DEF CompletePairing, Valid
  <1>4. /\ challenges'[c].consumed
        /\ \A b \in DOMAIN challenges :
              /\ challenges'[b].family = challenges[b].family
              /\ challenges'[b].failed = challenges[b].failed
              /\ b # c => challenges'[b] = challenges[b]
    BY <1>3, ChallengeConsumed DEF WellFormed
  <1>5. \A d \in DOMAIN devices : devices[d].challenge \in DOMAIN challenges
    BY DEF WellFormed, References
  <1>6. \A d \in DOMAIN devices : devices[d].challenge # c
    BY <1>3 DEF Confirmed
  <1> HIDE DEF new
  <1>7. ASSUME NEW d \in DOMAIN devices'
        PROVE  /\ challenges'[devices'[d].challenge].consumed
               /\ challenges'[devices'[d].challenge].failed < MAX_PAIRING_ATTEMPTS
               /\ challenges'[devices'[d].challenge].family = devices'[d].family
    <2>1. CASE d = new
      BY <1>1, <1>3, <1>4, <2>1
    <2>2. CASE d # new
      BY <1>1, <1>2, <1>4, <1>5, <1>6, <1>7, <2>2 DEF Confirmed
    <2> QED BY <2>1, <2>2
  <1>8. \A d, e \in DOMAIN devices' : devices'[d].challenge = devices'[e].challenge => d = e
    BY <1>1, <1>2, <1>6 DEF Confirmed
  <1> QED BY <1>7, <1>8 DEF Confirmed

LEMMA AlwaysConfirmed == Spec => []Confirmed
  <1>1. Init => Confirmed
    BY DEF Init, Confirmed
  <1>2. WellFormed /\ Confirmed /\ [Next]_vars => Confirmed'
    <2> SUFFICES ASSUME WellFormed, Confirmed, [Next]_vars
                 PROVE  Confirmed'
      OBVIOUS
    <2>1. CASE \E c \in DOMAIN challenges, i \in Installations, k \in Keys : CompletePairing(c, i, k)
      BY <2>1, PairingConfirmed
    <2>2. CASE ~\E c \in DOMAIN challenges, i \in Installations, k \in Keys : CompletePairing(c, i, k)
      <3>1. \A c \in DOMAIN challenges : challenges[c].consumed => challenges'[c] = challenges[c]
        BY <2>2, ChallengesKept
      <3>2. CASE Quiet
        BY <3>1, <3>2, ConfirmedKept DEF Quiet
      <3>3. CASE \E d \in DOMAIN devices : ParentRevokes(d)
        BY <3>1, <3>3, Revoked, ConfirmedKept
      <3>4. CASE \E h \in Handlers : RotateCredential(h)
        BY <3>1, <3>4, ConfirmedKept DEF RotateCredential
      <3> QED BY <2>2, <3>2, <3>3, <3>4, QuietOrNot
    <2> QED BY <2>1, <2>2
  <1> QED BY <1>1, <1>2, AlwaysWellFormed, PTL DEF Spec

\* However many confirmations of one challenge race, right codes and wrong ones, it pairs
\* at most one device, of its own family, and none once wrong codes have used it up.
THEOREM ChallengesPairOnce == Spec => []PairedOnce
  <1>1. Confirmed => PairedOnce
    BY DEF Confirmed, PairedOnce
  <1> QED BY <1>1, AlwaysConfirmed, PTL

-----------------------------------------------------------------------------
(* Rotation: the same answer to every retry *)

\* A rotated credential is active no more, and is rotated once.
RotationsKept ==
    \A x \in rotations :
        /\ credentials[x.old].status # "ACTIVE"
        /\ \A y \in rotations : x.old = y.old => x = y

\* A granted rotation is on record; a refused one is impossible for good.
Final(a) ==
    /\ a.old \in DOMAIN credentials
    /\ a.new # 0 =>
          \E x \in Recorded(a.old, a.idempotency) :
              x.new = a.new /\ credentials[x.new].key = a.key
    /\ a.new = 0 =>
          /\ credentials[a.old].status # "ACTIVE" \/ KeyUsed(a.key)
          /\ \A x \in Recorded(a.old, a.idempotency) : credentials[x.new].key # a.key

Answered == \A a \in answers : Final(a)

\* Credentials keep their keys, and do not become active again.
Ageing ==
    /\ DOMAIN credentials \subseteq DOMAIN credentials'
    /\ \A c \in DOMAIN credentials :
          /\ credentials'[c].key = credentials[c].key
          /\ credentials'[c].status = "ACTIVE" => credentials[c].status = "ACTIVE"

LEMMA CredentialsAge ==
    ASSUME WellFormed, [Next]_vars
    PROVE  Ageing
  <1>1. CASE Quiet
    BY <1>1 DEF Quiet, Ageing
  <1>2. ASSUME NEW c \in DOMAIN challenges, NEW i \in Installations, NEW k \in Keys,
               CompletePairing(c, i, k)
        PROVE  Ageing
    <2>1. DOMAIN credentials' = DOMAIN credentials \cup {Len(credentials) + 1}
      BY <1>2, Paired, Zenon
    <2>2. \A b \in DOMAIN credentials :
             /\ credentials'[b].key = credentials[b].key
             /\ credentials[b].device = installed[i] => credentials'[b].status = "REVOKED"
             /\ credentials[b].device # installed[i] => credentials'[b] = credentials[b]
      BY <1>2, Paired
    <2> QED BY <2>1, <2>2 DEF Ageing
  <1>3. ASSUME NEW d \in DOMAIN devices, ParentRevokes(d)
        PROVE  Ageing
    BY <1>3, Revoked DEF Ageing
  <1>4. ASSUME NEW h \in Handlers, RotateCredential(h)
        PROVE  Ageing
    <2>1. DOMAIN credentials' = DOMAIN credentials \cup {Len(credentials) + 1}
      BY <1>4, Rotated
    <2>2. \A c \in DOMAIN credentials :
             /\ credentials'[c].key = credentials[c].key
             /\ c # requests[acting[h]].credential => credentials'[c] = credentials[c]
      BY <1>4, Rotated
    <2>3. credentials'[requests[acting[h]].credential].status = "ROTATING"
      BY <1>4, Rotated
    <2> QED BY <2>1, <2>2, <2>3 DEF Ageing
  <1> QED BY <1>1, <1>2, <1>3, <1>4, QuietOrNot

\* Without a new rotation, what holds of the old ones and of an answer goes on holding.
LEMMA AnswerHolds ==
    ASSUME WellFormed, Ageing, rotations' = rotations, RotationsKept,
           NEW a \in Answer
    PROVE  RotationsKept' /\ (Final(a) => Final(a)')
  <1>1. \A x \in rotations : x.old \in DOMAIN credentials /\ x.new \in DOMAIN credentials
    BY DEF WellFormed, References
  <1>2. RotationsKept'
    BY <1>1 DEF Ageing, RotationsKept
  <1>3. KeyUsed(a.key) => KeyUsed(a.key)'
    BY DEF Ageing, KeyUsed
  <1>4. Recorded(a.old, a.idempotency)' = Recorded(a.old, a.idempotency)
    BY DEF Recorded
  <1>5. \A x \in Recorded(a.old, a.idempotency) : credentials'[x.new].key = credentials[x.new].key
    BY <1>1 DEF Recorded, Ageing
  <1> QED BY <1>2, <1>3, <1>4, <1>5 DEF Ageing, Final

\* A new rotation is the first of its credential, and its key is in no answer before it.
LEMMA RotationAnswered ==
    ASSUME WellFormed, RotationsKept, NEW h \in Handlers, RotateCredential(h)
    PROVE  /\ RotationsKept'
           /\ \A a \in answers : Final(a) => Final(a)'
           /\ \A a \in answers' \ answers : Final(a)'
  <1> DEFINE r == requests[acting[h]]
             old == r.credential
             new == Len(credentials) + 1
             rotation == [old |-> old, idempotency |-> r.idempotency, new |-> new]
             answer == [old |-> old, idempotency |-> r.idempotency, key |-> r.key, new |-> new]
  <1>1. /\ DOMAIN credentials' = DOMAIN credentials \cup {new} /\ new \notin DOMAIN credentials
        /\ old \in DOMAIN credentials /\ credentials[old].status = "ACTIVE"
        /\ ~KeyUsed(r.key)
        /\ rotations' = rotations \cup {rotation}
        /\ answers' = answers \cup {answer}
        /\ credentials'[old].status = "ROTATING"
        /\ credentials'[new].key = r.key
    BY Rotated
  <1>2. \A c \in DOMAIN credentials :
           /\ credentials'[c].key = credentials[c].key
           /\ c # old => credentials'[c] = credentials[c]
    BY Rotated
  <1>3. /\ rotation.old = old /\ rotation.idempotency = r.idempotency /\ rotation.new = new
        /\ answer.old = old /\ answer.idempotency = r.idempotency /\ answer.new = new
        /\ answer.key = r.key
    OBVIOUS
  <1>4. new # 0
    BY Tables DEF WellFormed
  <1> HIDE DEF old, new, rotation, answer
  <1>5. \A x \in rotations :
           x.old \in DOMAIN credentials /\ x.new \in DOMAIN credentials /\ x.old # old
    BY <1>1 DEF WellFormed, References, RotationsKept
  <1>6. RotationsKept'
    <2> SUFFICES ASSUME NEW x \in rotations'
                 PROVE  /\ credentials'[x.old].status # "ACTIVE"
                        /\ \A y \in rotations' : x.old = y.old => x = y
      BY DEF RotationsKept
    <2>1. CASE x = rotation
      BY <1>1, <1>3, <1>5, <2>1
    <2>2. CASE x # rotation
      BY <1>1, <1>2, <1>3, <1>5, <2>2 DEF RotationsKept
    <2> QED BY <2>1, <2>2
  <1>7. ASSUME NEW a \in answers, Final(a)
        PROVE  Final(a)'
    <2>1. a.old \in DOMAIN credentials /\ a.old \in DOMAIN credentials'
      BY <1>1, <1>7 DEF Final
    <2>2. \A x \in rotations : credentials'[x.new].key = credentials[x.new].key
      BY <1>2, <1>5
    <2>3. CASE a.new # 0
      BY <1>1, <1>7, <2>1, <2>2, <2>3 DEF Final, Recorded
    <2>4. CASE a.new = 0
      <3>1. credentials[a.old].status # "ACTIVE" \/ KeyUsed(a.key)
        BY <1>7, <2>4 DEF Final
      <3>2. credentials'[a.old].status # "ACTIVE" \/ KeyUsed(a.key)'
        BY <1>1, <1>2, <2>1, <3>1 DEF KeyUsed
      <3>3. ASSUME NEW x \in Recorded(a.old, a.idempotency)'
            PROVE  credentials'[x.new].key # a.key
        <4>1. x \in rotations' /\ x.old = a.old /\ x.idempotency = a.idempotency
          BY <3>3 DEF Recorded
        <4>2. CASE x \in rotations
          BY <1>7, <2>2, <2>4, <4>1, <4>2 DEF Final, Recorded
        <4>3. CASE x = rotation
          BY <1>1, <1>3, <3>1, <4>1, <4>3
        <4> QED BY <1>1, <4>1, <4>2, <4>3
      <3> QED BY <2>1, <2>4, <3>2, <3>3 DEF Final
    <2> QED BY <2>3, <2>4
  <1>8. ASSUME NEW a, a = answer
        PROVE  Final(a)'
    <2>1. rotation \in {x \in rotations' : x.old = a.old /\ x.idempotency = a.idempotency}
      BY <1>1, <1>3, <1>8
    <2> QED BY <1>1, <1>3, <1>4, <1>8, <2>1 DEF Final, Recorded
  <1> QED BY <1>1, <1>6, <1>7, <1>8

LEMMA RepeatAnswered ==
    ASSUME WellFormed, RotationsKept, NEW h \in Handlers, RepeatRotation(h)
    PROVE  \A a \in answers' \ answers : Final(a)'
  <1> DEFINE r == requests[acting[h]]
  <1>1. /\ acting[h] # 0 /\ UNCHANGED <<credentials, rotations>>
        /\ \E x \in Recorded(r.credential, r.idempotency) :
              RespondRotation(h, IF credentials[x.new].key = r.key THEN x.new ELSE 0)
    BY DEF RepeatRotation
  <1>2. PICK x \in Recorded(r.credential, r.idempotency) :
           RespondRotation(h, IF credentials[x.new].key = r.key THEN x.new ELSE 0)
    BY <1>1
  <1> DEFINE given == IF credentials[x.new].key = r.key THEN x.new ELSE 0
             answer == [old |-> r.credential, idempotency |-> r.idempotency, key |-> r.key,
                        new |-> given]
  <1>3. answers' = answers \cup {answer}
    BY <1>2 DEF RespondRotation
  <1>4. /\ answer.old = r.credential /\ answer.idempotency = r.idempotency
        /\ answer.key = r.key /\ answer.new = given
    OBVIOUS
  <1>5. /\ x \in rotations /\ x.old = r.credential /\ x.idempotency = r.idempotency
        /\ x.new \in DOMAIN credentials /\ r.credential \in DOMAIN credentials
        /\ credentials[r.credential].status # "ACTIVE"
    BY DEF Recorded, WellFormed, References, RotationsKept
  <1>6. 0 \notin DOMAIN credentials
    BY Tables DEF WellFormed
  <1>7. Recorded(r.credential, r.idempotency) = {x}
    BY <1>5 DEF Recorded, RotationsKept
  <1>8. /\ given # 0 => given = x.new /\ credentials[x.new].key = r.key
        /\ given = 0 => credentials[x.new].key # r.key
    BY <1>5, <1>6
  <1> HIDE DEF answer, given
  <1>9. ASSUME NEW a, a = answer
        PROVE  Final(a)'
    <2>1. Final(a)
      BY <1>4, <1>5, <1>7, <1>8, <1>9 DEF Final
    <2> QED BY <1>1, <2>1 DEF Final, Recorded, KeyUsed
  <1> QED BY <1>3, <1>9
\* A refusal leaves the credentials, and records nothing.
LEMMA RefusalAnswered ==
    ASSUME WellFormed, NEW h \in Handlers, RefuseRotation(h)
    PROVE  \A a \in answers' \ answers : Final(a)'
  <1> DEFINE r == requests[acting[h]]
             answer == [old |-> r.credential, idempotency |-> r.idempotency, key |-> r.key,
                        new |-> 0]
  <1>1. /\ UNCHANGED <<credentials, rotations>>
        /\ answers' = answers \cup {answer}
        /\ Recorded(r.credential, r.idempotency) = {}
        /\ credentials[r.credential].status # "ACTIVE" \/ KeyUsed(r.key)
    BY DEF RefuseRotation, RespondRotation, MayRotate
  <1>2. r.credential \in DOMAIN credentials
    BY ActingRequest DEF RefuseRotation
  <1>3. /\ answer.old = r.credential /\ answer.idempotency = r.idempotency
        /\ answer.key = r.key /\ answer.new = 0
    OBVIOUS
  <1> HIDE DEF answer
  <1>4. ASSUME NEW a, a = answer
        PROVE  Final(a)'
    <2>1. Final(a)
      BY <1>1, <1>2, <1>3, <1>4 DEF Final
    <2> QED BY <1>1, <2>1 DEF Final, Recorded, KeyUsed
  <1> QED BY <1>1, <1>4

\* Every answer is given by one of the three.
LEMMA NoAnswer ==
    ASSUME [Next]_vars,
           ~\E h \in Handlers : RepeatRotation(h) \/ RefuseRotation(h) \/ RotateCredential(h)
    PROVE  UNCHANGED <<rotations, answers>>
  BY DEF Next, vars, Tick, Pairing, CreatePairingChallenge, WrongCode, CompletePairing,
         ParentRevokes, Sending, SignRotation, SignHeartbeat, SignTelemetry, Sign, Serving,
         Authenticate, RecordHeartbeat, RecordPilotTelemetry

LEMMA AlwaysAnswered == Spec => [](RotationsKept /\ Answered)
  <1>1. Init => RotationsKept /\ Answered
    BY DEF Init, RotationsKept, Answered
  <1>2. WellFormed /\ RotationsKept /\ Answered /\ [Next]_vars => (RotationsKept /\ Answered)'
    <2> SUFFICES ASSUME WellFormed, RotationsKept, Answered, [Next]_vars
                 PROVE  (RotationsKept /\ Answered)'
      OBVIOUS
    <2>1. \A a \in answers : a \in Answer /\ Final(a)
      BY DEF WellFormed, TypeOK, Answered
    <2>2. Ageing
      BY CredentialsAge
    <2>3. ASSUME UNCHANGED rotations
          PROVE  RotationsKept' /\ \A a \in answers : Final(a)'
      <3>1. RotationsKept'
        <4>1. \A x \in rotations : x.old \in DOMAIN credentials
          BY DEF WellFormed, References
        <4> QED BY <2>2, <2>3, <4>1 DEF Ageing, RotationsKept
      <3> QED BY <2>1, <2>2, <2>3, <3>1, AnswerHolds
    <2>4. ASSUME NEW h \in Handlers, RotateCredential(h)
          PROVE  (RotationsKept /\ Answered)'
      BY <2>1, <2>4, RotationAnswered DEF Answered
    <2>5. ASSUME NEW h \in Handlers, RepeatRotation(h)
          PROVE  (RotationsKept /\ Answered)'
      <3>1. UNCHANGED rotations
        BY <2>5 DEF RepeatRotation
      <3> QED BY <2>3, <2>5, <3>1, RepeatAnswered DEF Answered
    <2>6. ASSUME NEW h \in Handlers, RefuseRotation(h)
          PROVE  (RotationsKept /\ Answered)'
      <3>1. UNCHANGED rotations
        BY <2>6 DEF RefuseRotation
      <3> QED BY <2>3, <2>6, <3>1, RefusalAnswered DEF Answered
    <2>7. ASSUME UNCHANGED <<rotations, answers>>
          PROVE  (RotationsKept /\ Answered)'
      BY <2>3, <2>7 DEF Answered
    <2> QED BY <2>4, <2>5, <2>6, <2>7, NoAnswer
  <1> QED BY <1>1, <1>2, AlwaysWellFormed, PTL DEF Spec

\* However often a rotation is sent again because its answer was lost, and whatever
\* happened to the credentials since, the answer is the same.
THEOREM RetriesGetOneAnswer == Spec => []AnswersAgree
  <1>1. WellFormed /\ RotationsKept /\ Answered => AnswersAgree
    <2> SUFFICES ASSUME WellFormed, RotationsKept, Answered, NEW a \in answers, NEW b \in answers,
                        a.old = b.old, a.idempotency = b.idempotency, a.key = b.key
                 PROVE  a.new = b.new
      BY DEF AnswersAgree
    <2>1. Final(a) /\ Final(b)
      BY DEF Answered
    <2>2. CASE a.new # 0 /\ b.new # 0
      <3>1. PICK x \in Recorded(a.old, a.idempotency) : x.new = a.new
        BY <2>1, <2>2 DEF Final
      <3>2. PICK y \in Recorded(b.old, b.idempotency) : y.new = b.new
        BY <2>1, <2>2 DEF Final
      <3>3. x = y
        BY <3>1, <3>2 DEF Recorded, RotationsKept
      <3> QED BY <3>1, <3>2, <3>3
    <2>3. CASE a.new = 0 \/ b.new = 0
      BY <2>1, <2>3 DEF Final
    <2> QED BY <2>2, <2>3
  <1> QED BY <1>1, AlwaysWellFormed, AlwaysAnswered, PTL

-----------------------------------------------------------------------------
(* Replays *)

\* The nonce of an accepted request is kept until its window ends.
NoncesKept ==
    \A r \in accepted :
        \/ [request |-> r, expires |-> NonceExpiry(r)] \in nonces
        \/ NonceExpiry(r) <= now

LEMMA ExpiryTyped ==
    ASSUME WellFormed, NEW r \in DOMAIN requests
    PROVE  NonceExpiry(r) \in Int
  <1>1. requests[r].at + MAX_CLOCK_SKEW_SECONDS \in Int
    BY Tables, ConstantsTyped DEF WellFormed, SignedRequest
  <1> QED BY <1>1, ConstantsTyped DEF NonceExpiry

\* Requests are never rewritten, and time does not go back.
LEMMA WindowsKept ==
    ASSUME WellFormed, [Next]_vars
    PROVE  /\ now' \in Nat /\ now <= now'
           /\ \A r \in DOMAIN requests : NonceExpiry(r)' = NonceExpiry(r)
  <1>1. TypeOK
    BY DEF WellFormed
  <1>2. now' = now \/ now' = now + 1
    BY DEF Next, vars, Tick, Pairing, CreatePairingChallenge, WrongCode, CompletePairing,
           ParentRevokes, Sending, SignRotation, SignHeartbeat, SignTelemetry, Sign, Serving,
           Authenticate, RepeatRotation, RefuseRotation, RotateCredential, RecordHeartbeat,
           RecordPilotTelemetry
  <1>3. \A r \in DOMAIN requests : requests'[r] = requests[r]
    <2>1. ASSUME NEW c, NEW op, NEW k, NEW ik, NEW healthy, Sign(c, op, k, ik, healthy)
          PROVE  \A r \in DOMAIN requests : requests'[r] = requests[r]
      <3>1. PICK row : requests' = Append(requests, row)
        BY <2>1 DEF Sign
      <3>2. \A r \in 1..Len(requests) : requests'[r] = requests[r]
        BY <1>1, <3>1 DEF TypeOK
      <3> QED BY <1>1, <3>2, Tables
    <2>2. Sending \/ UNCHANGED requests
      BY DEF Next, vars, Tick, Pairing, CreatePairingChallenge, WrongCode, CompletePairing,
             ParentRevokes, Serving, Authenticate, RepeatRotation, RefuseRotation,
             RotateCredential, RecordHeartbeat, RecordPilotTelemetry
    <2> QED BY <2>1, <2>2 DEF Sending, SignRotation, SignHeartbeat, SignTelemetry
  <1> QED BY <1>1, <1>2, <1>3, Tables DEF NonceExpiry

LEMMA AlwaysNoncesKept == Spec => []NoncesKept
  <1>1. Init => NoncesKept
    BY DEF Init, NoncesKept
  <1>2. WellFormed /\ NoncesKept /\ [Next]_vars => NoncesKept'
    <2> SUFFICES ASSUME WellFormed, NoncesKept, [Next]_vars, NEW r \in accepted'
                 PROVE  \/ [request |-> r, expires |-> NonceExpiry(r)'] \in nonces'
                        \/ NonceExpiry(r)' <= now'
      BY DEF NoncesKept
    <2>1. /\ now \in Nat /\ now' \in Nat /\ now <= now'
      BY WindowsKept, Tables DEF WellFormed
    <2>2. ASSUME NEW h \in Handlers, NEW q \in DOMAIN requests, Authenticate(h, q)
          PROVE  \/ [request |-> r, expires |-> NonceExpiry(r)'] \in nonces'
                 \/ NonceExpiry(r)' <= now'
      <3>1. NonceExpiry(r)' = NonceExpiry(r) /\ now' = now
        BY <2>2 DEF Authenticate, NonceExpiry
      <3>2. CASE r \notin accepted
        BY <2>2, <3>1, <3>2 DEF Authenticate
      <3>3. CASE r \in accepted
        <4>1. NonceExpiry(r) \in Int
          BY <3>3, ExpiryTyped, Tables DEF WellFormed, TypeOK
        <4>2. UnexpiredNonces \subseteq nonces'
          BY <2>2 DEF Authenticate
        <4> DEFINE nonce == [request |-> r, expires |-> NonceExpiry(r)]
        <4>3. nonce \in nonces \/ NonceExpiry(r) <= now
          BY <3>3 DEF NoncesKept
        <4>4. nonce.expires = NonceExpiry(r)
          OBVIOUS
        <4> HIDE DEF nonce
        <4>5. nonce \in UnexpiredNonces \/ NonceExpiry(r) <= now
          BY <2>1, <4>1, <4>3, <4>4 DEF UnexpiredNonces
        <4> QED BY <3>1, <4>2, <4>5 DEF nonce
      <3> QED BY <3>2, <3>3
    <2>3. CASE UNCHANGED <<nonces, accepted>>
      <3>1. r \in DOMAIN requests
        BY <2>3, Tables DEF WellFormed, TypeOK
      <3>2. NonceExpiry(r)' = NonceExpiry(r)
        BY <3>1, WindowsKept
      <3>5. NonceExpiry(r) \in Int
        BY <3>1, ExpiryTyped
      <3>6. \/ [request |-> r, expires |-> NonceExpiry(r)] \in nonces
            \/ NonceExpiry(r) <= now
        BY <2>3 DEF NoncesKept
      <3> HIDE DEF NonceExpiry
      <3>7. NonceExpiry(r) <= now => NonceExpiry(r) <= now'
        BY <2>1, <3>5
      <3> QED BY <2>3, <3>2, <3>6, <3>7
    <2>4. \/ UNCHANGED <<nonces, accepted>>
          \/ \E h \in Handlers, q \in DOMAIN requests : Authenticate(h, q)
      BY DEF Next, vars, Tick, Pairing, CreatePairingChallenge, WrongCode, CompletePairing,
             ParentRevokes, Sending, SignRotation, SignHeartbeat, SignTelemetry, Sign, Serving,
             RepeatRotation, RefuseRotation, RotateCredential, RecordHeartbeat,
             RecordPilotTelemetry
    <2> QED BY <2>2, <2>3, <2>4
  <1> QED BY <1>1, <1>2, AlwaysWellFormed, PTL DEF Spec

\* A whole number of seconds that has passed in ticks has passed in seconds.
LEMMA SecondsPassed ==
    ASSUME NEW k \in Int, NEW t \in Nat, k * Second <= t
    PROVE  Seconds(t) >= k
  <1> DEFINE q == t \div Second
  <1>1. Second \in Nat /\ Second > 0
    BY ConstantsTyped
  <1>2. q \in Int /\ t < (q + 1) * Second
    BY <1>1
  <1> HIDE DEF q
  <1>3. ASSUME q < k
        PROVE  FALSE
    <2>1. PICK n \in Nat : k = q + 1 + n
      <3>1. k - (q + 1) \in Nat /\ k = q + 1 + (k - (q + 1))
        BY <1>2, <1>3
      <3> QED BY <3>1
    <2>2. k * Second = (q + 1) * Second + n * Second
      BY <1>1, <1>2, <2>1
    <2>3. n * Second \in Nat /\ (q + 1) * Second \in Int
      BY <1>1, <1>2
    <2> QED BY <1>2, <2>2, <2>3
  <1> QED BY <1>2, <1>3 DEF Seconds, q

\* A request delivered again is accepted again only in the last second of its window,
\* when its nonce is gone and its time stamp still counts as fresh.
THEOREM RequestsAcceptedOnce == Spec => AcceptedOnce
  <1>1. WellFormed /\ NoncesKept /\ [Next]_vars =>
           [\A h \in Handlers :
               /\ acting[h] = 0 /\ acting'[h] # 0
               /\ acting'[h] \in accepted
               => Seconds(now) >= requests[acting'[h]].at + MAX_CLOCK_SKEW_SECONDS]_vars
    <2> SUFFICES ASSUME WellFormed, NoncesKept, Next, NEW h \in Handlers, acting[h] = 0,
                        acting'[h] # 0, acting'[h] \in accepted
                 PROVE  Seconds(now) >= requests[acting'[h]].at + MAX_CLOCK_SKEW_SECONDS
      OBVIOUS
    <2>1. acting \in [Handlers -> 0..Len(requests)]
      BY DEF WellFormed, TypeOK
    <2>2. \E q \in DOMAIN requests : Authenticate(h, q) /\ acting'[h] = q
      <3>1. \A g \in Handlers : Done(g) => acting'[h] = 0
        BY <2>1 DEF Done
      <3>2. \E g \in Handlers, q \in DOMAIN requests : Authenticate(g, q)
        BY <3>1 DEF Next, Tick, Pairing, CreatePairingChallenge, WrongCode, CompletePairing,
                    ParentRevokes, Sending, SignRotation, SignHeartbeat, SignTelemetry, Sign,
                    Serving, RepeatRotation, RefuseRotation, RotateCredential, RecordHeartbeat,
                    RecordPilotTelemetry
      <3>3. PICK g \in Handlers, q \in DOMAIN requests : Authenticate(g, q)
        BY <3>2
      <3>4. acting' = [acting EXCEPT ![g] = q] \/ acting' = acting
        BY <3>3 DEF Authenticate
      <3>5. g = h /\ acting'[h] = q
        BY <2>1, <3>4
      <3> QED BY <3>3, <3>5
    <2>3. PICK q \in DOMAIN requests : Authenticate(h, q) /\ acting'[h] = q
      BY <2>2
    <2>4. ~\E n \in UnexpiredNonces : n.request = q
      BY <2>3 DEF Authenticate
    <2> DEFINE nonce == [request |-> q, expires |-> NonceExpiry(q)]
    <2>5. nonce \in nonces \/ NonceExpiry(q) <= now
      BY <2>3 DEF NoncesKept
    <2>6. nonce.request = q /\ nonce.expires = NonceExpiry(q)
      OBVIOUS
    <2> HIDE DEF nonce
    <2>7. NonceExpiry(q) \in Int /\ now \in Nat
      BY ExpiryTyped, Tables DEF WellFormed
    <2>8. NonceExpiry(q) <= now
      BY <2>4, <2>5, <2>6, <2>7 DEF UnexpiredNonces
    <2>9. requests[q].at + MAX_CLOCK_SKEW_SECONDS \in Int
      BY Tables, ConstantsTyped DEF WellFormed, SignedRequest
    <2> QED BY <2>3, <2>7, <2>8, <2>9, SecondsPassed DEF NonceExpiry
  <1> QED BY <1>1, AlwaysWellFormed, AlwaysNoncesKept, PTL DEF Spec, AcceptedOnce

-----------------------------------------------------------------------------
(* Revocation is final *)

\* Nothing a device had under way when it was revoked changes its row or gives it a
\* credential afterwards.
THEOREM RevocationIsFinal == Spec => FrozenWhenRevoked
  <1>1. WellFormed /\ Chained /\ [Next]_vars =>
           [\A d \in DOMAIN devices : devices[d].revoked =>
               /\ devices'[d] = devices[d]
               /\ \A c \in DOMAIN credentials' :
                     credentials'[c].device = d =>
                         c \in DOMAIN credentials /\ credentials'[c] = credentials[c]]_vars
    <2> SUFFICES ASSUME WellFormed, Chained, [Next]_vars, NEW d \in DOMAIN devices,
                        devices[d].revoked
                 PROVE  /\ devices'[d] = devices[d]
                        /\ \A c \in DOMAIN credentials' :
                              credentials'[c].device = d =>
                                  c \in DOMAIN credentials /\ credentials'[c] = credentials[c]
      OBVIOUS
    <2>1. \A c \in DOMAIN credentials : credentials[c].device = d => credentials[c].status = "REVOKED"
      BY DEF Chained, RevokedAreBare
    <2>2. CASE Quiet
      BY <2>2 DEF Quiet
    <2>3. ASSUME NEW e \in DOMAIN devices, ParentRevokes(e)
          PROVE  /\ devices'[d] = devices[d]
                 /\ \A c \in DOMAIN credentials' :
                       credentials'[c].device = d =>
                           c \in DOMAIN credentials /\ credentials'[c] = credentials[c]
      BY <2>1, <2>3, Revoked
    <2>4. ASSUME NEW c \in DOMAIN challenges, NEW i \in Installations, NEW k \in Keys,
                 CompletePairing(c, i, k)
          PROVE  /\ devices'[d] = devices[d]
                 /\ \A b \in DOMAIN credentials' :
                       credentials'[b].device = d =>
                           b \in DOMAIN credentials /\ credentials'[b] = credentials[b]
      <3>1. /\ DOMAIN credentials' = DOMAIN credentials \cup {Len(credentials) + 1}
            /\ credentials'[Len(credentials) + 1].device = Len(devices) + 1
            /\ Len(devices) + 1 \notin DOMAIN devices
        BY <2>4, Paired, Zenon
      <3>2. \A b \in DOMAIN credentials :
               /\ credentials'[b].device = credentials[b].device
               /\ credentials[b].status = "REVOKED" => credentials'[b] = credentials[b]
        BY <2>4, Paired
      <3>3. devices'[d] = devices[d]
        BY <2>4, Paired
      <3> QED BY <2>1, <3>1, <3>2, <3>3
    <2>5. ASSUME NEW h \in Handlers, RotateCredential(h)
          PROVE  /\ devices'[d] = devices[d]
                 /\ \A c \in DOMAIN credentials' :
                       credentials'[c].device = d =>
                           c \in DOMAIN credentials /\ credentials'[c] = credentials[c]
      <3> DEFINE old == requests[acting[h]].credential
      <3>1. /\ DOMAIN credentials' = DOMAIN credentials \cup {Len(credentials) + 1}
            /\ old \in DOMAIN credentials /\ credentials[old].status = "ACTIVE"
            /\ credentials'[Len(credentials) + 1].device = credentials[old].device
        BY <2>5, Rotated
      <3>2. \A c \in DOMAIN credentials :
               /\ credentials'[c].device = credentials[c].device
               /\ c # old => credentials'[c] = credentials[c]
        BY <2>5, Rotated
      <3>3. devices' = devices
        BY <2>5 DEF RotateCredential
      <3> HIDE DEF old
      <3> QED BY <2>1, <3>1, <3>2, <3>3
    <2> QED BY <2>2, <2>3, <2>4, <2>5, QuietOrNot
  <1> QED BY <1>1, AlwaysWellFormed, AlwaysChained, PTL DEF Spec, FrozenWhenRevoked
=============================================================================
