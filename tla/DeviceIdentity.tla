--------------------------- MODULE DeviceIdentity ---------------------------
(***************************************************************************)
(* Pairing, credentials and signed requests of devices                     *)
(* (api/device_identity.py, guardian_core/device_protocol.py), and what an *)
(* authenticated request does to the device's row (api/storage.py).        *)
(*                                                                         *)
(* A request is authenticated on the event loop and acted on afterwards in *)
(* a thread: whatever happens in between finds a principal that has been   *)
(* checked already.  A request may be delivered any number of times, or    *)
(* never.  Ids are positions: rows are numbered as they are inserted, and  *)
(* the nonce of a request is its number.                                   *)
(***************************************************************************)
EXTENDS Integers, Sequences, FiniteSets

CONSTANTS
    Families,
    Installations,   \* installation_id of an agent
    Keys,            \* public keys
    IdempotencyKeys,
    NoKey,           \* the field of a request that carries no key
    Handlers,        \* requests being acted on at the same time
    Second,          \* clock ticks in a second
    Drift,           \* what a device's clock may be off, in seconds
    MAX_CLOCK_SKEW_SECONDS,
    MAX_PAIRING_ATTEMPTS,
    PAIRING_TTL, CREDENTIAL_TTL, ROTATION_GRACE,   \* in ticks
    MaxHeartbeatAge, \* in ticks: 90 seconds
    MaxTime, MaxChallenges, MaxDevices, MaxRequests  \* bounds

ASSUME IdentityConstants ==
    /\ NoKey \notin Keys \cup IdempotencyKeys
    /\ Second \in Nat \ {0}
    /\ Drift \subseteq Int
    /\ {MAX_CLOCK_SKEW_SECONDS, MAX_PAIRING_ATTEMPTS, PAIRING_TTL, CREDENTIAL_TTL,
        ROTATION_GRACE, MaxHeartbeatAge, MaxTime,
        MaxChallenges, MaxDevices, MaxRequests} \subseteq Nat

VARIABLES
    now,
    challenges,     \* pairing_challenges
    devices,        \* devices
    credentials,    \* device_credentials
    installed,      \* device_installations: the device of each, or 0
    rotations,      \* credential_rotations
    nonces,         \* device_request_nonces
    requests,       \* what devices have signed and sent
    acting,         \* the authenticated request each handler is about to act on, or 0
    accepted,       \* history: requests authenticated so far
    answers         \* history: answers to rotation requests

vars == <<now, challenges, devices, credentials, installed, rotations, nonces,
          requests, acting, accepted, answers>>

Challenge == [family: Families, expires: Nat, failed: 0..MAX_PAIRING_ATTEMPTS,
              consumed: BOOLEAN]

\* "challenge" is a history field: the challenge the device was paired with.
Device == [family: Families, revoked: BOOLEAN, seen: Int, protected: BOOLEAN,
           challenge: Nat]

Credential == [device: Nat, key: Keys, status: {"ACTIVE", "ROTATING", "REVOKED"},
               expires: Nat]

Rotation == [old: Nat, idempotency: IdempotencyKeys, new: Nat]

Nonce == [request: Nat, expires: Int]

\* The other device requests leave the tables of this module alone.
Op == {"ROTATE", "HEARTBEAT", "PILOT_TELEMETRY"}

\* "at" is the time stamp, in seconds of the device's clock; key and
\* idempotency belong to a rotation, healthy to a heartbeat.
SignedRequest == [credential: Nat, at: Int, op: Op, key: Keys \cup {NoKey},
                  idempotency: IdempotencyKeys \cup {NoKey}, healthy: BOOLEAN]

\* new is 0 when the rotation was refused.
Answer == [old: Nat, idempotency: IdempotencyKeys, key: Keys, new: Nat]

TypeOK ==
    /\ now \in 0..MaxTime
    /\ challenges \in Seq(Challenge)
    /\ devices \in Seq(Device)
    /\ credentials \in Seq(Credential)
    /\ installed \in [Installations -> 0..Len(devices)]
    /\ rotations \subseteq Rotation
    /\ nonces \subseteq Nonce
    /\ requests \in Seq(SignedRequest)
    /\ acting \in [Handlers -> 0..Len(requests)]
    /\ accepted \subseteq 1..Len(requests)
    /\ answers \subseteq Answer

Never == -1

Init ==
    /\ now = 0
    /\ challenges = <<>> /\ devices = <<>> /\ credentials = <<>>
    /\ installed = [i \in Installations |-> 0]
    /\ rotations = {} /\ nonces = {} /\ requests = <<>>
    /\ acting = [h \in Handlers |-> 0]
    /\ accepted = {} /\ answers = {}

Tick ==
    /\ now < MaxTime
    /\ now' = now + 1
    /\ UNCHANGED <<challenges, devices, credentials, installed, rotations, nonces,
                   requests, acting, accepted, answers>>

-----------------------------------------------------------------------------
(* Pairing: each call is one BEGIN IMMEDIATE transaction *)

CreatePairingChallenge(f) ==
    /\ Len(challenges) < MaxChallenges
    /\ challenges' = Append(challenges, [family |-> f, expires |-> now + PAIRING_TTL,
                                         failed |-> 0, consumed |-> FALSE])
    /\ UNCHANGED <<now, devices, credentials, installed, rotations, nonces, requests,
                   acting, accepted, answers>>

\* Mutation: the attempts are not counted against the challenge.
ValidAnyAttempts(c) == ~challenges[c].consumed /\ now < challenges[c].expires

Valid(c) ==
    /\ ~challenges[c].consumed
    /\ now < challenges[c].expires
    /\ challenges[c].failed < MAX_PAIRING_ATTEMPTS

KeyUsed(k) == \E c \in DOMAIN credentials : credentials[c].key = k

\* The credentials of device d revoked, whatever their status was.
RevokeCredentials(d) ==
    [c \in DOMAIN credentials |->
        IF credentials[c].device = d THEN [credentials[c] EXCEPT !.status = "REVOKED"]
                                     ELSE credentials[c]]

RevokeDevice(d) == [devices EXCEPT ![d].revoked = TRUE]

WrongCode(c) ==
    /\ Valid(c)
    /\ challenges' = [challenges EXCEPT ![c].failed = @ + 1]
    /\ UNCHANGED <<now, devices, credentials, installed, rotations, nonces, requests,
                   acting, accepted, answers>>

\* Pairing an installation again revokes the device it was.
RevokePrevious(i) ==
    IF installed[i] = 0 THEN <<devices, credentials>>
    ELSE <<RevokeDevice(installed[i]), RevokeCredentials(installed[i])>>

\* Mutation: consumed_at is not set.
NotConsumed(c) == challenges

Consume(c) == [challenges EXCEPT ![c].consumed = TRUE]

\* The right code. An installation known to another family is refused, and so is a
\* public key the table holds already (UNIQUE): both roll everything back.
CompletePairing(c, i, k) ==
    /\ Valid(c)
    /\ Len(devices) < MaxDevices
    /\ installed[i] # 0 => devices[installed[i]].family = challenges[c].family
    /\ ~KeyUsed(k)
    /\ LET revoked == RevokePrevious(i)
       IN  /\ devices' = Append(revoked[1],
                  [family |-> challenges[c].family, revoked |-> FALSE, seen |-> Never,
                   protected |-> FALSE, challenge |-> c])
           /\ credentials' = Append(revoked[2],
                  [device |-> Len(devices) + 1, key |-> k, status |-> "ACTIVE",
                   expires |-> now + CREDENTIAL_TTL])
    /\ installed' = [installed EXCEPT ![i] = Len(devices) + 1]
    /\ challenges' = Consume(c)
    /\ UNCHANGED <<now, rotations, nonces, requests, acting, accepted, answers>>

\* A parent revokes a device of the family.
ParentRevokes(d) ==
    /\ devices' = RevokeDevice(d)
    /\ credentials' = RevokeCredentials(d)
    /\ UNCHANGED <<now, challenges, installed, rotations, nonces, requests, acting,
                   accepted, answers>>

-----------------------------------------------------------------------------
(* Signed requests *)

Seconds(t) == t \div Second

\* sign_device_request: a fresh nonce and the time of the device's clock.
Sign(c, op, k, ik, healthy) ==
    /\ Len(requests) < MaxRequests
    /\ \E drift \in Drift :
          requests' = Append(requests, [credential |-> c, at |-> Seconds(now) + drift,
                                        op |-> op, key |-> k, idempotency |-> ik,
                                        healthy |-> healthy])
    /\ UNCHANGED <<now, challenges, devices, credentials, installed, rotations, nonces,
                   acting, accepted, answers>>

SignRotation(c, k, ik) == Sign(c, "ROTATE", k, ik, FALSE)

SignHeartbeat(c, healthy) == Sign(c, "HEARTBEAT", NoKey, NoKey, healthy)

SignTelemetry(c) == Sign(c, "PILOT_TELEMETRY", NoKey, NoKey, FALSE)

\* get_credential: the status of the device's row overrides the credential's.
Usable(c) ==
    /\ credentials[c].status # "REVOKED" /\ ~devices[credentials[c].device].revoked
    /\ now < credentials[c].expires

Abs(x) == IF x < 0 THEN -x ELSE x

Fresh(r) == Abs(Seconds(now) - requests[r].at) <= MAX_CLOCK_SKEW_SECONDS

\* Mutation: the nonce is kept until the time stamp, and not for the skew after it.
NonceExpiryNoSkew(r) == requests[r].at * Second

\* The end of the window, in ticks.
NonceExpiry(r) == (requests[r].at + MAX_CLOCK_SKEW_SECONDS) * Second

UnexpiredNonces == {n \in nonces : n.expires > now}

\* authenticate, called on the event loop: nothing another request does can come
\* between its two transactions and matter to the second.  Expired nonces are deleted
\* even when the request turns out to be a replay.
Authenticate(h, r) ==
    /\ acting[h] = 0
    /\ Usable(requests[r].credential)
    /\ Fresh(r)
    /\ IF \E n \in UnexpiredNonces : n.request = r
       THEN nonces' = UnexpiredNonces /\ UNCHANGED <<acting, accepted>>
       ELSE /\ nonces' = UnexpiredNonces \cup {[request |-> r, expires |-> NonceExpiry(r)]}
            /\ acting' = [acting EXCEPT ![h] = r]
            /\ accepted' = accepted \cup {r}
    /\ UNCHANGED <<now, challenges, devices, credentials, installed, rotations, requests,
                   answers>>

-----------------------------------------------------------------------------
(* What the handler of an authenticated request does *)

Done(h) == acting' = [acting EXCEPT ![h] = 0]

RespondRotation(h, new) ==
    LET r == requests[acting[h]]
    IN  answers' = answers \cup {[old |-> r.credential, idempotency |-> r.idempotency,
                                  key |-> r.key, new |-> new]}

\* Mutation: a retry is not recognised.
NoneRecorded(old, ik) == {}

Recorded(old, ik) == {x \in rotations : x.old = old /\ x.idempotency = ik}

\* Mutation: a rotation only checks that the credential is not revoked.
NotRevoked(c) == credentials[c].status # "REVOKED"

MayRotate(c) == credentials[c].status = "ACTIVE"

\* The idempotency key names an earlier rotation: same answer, or a conflict when the
\* public key is another one.
RepeatRotation(h) ==
    /\ acting[h] # 0 /\ requests[acting[h]].op = "ROTATE"
    /\ LET r == requests[acting[h]]
       IN  \E x \in Recorded(r.credential, r.idempotency) :
              RespondRotation(h, IF credentials[x.new].key = r.key THEN x.new ELSE 0)
    /\ Done(h)
    /\ UNCHANGED <<now, challenges, devices, credentials, installed, rotations, nonces,
                   requests, accepted>>

\* rotation_not_allowed, or the public key exists (UNIQUE): rolled back.
RefuseRotation(h) ==
    /\ acting[h] # 0 /\ requests[acting[h]].op = "ROTATE"
    /\ LET r == requests[acting[h]]
       IN  /\ Recorded(r.credential, r.idempotency) = {}
           /\ ~MayRotate(r.credential) \/ KeyUsed(r.key)
    /\ RespondRotation(h, 0)
    /\ Done(h)
    /\ UNCHANGED <<now, challenges, devices, credentials, installed, rotations, nonces,
                   requests, accepted>>

RotateCredential(h) ==
    /\ acting[h] # 0 /\ requests[acting[h]].op = "ROTATE"
    /\ LET r == requests[acting[h]]
           old == r.credential
           new == Len(credentials) + 1
       IN  /\ Recorded(old, r.idempotency) = {}
           /\ MayRotate(old) /\ ~KeyUsed(r.key)
           /\ credentials' = Append(
                  [credentials EXCEPT ![old].status = "ROTATING",
                                      ![old].expires = now + ROTATION_GRACE],
                  [device |-> credentials[old].device, key |-> r.key, status |-> "ACTIVE",
                   expires |-> now + CREDENTIAL_TTL])
           /\ rotations' = rotations \cup
                  {[old |-> old, idempotency |-> r.idempotency, new |-> new]}
           /\ RespondRotation(h, new)
    /\ Done(h)
    /\ UNCHANGED <<now, challenges, devices, installed, nonces, requests, accepted>>

\* Mutation: the UPDATE does not look at lifecycle_status.
AnyDevice(d) == TRUE

\* WHERE lifecycle_status = 'ACTIVE'.
TouchAllowed(d) == ~devices[d].revoked

\* record_heartbeat: healthy only if the sample is recent. A revoked device is a 404.
RecordHeartbeat(h) ==
    /\ acting[h] # 0 /\ requests[acting[h]].op = "HEARTBEAT"
    /\ LET r == requests[acting[h]]
           d == credentials[r.credential].device
       IN  devices' = IF TouchAllowed(d)
              THEN [devices EXCEPT ![d].seen = now,
                        ![d].protected = r.healthy /\ now - r.at * Second <= MaxHeartbeatAge]
              ELSE devices
    /\ Done(h)
    /\ UNCHANGED <<now, challenges, credentials, installed, rotations, nonces, requests,
                   accepted, answers>>

\* record_pilot_telemetry touches the device: last_seen_at, not its protection.
RecordPilotTelemetry(h) ==
    /\ acting[h] # 0 /\ requests[acting[h]].op = "PILOT_TELEMETRY"
    /\ LET d == credentials[requests[acting[h]].credential].device
       IN  devices' = IF TouchAllowed(d) THEN [devices EXCEPT ![d].seen = now] ELSE devices
    /\ Done(h)
    /\ UNCHANGED <<now, challenges, credentials, installed, rotations, nonces, requests,
                   accepted, answers>>

-----------------------------------------------------------------------------
Pairing ==
    \/ \E f \in Families : CreatePairingChallenge(f)
    \/ \E c \in DOMAIN challenges : WrongCode(c)
    \/ \E c \in DOMAIN challenges, i \in Installations, k \in Keys : CompletePairing(c, i, k)
    \/ \E d \in DOMAIN devices : ParentRevokes(d)

Sending ==
    \E c \in DOMAIN credentials :
        \/ \E k \in Keys, ik \in IdempotencyKeys : SignRotation(c, k, ik)
        \/ \E healthy \in BOOLEAN : SignHeartbeat(c, healthy)
        \/ SignTelemetry(c)

Serving ==
    \E h \in Handlers :
        \/ \E r \in DOMAIN requests : Authenticate(h, r)
        \/ RepeatRotation(h)
        \/ RefuseRotation(h)
        \/ RotateCredential(h)
        \/ RecordHeartbeat(h)
        \/ RecordPilotTelemetry(h)

Next == Tick \/ Pairing \/ Sending \/ Serving

Spec == Init /\ [][Next]_vars

-----------------------------------------------------------------------------
(* Properties *)

\* A paired device has exactly one credential that will not end by itself within the
\* grace period, whichever rotations, pairings and revocations were in flight together,
\* and a revoked one has none that is not revoked.
OneLiveChain ==
    \A d \in DOMAIN devices :
        LET own == {c \in DOMAIN credentials : credentials[c].device = d}
        IN  IF devices[d].revoked
            THEN \A c \in own : credentials[c].status = "REVOKED"
            ELSE Cardinality({c \in own : credentials[c].status = "ACTIVE"}) = 1

\* However many confirmations of one challenge race, right codes and wrong ones, it pairs
\* one device, of its own family, and none once the wrong codes have used it up.
PairedOnce ==
    /\ \A d, e \in DOMAIN devices : d # e => devices[d].challenge # devices[e].challenge
    /\ \A d \in DOMAIN devices :
          /\ devices[d].family = challenges[devices[d].challenge].family
          /\ challenges[devices[d].challenge].failed < MAX_PAIRING_ATTEMPTS

\* However often a rotation is sent again because its answer was lost, and whatever
\* happened to the credentials since, the answer is the same.
AnswersAgree ==
    \A a, b \in answers :
        /\ a.old = b.old /\ a.idempotency = b.idempotency /\ a.key = b.key
        => a.new = b.new

\* A request delivered again is accepted again by no handler, until the last second of
\* its window has begun: then its nonce is gone and its time stamp still counts as fresh.
AcceptedOnce ==
    [][\A h \in Handlers :
          /\ acting[h] = 0 /\ acting'[h] # 0
          /\ acting'[h] \in accepted
          => Seconds(now) >= requests[acting'[h]].at + MAX_CLOCK_SKEW_SECONDS]_vars

\* Nothing a device had under way when it was revoked changes its row or gives it a
\* credential afterwards.
FrozenWhenRevoked ==
    [][\A d \in DOMAIN devices : devices[d].revoked =>
          /\ devices'[d] = devices[d]
          /\ \A c \in DOMAIN credentials' :
                credentials'[c].device = d =>
                    c \in DOMAIN credentials /\ credentials'[c] = credentials[c]]_vars
=============================================================================
