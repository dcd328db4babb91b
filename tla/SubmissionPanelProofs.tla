------------------------ MODULE SubmissionPanelProofs ------------------------
(***************************************************************************)
(* Theorems about SubmissionPanel, for any number of keys, texts and        *)
(* disturbances.                                                            *)
(***************************************************************************)
EXTENDS SubmissionPanel, TLAPS

\* Keys are positive numbers, and the id of a link is none of them.
LEMMA KeysAreNumbers ==
  /\ Keys \subseteq Nat \ {0} /\ OldId \in Nat \ {0} /\ OldId \notin Keys
  /\ \A k \in Keys : -k \in -MaxSends..OldId /\ -k # 0 /\ -k < 0 /\ k \in -MaxSends..OldId
  /\ OldId \in -MaxSends..OldId /\ None \in -MaxSends..OldId /\ None \notin Keys
  BY SendsAssumption DEF Keys, OldId, None

\* A record that is not the empty one has a key, and its fields have their types.
LEMMA RecoveryShape ==
  ASSUME NEW r \in Recoveries
  PROVE  /\ r # NoRecovery <=> r.key # None
         /\ r # NoRecovery => r.key \in Keys /\ r.source \in Sources /\ r.id \in Keys \cup {None}
         /\ r.key \in Keys \cup {None} /\ r.id \in Keys \cup {None}
  BY KeysAreNumbers DEF Recoveries, NoRecovery, None

\* What the query is keyed by.
LEMMA TargetType ==
  ASSUME NEW r \in Recoveries, NEW u \in Keys \cup {None, OldId}
  PROVE  /\ Target(u, r) \in -MaxSends..OldId
         /\ r # NoRecovery => Target(u, r) # None
         /\ u # None => Target(u, r) = u
<1>1. /\ r # NoRecovery => r.key \in Keys
      /\ r.key \in Keys \cup {None} /\ r.id \in Keys \cup {None}
  BY RecoveryShape
<1>2. -r.key \in -MaxSends..OldId
  <2>1. CASE r.key \in Keys
    BY <2>1, KeysAreNumbers
  <2>2. CASE r.key = 0
    BY <2>2, SendsAssumption DEF OldId
  <2> QED BY <1>1, <2>1, <2>2 DEF None
<1>3. r # NoRecovery => -r.key # None
  BY <1>1, KeysAreNumbers DEF None
<1> QED BY <1>1, <1>2, <1>3, KeysAreNumbers DEF Target

\* The query after a change of what it is keyed by.
LEMMA RequeryKeeps ==
  ASSUME TypeOK, QueryFits, NEW u, NEW r, Requery(u, r), url' = u, recovery' = r
  PROVE  /\ shown' \in [id : Keys \cup {None, OldId}, status : Statuses]
         /\ error' \in {"none", "401", "404", "5xx", "problem"}
         /\ fetching' \in -MaxSends..OldId /\ due' \in BOOLEAN
         /\ fetching' # None => fetching' = target'
         /\ shown' # NoData => target' # None
<1>1. NoData \in [id : Keys \cup {None, OldId}, status : Statuses]
  BY DEF NoData, Statuses
<1>2. target' = Target(u, r)
  BY DEF target
<1>3. CASE Target(u, r) = target
  BY <1>2, <1>3 DEF Requery, query, TypeOK, QueryFits
<1>4. CASE Target(u, r) # target
  BY <1>1, <1>4, KeysAreNumbers DEF Requery
<1> QED BY <1>3, <1>4

\* A request goes out: it is new, or the one the component knows.
LEMMA PostKeeps ==
  ASSUME PanelInv, NEW r \in Recoveries, r # NoRecovery, Post(r),
         ~readError,
         \/ r = recovery /\ keys' = keys
         \/ r.key = keys + 1 /\ keys' = keys + 1 /\ keys < MaxSends,
         faults' = faults
  PROVE  PanelInv'
<1> DEFINE p == [key |-> r.key, source |-> r.source]
<1>0. /\ r.key \in Keys /\ r.source \in Sources /\ p \in Requests /\ p # NoPost
      /\ p.key = r.key /\ p.source = r.source
  BY RecoveryShape, KeysAreNumbers DEF Requests, NoPost
<1>1. /\ stored' = r /\ recovery' = r /\ url' = None /\ notice' = FALSE /\ locked' = TRUE
      /\ pending' = p /\ wire' = wire \cup {[key |-> r.key, source |-> r.source, as |-> cookie]}
      /\ posts' = posts \cup {p} /\ settled' = settled \ {r.key} /\ reply' = "none"
      /\ Requery(None, r) /\ UNCHANGED <<cookie, mounted, disabled, source, readError, server>>
  BY DEF Post
<1>2. keys' \in 0..MaxSends /\ keys \in 0..MaxSends
  BY SendsAssumption DEF PanelInv, TypeOK
<1> HIDE DEF p
<1>3. TypeOK'
  <2>1. wire' \subseteq [key : Keys, source : Sources, as : {"owner", "other"}]
    BY <1>0, <1>1 DEF PanelInv, TypeOK
  <2>2. /\ shown' \in [id : Keys \cup {None, OldId}, status : Statuses]
        /\ error' \in {"none", "401", "404", "5xx", "problem"}
        /\ fetching' \in -MaxSends..OldId /\ due' \in BOOLEAN
    BY <1>1, RequeryKeeps DEF PanelInv
  <2> QED BY <1>0, <1>1, <1>2, <2>1, <2>2 DEF PanelInv, TypeOK
<1>4. (OneBodyPerKey /\ RequestsWereSent)'
  <2>1. CASE r = recovery /\ keys' = keys
    <3>1. p \in posts
      BY <2>1 DEF PanelInv, RequestsWereSent, Sent, p
    <3>2. posts' = posts
      BY <1>1, <3>1
    <3>3. p = [key |-> p.key, source |-> p.source]
      BY DEF p
    <3> QED BY <1>0, <1>1, <2>1, <3>1, <3>2, <3>3
        DEF PanelInv, OneBodyPerKey, RequestsWereSent, Sent, isPending, p
  <2>2. CASE r.key = keys + 1 /\ keys' = keys + 1
    <3>1. \A q \in posts : q.key # p.key /\ q.key <= keys /\ q.key \in Nat
      BY <1>0, <1>2, <2>2, KeysAreNumbers DEF PanelInv, RequestsWereSent, TypeOK, Requests
    <3>2. OneBodyPerKey'
      BY <1>1, <3>1 DEF PanelInv, OneBodyPerKey
    <3>3. \A q \in posts' : q.key <= keys'
      BY <1>0, <1>1, <1>2, <2>2, <3>1
    <3>4. [key |-> r.key, source |-> r.source] \in posts'
          /\ [key |-> p.key, source |-> p.source] \in posts'
      BY <1>0, <1>1 DEF p
    <3> QED BY <1>0, <1>1, <3>2, <3>3, <3>4 DEF RequestsWereSent, Sent, isPending
  <2> QED BY <2>1, <2>2
<1>5. LastIsKnown'
  <2>1. isPending'
    BY <1>0, <1>1 DEF isPending
  <2>2. keys' # 0 /\ keys' \notin settled' => r.key = keys'
    <3>1. CASE r = recovery /\ keys' = keys
      BY <1>1, <3>1 DEF PanelInv, LastIsKnown
    <3>2. CASE r.key = keys + 1 /\ keys' = keys + 1
      BY <3>2
    <3> QED BY <3>1, <3>2
  <2> QED BY <1>1, <2>1, <2>2 DEF LastIsKnown, notAccepted
<1>6. QueryFits'
  BY <1>1, RequeryKeeps DEF PanelInv, QueryFits
<1> QED BY <1>3, <1>4, <1>5, <1>6 DEF PanelInv

\* A step that leaves the component, its query and the history alone.
LEMMA OutsideKeeps ==
  ASSUME PanelInv, UNCHANGED <<client, query, history>>, TypeOK'
  PROVE  PanelInv'
<1> USE DEF client, query, history
<1>1. (OneBodyPerKey /\ RequestsWereSent)'
  BY DEF PanelInv, OneBodyPerKey, RequestsWereSent, Sent, isPending
<1>2. LastIsKnown'
  BY DEF PanelInv, LastIsKnown, notAccepted, unknown, isPending
<1>3. QueryFits'
  BY DEF PanelInv, QueryFits, target, isPending
<1> QED BY <1>1, <1>2, <1>3 DEF PanelInv

\* A step of the query alone that changes neither what it is keyed by nor the
\* outcome of a request.
LEMMA QueryStepKeeps ==
  ASSUME PanelInv, UNCHANGED <<client, history>>, TypeOK',
         fetching' # None => fetching' = target,
         shown' # NoData => target # None,
         error' = "404" => error = "404" /\ (shown' = NoData => shown = NoData)
  PROVE  PanelInv'
<1> USE DEF client, history
<1>1. (OneBodyPerKey /\ RequestsWereSent)'
  BY DEF PanelInv, OneBodyPerKey, RequestsWereSent, Sent, isPending
<1>2. LastIsKnown'
  BY DEF PanelInv, LastIsKnown, notAccepted, unknown, isPending
<1>3. QueryFits'
  BY DEF PanelInv, QueryFits, target, isPending
<1> QED BY <1>1, <1>2, <1>3 DEF PanelInv

\* The mutation succeeds: what is saved is the request that was sent.
LEMMA SuccessKeeps ==
  ASSUME PanelInv, MutationSucceeds
  PROVE  PanelInv'
<1> DEFINE r == [recovery EXCEPT !.key = pending.key, !.source = pending.source, !.id = pending.key]
<1>0. /\ pending \in Requests /\ pending.key \in Keys /\ pending.source \in Sources
      /\ Sent(pending) /\ recovery.key = pending.key /\ isPending
  BY DEF MutationSucceeds, isPending, PanelInv, RequestsWereSent, TypeOK, Requests
<1>1. recovery \in Recoveries /\ recovery # NoRecovery
  BY <1>0, RecoveryShape, KeysAreNumbers DEF PanelInv, TypeOK
<1>2. r \in Recoveries /\ r.key = pending.key /\ r.source = pending.source /\ r # NoRecovery
  <2>1. recovery \in [key : Keys, source : Sources, id : Keys \cup {None}]
    BY <1>1 DEF Recoveries
  <2>2. r \in [key : Keys, source : Sources, id : Keys \cup {None}]
        /\ r.key = pending.key /\ r.source = pending.source
    BY <1>0, <2>1
  <2>3. r.key # None
    BY <1>0, <2>2, KeysAreNumbers
  <2> HIDE DEF r
  <2> QED BY <2>2, <2>3, RecoveryShape DEF Recoveries
<1> HIDE DEF r
<1>3. /\ \/ stored' = r /\ recovery' = r /\ UNCHANGED <<notice, faults>>
         \/ notice' = TRUE /\ faults' = faults + 1 /\ UNCHANGED <<stored, recovery>>
      /\ url' = pending.key /\ locked' = FALSE /\ pending' = NoPost /\ reply' = "none"
      /\ settled' = settled \cup {pending.key}
      /\ shown' = NoData /\ error' = "none" /\ fetching' = None /\ due' = TRUE
      /\ UNCHANGED <<cookie, mounted, disabled, source, readError, wire, server, keys, posts>>
  BY DEF MutationSucceeds, Disturbed, r
<1>4. TypeOK'
  <2>1. /\ stored' \in Recoveries /\ recovery' \in Recoveries /\ faults' \in Nat /\ notice' \in BOOLEAN
    <3>1. stored \in Recoveries /\ recovery \in Recoveries /\ faults \in Nat /\ notice \in BOOLEAN
      BY DEF PanelInv, TypeOK
    <3>2. faults + 1 \in Nat
      BY <3>1
    <3> QED BY <1>2, <1>3, <3>1, <3>2
  <2>2. NoData \in [id : Keys \cup {None, OldId}, status : Statuses] /\ None \in -MaxSends..OldId
    BY KeysAreNumbers DEF NoData, Statuses
  <2>3. url' \in Keys \cup {None, OldId} /\ settled' \subseteq Keys
    BY <1>0, <1>3 DEF PanelInv, TypeOK
  <2> QED BY <1>3, <2>1, <2>2, <2>3 DEF PanelInv, TypeOK
<1>5. (OneBodyPerKey /\ RequestsWereSent)'
  <2>1. [key |-> r.key, source |-> r.source] \in posts'
    BY <1>0, <1>2, <1>3 DEF Sent
  <2>2. ~isPending'
    BY <1>3 DEF isPending
  <2>3. \A x \in {stored', recovery'} : x # NoRecovery => [key |-> x.key, source |-> x.source] \in posts'
    <3>1. \A x \in {stored, recovery} : x # NoRecovery => [key |-> x.key, source |-> x.source] \in posts
      BY DEF PanelInv, RequestsWereSent, Sent
    <3> QED BY <1>3, <2>1, <3>1
  <2> QED BY <1>3, <2>2, <2>3 DEF PanelInv, OneBodyPerKey, RequestsWereSent, Sent
<1>6. LastIsKnown'
  <2>1. keys # 0 => keys \in settled'
    BY <1>0, <1>1, <1>3 DEF PanelInv, LastIsKnown
  <2> QED BY <1>3, <2>1 DEF LastIsKnown, notAccepted
<1>7. QueryFits'
  BY <1>0, <1>3 DEF PanelInv, QueryFits
<1> QED BY <1>4, <1>5, <1>6, <1>7 DEF PanelInv

\* The mutation fails: only a refusal forgets the request.
LEMMA FailureKeeps ==
  ASSUME PanelInv, MutationFails
  PROVE  PanelInv'
<1>0. /\ pending \in Requests /\ pending.key \in Keys /\ recovery.key = pending.key /\ isPending
  BY DEF MutationFails, isPending, PanelInv, RequestsWereSent, TypeOK, Requests
<1>1. recovery \in Recoveries /\ recovery # NoRecovery /\ NoRecovery \in Recoveries
  BY <1>0, RecoveryShape, KeysAreNumbers DEF PanelInv, TypeOK, Recoveries
<1>2. /\ \/ stored' = NoRecovery /\ recovery' = NoRecovery /\ settled' = settled \cup {pending.key}
         \/ UNCHANGED <<stored, recovery, settled>>
      /\ notice' = TRUE /\ locked' = FALSE /\ pending' = NoPost /\ reply' = "none"
      /\ shown' = NoData /\ error' = "none" /\ fetching' = None /\ due' \in BOOLEAN
      /\ UNCHANGED <<cookie, mounted, disabled, source, readError, url, wire, server, keys, posts, faults>>
  BY DEF MutationFails
<1>3. TypeOK'
  <2>1. NoData \in [id : Keys \cup {None, OldId}, status : Statuses] /\ None \in -MaxSends..OldId
    BY KeysAreNumbers DEF NoData, Statuses
  <2>2. stored' \in Recoveries /\ recovery' \in Recoveries /\ settled' \subseteq Keys
    BY <1>0, <1>1, <1>2 DEF PanelInv, TypeOK
  <2> QED BY <1>2, <2>1, <2>2 DEF PanelInv, TypeOK
<1>4. (OneBodyPerKey /\ RequestsWereSent)'
  BY <1>2 DEF PanelInv, OneBodyPerKey, RequestsWereSent, Sent, isPending
<1>5. LastIsKnown'
  BY <1>0, <1>1, <1>2 DEF PanelInv, LastIsKnown, notAccepted
<1>6. QueryFits'
  BY <1>0, <1>1, <1>2 DEF PanelInv, QueryFits
<1> QED BY <1>3, <1>4, <1>5, <1>6 DEF PanelInv

\* The component mounts: it knows what is stored, or that it could not read it.
LEMMA MountKeeps ==
  ASSUME PanelInv, NEW link \in Keys \cup {None, OldId}, Mount(link), faults' \in Nat
  PROVE  PanelInv'
<1>1. /\ mounted' = TRUE /\ disabled' = FALSE
      /\ \/ recovery' = stored /\ readError' = FALSE
         \/ recovery' = NoRecovery /\ readError' = TRUE
      /\ url' = link /\ notice' = readError' /\ locked' = FALSE /\ pending' = NoPost /\ reply' = "none"
      /\ shown' = NoData /\ error' = "none" /\ fetching' = None /\ due' \in BOOLEAN
      /\ UNCHANGED <<cookie, source, stored, wire, server, keys, posts, settled>>
  BY DEF Mount, history
<1>2. TypeOK'
  <2>1. NoData \in [id : Keys \cup {None, OldId}, status : Statuses] /\ None \in -MaxSends..OldId
    BY KeysAreNumbers DEF NoData, Statuses
  <2>2. recovery' \in Recoveries /\ readError' \in BOOLEAN
    BY <1>1 DEF PanelInv, TypeOK, Recoveries
  <2> QED BY <1>1, <2>1, <2>2 DEF PanelInv, TypeOK
<1>3. (OneBodyPerKey /\ RequestsWereSent)'
  BY <1>1 DEF PanelInv, OneBodyPerKey, RequestsWereSent, Sent, isPending
<1>4. LastIsKnown'
  BY <1>1 DEF PanelInv, LastIsKnown, notAccepted
<1>5. QueryFits'
  BY <1>1 DEF PanelInv, QueryFits, isPending
<1> QED BY <1>2, <1>3, <1>4, <1>5 DEF PanelInv

\* Sending keeps the invariant.
LEMMA SendingKeeps ==
  ASSUME PanelInv, Sending
  PROVE  PanelInv'
<1>0. recovery \in Recoveries /\ (readError => recovery = NoRecovery) /\ keys \in 0..MaxSends
      /\ source \in Sources
  BY DEF PanelInv, TypeOK, QueryFits
<1>1. CASE Resubmit \/ Retry
  <2>1. recovery # NoRecovery /\ Post(recovery) /\ UNCHANGED <<keys, faults>>
    BY <1>1 DEF Resubmit, Retry, ResultControls, notAccepted, unknown
  <2> QED BY <1>0, <2>1, PostKeeps
<1>2. CASE Submit
  <2>1. /\ keys < MaxSends /\ keys' = keys + 1 /\ Post(New) /\ faults' = faults /\ ~readError
    BY <1>2 DEF Submit, ActionControls, submitDisabled
  <2>2. keys + 1 \in Keys
    BY <1>0, <2>1, SendsAssumption DEF Keys
  <2>3. New \in [key : Keys, source : Sources, id : Keys \cup {None}] /\ New.key = keys + 1
    BY <1>0, <2>2 DEF New
  <2>4. New \in Recoveries /\ New # NoRecovery
    BY <2>2, <2>3, RecoveryShape, KeysAreNumbers DEF Recoveries
  <2> QED BY <2>1, <2>3, <2>4, PostKeeps
<1>3. CASE SaveThrows
  <2>1. /\ stored' = IF notAccepted /\ recovery.source # source THEN NoRecovery ELSE stored
        /\ notice' = TRUE /\ faults' = faults + 1
        /\ UNCHANGED <<cookie, mounted, disabled, source, recovery, readError, url, locked, pending,
                       wire, reply, server, query, history>>
    BY <1>3 DEF SaveThrows, Disturbed
  <2>2. TypeOK'
    <3>1. stored' \in Recoveries /\ faults' \in Nat
      BY <2>1 DEF PanelInv, TypeOK, Recoveries
    <3> QED BY <2>1, <3>1 DEF PanelInv, TypeOK, query, history
  <2>3. (OneBodyPerKey /\ RequestsWereSent)'
    BY <2>1 DEF PanelInv, OneBodyPerKey, RequestsWereSent, Sent, isPending, history
  <2>4. LastIsKnown'
    <3>1. notAccepted => recovery.key \in settled /\ recovery # NoRecovery
      BY DEF PanelInv, LastIsKnown, notAccepted, unknown
    <3>2. stored' = stored \/ (notAccepted /\ stored' = NoRecovery)
      BY <2>1
    <3>3. keys # 0 /\ keys \notin settled => ~notAccepted
      BY <3>1 DEF PanelInv, LastIsKnown
    <3>4. notAccepted' = notAccepted
      BY <2>1 DEF notAccepted, unknown, isPending, query
    <3> QED BY <2>1, <3>2, <3>3, <3>4 DEF PanelInv, LastIsKnown, history
  <2>5. QueryFits'
    BY <2>1 DEF PanelInv, QueryFits, target, isPending, query
  <2> QED BY <2>2, <2>3, <2>4, <2>5 DEF PanelInv
<1> QED BY <1>1, <1>2, <1>3 DEF Sending

\* What the network and the server change.
OnTheWire ==
  /\ wire' \subseteq wire /\ faults' \in Nat /\ UNCHANGED <<Unsettling>>
  /\ reply' \in {"none", "accepted"} \cup Refusals \cup Other
  /\ server' \in [Keys \cup {OldId} -> Statuses]

\* What happens to a request on its way keeps the invariant.
LEMMA WireKeeps ==
  ASSUME PanelInv, Served \/ Unserved \/ \E k \in Keys : Judged(k)
  PROVE  PanelInv'
<1> USE DEF Unsettling, client, query, history
<1>0. /\ wire \subseteq [key : Keys, source : Sources, as : {"owner", "other"}] /\ faults \in Nat
      /\ reply \in {"none", "accepted"} \cup Refusals \cup Other
      /\ server \in [Keys \cup {OldId} -> Statuses]
  BY DEF PanelInv, TypeOK
<1>1. ASSUME NEW m \in wire, NEW a \in {"none", "accepted"} \cup Refusals \cup Other, Answer(m, a)
      PROVE  reply' \in {"none", "accepted"} \cup Refusals \cup Other
  BY <1>0, <1>1 DEF Answer
<1>2. OnTheWire
  <2> USE DEF OnTheWire
  <2>1. ASSUME NEW m \in wire, PostRefusedForAccount(m)
        PROVE  OnTheWire
    BY <1>0, <1>1, <2>1 DEF PostRefusedForAccount, Other
  <2>2. ASSUME NEW m \in wire, PostAccepted(m)
        PROVE  OnTheWire
    <3>1. \E x \in Statuses : server' = [server EXCEPT ![m.key] = x]
      <4>1. server[m.key] \in Statuses
        BY <1>0
      <4> QED BY <2>2, <4>1 DEF PostAccepted, Statuses
    <3>2. server' \in [Keys \cup {OldId} -> Statuses]
      BY <1>0, <3>1
    <3> QED BY <1>0, <1>1, <2>2, <3>2 DEF PostAccepted
  <2>3. ASSUME NEW m \in wire, PostRefused(m)
        PROVE  OnTheWire
    BY <1>0, <1>1, <2>3 DEF PostRefused, Disturbed, Refusals
  <2>4. ASSUME NEW m \in wire, PostLost(m)
        PROVE  OnTheWire
    BY <1>0, <2>4 DEF PostLost, Disturbed
  <2>5. CASE PostTimesOut
    <3>1. faults' \in Nat
      BY <1>0, <2>5 DEF PostTimesOut, Disturbed
    <3> QED BY <1>0, <2>5, <3>1 DEF PostTimesOut, Other
  <2>6. CASE AnswerLost
    BY <1>0, <2>6 DEF AnswerLost, Disturbed, Other
  <2>7. ASSUME NEW k \in Keys, Judged(k)
        PROVE  OnTheWire
    BY <1>0, <2>7 DEF Judged, Statuses
  <2> QED BY <2>1, <2>2, <2>3, <2>4, <2>5, <2>6, <2>7 DEF Served, Unserved
<1>3. TypeOK'
  BY <1>0, <1>2 DEF PanelInv, TypeOK, OnTheWire
<1> QED BY <1>2, <1>3, OutsideKeeps DEF OnTheWire

\* The query keeps the invariant.
LEMMA QueryKeeps ==
  ASSUME PanelInv, Fetch \/ Answered \/ FetchFails \/ Refetch
  PROVE  PanelInv'
<1> USE DEF client, history
<1>0. /\ recovery \in Recoveries /\ url \in Keys \cup {None, OldId} /\ fetching \in -MaxSends..OldId
      /\ shown \in [id : Keys \cup {None, OldId}, status : Statuses] /\ faults \in Nat
      /\ server \in [Keys \cup {OldId} -> Statuses] /\ target \in -MaxSends..OldId
      /\ None \in -MaxSends..OldId /\ (fetching # None => fetching = target)
      /\ shown # NoData => target # None
  BY TargetType, KeysAreNumbers DEF PanelInv, TypeOK, target, QueryFits
<1>1. CASE Fetch
  <2>1. /\ fetching' = target /\ due' = FALSE /\ error' \in {"none", error} /\ shown' = shown
        /\ UNCHANGED <<cookie, mounted, disabled, client, wire, reply, server, history, faults>>
    BY <1>1 DEF Fetch
  <2>2. TypeOK'
    <3>1. error' \in {"none", "401", "404", "5xx", "problem"}
      BY <2>1 DEF PanelInv, TypeOK
    <3>2. due' \in BOOLEAN /\ fetching' \in -MaxSends..OldId
      BY <1>0, <2>1
    <3>3. UNCHANGED <<cookie, mounted, disabled, client, wire, reply, server, history, faults, shown>>
      BY <2>1
    <3> QED BY <3>1, <3>2, <3>3 DEF PanelInv, TypeOK
  <2> QED BY <1>0, <2>1, <2>2, QueryStepKeeps
<1>2. CASE ResultArrives
  <2>1. fetching \in Keys \cup {OldId} /\ fetching = target /\ target # None
    BY <1>0, <1>2, SendsAssumption DEF ResultArrives, None, Keys, OldId
  <2>2. [id |-> fetching, status |-> server[fetching]] \in [id : Keys \cup {None, OldId}, status : Statuses]
    BY <1>0, <2>1
  <2>3. /\ shown' = [id |-> fetching, status |-> server[fetching]] /\ error' = "none" /\ fetching' = None
        /\ UNCHANGED <<cookie, mounted, disabled, client, wire, reply, server, due, history, faults>>
    BY <1>2 DEF ResultArrives
  <2>4. TypeOK'
    BY <1>0, <2>2, <2>3 DEF PanelInv, TypeOK
  <2> QED BY <1>0, <2>1, <2>3, <2>4, QueryStepKeeps
<1>3. CASE RequestFound
  <2>1. -fetching \in Keys
    BY <1>0, <1>3, SendsAssumption DEF RequestFound, Keys
  <2>2. /\ url' = -fetching /\ settled' = settled \cup {-fetching}
        /\ shown' = NoData /\ error' = "none" /\ fetching' = None /\ due' = TRUE
        /\ UNCHANGED <<cookie, mounted, disabled, source, stored, recovery, readError, notice, locked,
                       pending, wire, reply, server, keys, posts, faults>>
    BY <1>3 DEF RequestFound
  <2>3. TypeOK'
    <3>1. NoData \in [id : Keys \cup {None, OldId}, status : Statuses]
      BY DEF NoData, Statuses
    <3> QED BY <1>0, <2>1, <2>2, <3>1 DEF PanelInv, TypeOK
  <2>4. (OneBodyPerKey /\ RequestsWereSent)'
    BY <2>2 DEF PanelInv, OneBodyPerKey, RequestsWereSent, Sent, isPending
  <2>5. LastIsKnown'
    BY <2>2 DEF PanelInv, LastIsKnown, notAccepted
  <2>6. QueryFits'
    BY <2>2 DEF PanelInv, QueryFits, isPending
  <2> QED BY <2>3, <2>4, <2>5, <2>6 DEF PanelInv
<1>4. CASE NotFound
  <2>1. /\ error' = "404" /\ fetching' = None
        /\ settled' = IF unknown /\ ~isPending THEN settled \cup {recovery.key} ELSE settled
        /\ UNCHANGED <<cookie, mounted, disabled, client, wire, reply, server, shown, due, keys, posts,
                       faults>>
    BY <1>4 DEF NotFound
  <2>2. settled' \subseteq Keys
    BY <1>0, <2>1, RecoveryShape DEF unknown, PanelInv, TypeOK
  <2>3. TypeOK'
    BY <1>0, <2>1, <2>2 DEF PanelInv, TypeOK
  <2>4. (OneBodyPerKey /\ RequestsWereSent)'
    BY <2>1 DEF PanelInv, OneBodyPerKey, RequestsWereSent, Sent, isPending
  <2>5. LastIsKnown'
    <3>1. unknown' = unknown /\ isPending' = isPending
      BY <2>1 DEF unknown, isPending
    <3> QED BY <2>1, <3>1 DEF PanelInv, LastIsKnown, notAccepted
  <2>6. QueryFits'
    BY <2>1 DEF PanelInv, QueryFits, isPending, target
  <2> QED BY <2>3, <2>4, <2>5, <2>6 DEF PanelInv
<1>5. CASE FetchFails
  <2>1. /\ error' \in {"401", "5xx"} /\ fetching' = None /\ faults' = faults + 1
        /\ UNCHANGED <<cookie, mounted, disabled, client, wire, reply, server, shown, due, history>>
    BY <1>5 DEF FetchFails, Disturbed
  <2>2. TypeOK'
    BY <1>0, <2>1 DEF PanelInv, TypeOK
  <2> QED BY <1>0, <2>1, <2>2, QueryStepKeeps
<1>6. CASE Refetch
  <2>1. /\ due' = TRUE
        /\ UNCHANGED <<cookie, mounted, disabled, client, wire, reply, server, shown, error, fetching,
                       history, faults>>
    BY <1>6 DEF Refetch
  <2>2. TypeOK'
    BY <2>1 DEF PanelInv, TypeOK
  <2> QED BY <1>0, <2>1, <2>2, QueryStepKeeps
<1>7. CASE WrongProblem
  <2>1. /\ error' = "problem" /\ fetching' = None
        /\ UNCHANGED <<cookie, mounted, disabled, client, wire, reply, server, shown, due, history, faults>>
    BY <1>7 DEF WrongProblem
  <2>2. TypeOK'
    BY <1>0, <2>1 DEF PanelInv, TypeOK
  <2> QED BY <1>0, <2>1, <2>2, QueryStepKeeps
<1> QED BY <1>1, <1>2, <1>3, <1>4, <1>5, <1>6, <1>7 DEF Answered

\* The page around the panel keeps the invariant.
LEMMA AroundKeeps ==
  ASSUME PanelInv, Around
  PROVE  PanelInv'
<1> USE DEF query, history
<1>0. url \in Keys \cup {None, OldId} /\ faults \in Nat /\ faults + 1 \in Nat
  BY DEF PanelInv, TypeOK
<1>1. ASSUME NEW s \in Sources, Edit(s)
      PROVE  PanelInv'
  <2>1. /\ source' = s
        /\ UNCHANGED <<cookie, mounted, disabled, stored, recovery, readError, url, notice, locked,
                       pending, wire, reply, server, query, history, faults>>
    BY <1>1 DEF Edit
  <2>2. TypeOK'
    BY <2>1 DEF PanelInv, TypeOK
  <2>3. (OneBodyPerKey /\ RequestsWereSent)'
    BY <2>1 DEF PanelInv, OneBodyPerKey, RequestsWereSent, Sent, isPending
  <2>4. (LastIsKnown /\ QueryFits)'
    BY <2>1 DEF PanelInv, LastIsKnown, QueryFits, notAccepted, unknown, isPending, target
  <2> QED BY <2>2, <2>3, <2>4 DEF PanelInv
<1>2. CASE Reload \/ IdentityBack
  <2>1. Mount(url) /\ faults' \in {faults, faults + 1}
    BY <1>2 DEF Reload, IdentityBack, Disturbed
  <2> QED BY <1>0, <2>1, MountKeeps
<1>3. CASE OpenLink
  <2>1. Mount(OldId) /\ faults' = faults + 1
    BY <1>3 DEF OpenLink, Disturbed
  <2> QED BY <1>0, <2>1, MountKeeps
<1>4. CASE SwitchAccount \/ SwitchBack \/ SessionFails
  <2>1. /\ cookie' \in {"owner", "other"} /\ disabled' \in BOOLEAN /\ faults' \in {faults, faults + 1}
        /\ UNCHANGED <<mounted, client, wire, reply, server, query, history>>
    BY <1>4 DEF SwitchAccount, SwitchBack, SessionFails, Disturbed, PanelInv, TypeOK
  <2>2. TypeOK'
    BY <1>0, <2>1 DEF PanelInv, TypeOK, client
  <2> QED BY <2>1, <2>2, OutsideKeeps
<1>5. CASE IdentityLost
  <2>1. /\ mounted' = FALSE /\ pending' = NoPost /\ reply' = "none" /\ locked' = FALSE
        /\ recovery' = NoRecovery /\ notice' = FALSE /\ readError' = FALSE
        /\ shown' = NoData /\ error' = "none" /\ fetching' = None /\ due' = FALSE
        /\ UNCHANGED <<cookie, disabled, source, stored, url, wire, server, history, faults>>
    BY <1>5 DEF IdentityLost
  <2>2. TypeOK'
    <3>1. /\ NoData \in [id : Keys \cup {None, OldId}, status : Statuses] /\ None \in -MaxSends..OldId
          /\ NoRecovery \in Recoveries
      BY KeysAreNumbers DEF NoData, Statuses, Recoveries
    <3> QED BY <2>1, <3>1 DEF PanelInv, TypeOK
  <2>3. (OneBodyPerKey /\ RequestsWereSent)'
    BY <2>1 DEF PanelInv, OneBodyPerKey, RequestsWereSent, Sent, isPending
  <2>4. (LastIsKnown /\ QueryFits)'
    BY <2>1 DEF PanelInv, LastIsKnown, QueryFits, notAccepted
  <2> QED BY <2>2, <2>3, <2>4 DEF PanelInv
<1>6. CASE SessionRecovers
  <2>1. /\ disabled' = FALSE /\ due' \in BOOLEAN
        /\ UNCHANGED <<cookie, mounted, client, wire, reply, server, shown, error, fetching, history,
                       faults>>
    BY <1>6 DEF SessionRecovers
  <2>2. TypeOK'
    <3>1. disabled' \in BOOLEAN /\ due' \in BOOLEAN
      BY <2>1
    <3>2. UNCHANGED <<cookie, mounted, client, wire, reply, server, shown, error, fetching, history,
                      faults>>
      BY <2>1
    <3> QED BY <3>1, <3>2 DEF PanelInv, TypeOK, client
  <2>3. /\ fetching' # None => fetching' = target
        /\ shown' # NoData => target # None
    BY <2>1 DEF PanelInv, QueryFits
  <2> QED BY <2>1, <2>2, <2>3, QueryStepKeeps
<1> QED BY <1>1, <1>2, <1>3, <1>4, <1>5, <1>6 DEF Around

\* PanelInv is inductive.
LEMMA PanelStep == PanelInv /\ [Next]_vars => PanelInv'
<1> SUFFICES ASSUME PanelInv, [Next]_vars PROVE PanelInv'
  OBVIOUS
<1>1. CASE UNCHANGED vars
  <2>1. TypeOK'
    BY <1>1 DEF vars, client, query, history, PanelInv, TypeOK
  <2> QED BY <1>1, <2>1, OutsideKeeps DEF vars
<1> QED
  BY <1>1, SendingKeeps, SuccessKeeps, FailureKeeps, WireKeeps, QueryKeeps, AroundKeeps
  DEF Next, MutationEnds

\* It holds when the page is opened.
LEMMA PanelInit == Init => PanelInv
<1> SUFFICES ASSUME Init PROVE PanelInv
  OBVIOUS
<1>1. TypeOK
  <2>1. /\ NoData \in [id : Keys \cup {None, OldId}, status : Statuses] /\ None \in -MaxSends..OldId
        /\ NoRecovery \in Recoveries
    BY KeysAreNumbers DEF NoData, Statuses, Recoveries
  <2>2. server \in [Keys \cup {OldId} -> Statuses]
    BY DEF Init, Statuses
  <2>3. 0 \in 0..MaxSends
    BY SendsAssumption
  <2> QED BY <2>1, <2>2, <2>3 DEF Init, TypeOK
<1>2. OneBodyPerKey /\ RequestsWereSent
  BY DEF Init, OneBodyPerKey, RequestsWereSent, isPending
<1>3. LastIsKnown /\ QueryFits
  BY DEF Init, LastIsKnown, QueryFits, notAccepted, unknown
<1> QED BY <1>1, <1>2, <1>3 DEF PanelInv

\* In every state the record of an open request is stored, and a confirmed page
\* without a submit button offers a way on.
LEMMA FateFollows == PanelInv => FateCanBeLearned
<1> SUFFICES ASSUME PanelInv PROVE FateCanBeLearned
  OBVIOUS
<1>1. LastRequestIsRecoverable
  <2> SUFFICES ASSUME keys # 0, keys \notin settled
               PROVE  stored.key = keys /\ [key |-> keys, source |-> stored.source] \in posts
    BY DEF LastRequestIsRecoverable
  <2>1. stored.key = keys
    BY DEF PanelInv, LastIsKnown
  <2>2. stored # NoRecovery
    BY <2>1 DEF NoRecovery, None
  <2> QED BY <2>1, <2>2 DEF PanelInv, RequestsWereSent, Sent
<1>2. NeverStuck
  <2> SUFFICES ASSUME mounted, ~disabled, submitDisabled, ~isPending, source \notin Invalid, ~notice
               PROVE  \/ enabled /\ (polls \/ fetching # None)
                      \/ "confirm" \in ResultControls
    BY DEF NeverStuck, ActionControls, ResultNotices
  <2>1. ~readError
    BY DEF PanelInv, QueryFits
  <2>2. recovery # NoRecovery => target # None
    BY TargetType DEF PanelInv, TypeOK, target
  <2>3. CASE unknown /\ ~notAccepted
    <3>1. target # None
      BY <2>2, <2>3 DEF unknown
    <3> QED BY <2>3, <3>1 DEF enabled, ResultControls
  <2>4. CASE shown # NoData /\ shown.status # "DONE"
    <3>1. target # None
      BY <2>4 DEF PanelInv, QueryFits
    <3>2. error \in Gone => error # "none"
      BY DEF Gone
    <3> QED BY <2>4, <3>1, <3>2 DEF enabled, ResultControls, polls
  <2> QED BY <2>1, <2>3, <2>4 DEF submitDisabled, busy
<1> QED BY <1>1, <1>2 DEF FateCanBeLearned

\* One key never carries two bodies, however the user edits, retries and reloads
\* between the attempts (submission-panel.tsx, save and send).
THEOREM OneBody == Spec => []OneBodyPerKey
<1>1. PanelInv => OneBodyPerKey
  BY DEF PanelInv
<1> QED BY <1>1, PanelInit, PanelStep, PTL DEF Spec

\* The user can always learn what became of the last request: while its fate is
\* open its key and body are stored, and the page is never stuck
\* (submission-panel.tsx, unknown, notAccepted and submitDisabled).
THEOREM Fate == Spec => []FateCanBeLearned
  BY PanelInit, PanelStep, FateFollows, PTL DEF Spec
=============================================================================
