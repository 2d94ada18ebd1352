--------------------------- MODULE IngressProofs ----------------------------
(***************************************************************************)
(* Proofs about Ingress, for any sources, deployments and incidents, and   *)
(* tags or labels in any number, order and spelling.                       *)
(***************************************************************************)
EXTENDS Ingress, FiniteSetTheorems, TLAPS

\* A leaf that names no prover is tried with Zenon, then with SMT.
USE ZenonT(5), SMTT(20)

\* A step is a delivery.
LEMMA StepDelivers ==
    ASSUME Next
    PROVE  \E source, p, cred, up, down : Deliver(source, p, cred, up, down)
  BY DEF Next, SendOne, SendBatch, SendNameless, SendUnsigned

\* A body with one alert tells of one incident.
LEMMA SingleTells ==
    ASSUME NEW mine, NEW b \in Singles(mine)
    PROVE  \E i \in mine, u \in BOOLEAN : \E a \in Alerts(i, u) :
               b = Batch(<<a>>, If(u, i), If(~u, i))
  BY SMT DEF Singles

-----------------------------------------------------------------------------
(* Sources that are not set up *)

\* No verifier accepts anything for a source without its secret or allowlist.
LEMMA VerifiedConfigured ==
    ASSUME NEW source, NEW cred, NEW p, Verified(source, cred, p)
    PROVE  source \in configured
  <1>1. Secret(source) # NoText
    BY DEF Verified, verify_source_ip, verify_pagerduty_signature, verify_hmac_signature,
       verify_shared_token
  <1> QED
    BY <1>1 DEF Secret

\* The events of a delivery are of its source.
LEMMA EventSource ==
    ASSUME NEW source, NEW p, NEW e \in ToAdmit(source, p)
    PROVE  e.fingerprint[1] = source
  <1>1. CASE source = "datadog"
    BY <1>1 DEF ToAdmit, DatadogEvent, Event, AgentEvent, Fingerprint
  <1>2. CASE source = "pagerduty"
    BY <1>2 DEF ToAdmit, PagerdutyEvent, Event, AgentEvent, Fingerprint
  <1>3. CASE source = "generic"
    BY <1>3 DEF ToAdmit, GenericEvent, Event, AgentEvent, Fingerprint
  <1>4. CASE source \notin {"datadog", "pagerduty", "generic"}
    <2>1. e \in LabelBatch(source, p, FALSE)
      BY <1>4 DEF ToAdmit
    <2> QED
      BY <2>1 DEF LabelBatch, AlertEvent, Event, AgentEvent, Fingerprint
  <1> QED
    BY <1>1, <1>2, <1>3, <1>4

\* Whatever is delivered, with whatever credential, a source whose control is not
\* set up opens no window (verification.py).
THEOREM ClosedUnlessSetUp == Spec => []FailsClosed
  <1>1. Init => FailsClosed
    BY DEF Init, FailsClosed
  <1>2. FailsClosed /\ [Next]_vars => FailsClosed'
    <2> SUFFICES ASSUME FailsClosed, [Next]_vars
                 PROVE  FailsClosed'
      OBVIOUS
    <2>1. CASE UNCHANGED vars
      BY <2>1 DEF FailsClosed, vars
    <2>2. CASE Next
      <3>1. PICK source, p, cred, up, down : Deliver(source, p, cred, up, down)
        BY <2>2, StepDelivers
      <3>2. CASE Reject(source, p, cred) \/ Quarantine(source, p, cred) \/ Fail(source, p, cred)
        BY <3>2 DEF Reject, Quarantine, Fail, FailsClosed
      <3>3. CASE Process(source, p, cred, up, down)
        <4>1. source \in configured /\ configured' = configured
          BY <3>3, VerifiedConfigured DEF Process
        <4>2. \A f \in open' : f \in open \/ \E e \in ToAdmit(source, p) : f = e.fingerprint
          BY <3>3 DEF Process, Fingerprints
        <4> QED
          BY <4>1, <4>2, EventSource DEF FailsClosed
      <3> QED
        BY <3>1, <3>2, <3>3 DEF Deliver
    <2> QED
      BY <2>1, <2>2
  <1> QED
    BY <1>1, <1>2, PTL DEF Spec

-----------------------------------------------------------------------------
(* Priorities *)

\* A text that decides something is kept.
LEMMA RecognisedText ==
    ASSUME NEW v \in Recognised
    PROVE  v # None /\ v # Blank /\ v # NoText /\ Text(v) = v
  <1>1. v # None
    BY IngressAssumption
  <1>2. v # Blank /\ v # NoText
    BY Zenon DEF Recognised, Blank, NoText
  <1> QED
    BY <1>1, <1>2 DEF Text

\* A priority that is known is read in either case.
LEMMA PriorityText ==
    /\ \A v \in {"P1", "p1"} : v # None /\ upper(Text(v)) = "P1"
    /\ \A v \in {"P5", "p5"} : v # None /\ upper(Text(v)) = "P5"
  <1>1. \A v \in {"P1", "p1", "P5", "p5"} : v \in Recognised
    BY DEF Recognised
  <1>2. \A v \in {"P1", "p1", "P5", "p5"} : v # None /\ Text(v) = v
    BY <1>1, RecognisedText
  <1> QED
    BY <1>2 DEF upper, Lookup

\* A priority is looked at before anything else.
LEMMA PrioritySeverity ==
    ASSUME NEW p
    PROVE  /\ p.priority \in {"P1", "p1"} =>
                 DatadogSeverity(p) = "critical" /\ PagerdutySeverity(p) = "critical"
           /\ p.priority \in {"P5", "p5"} =>
                 DatadogSeverity(p) = "info" /\ PagerdutySeverity(p) = "info"
  <1>1. \A default : /\ Lookup(PRIORITY_SEVERITY, "P1", default) = "critical"
                     /\ Lookup(PRIORITY_SEVERITY, "P5", default) = "info"
                     /\ Lookup(PD_PRIORITY, "P1", default) = "critical"
                     /\ Lookup(PD_PRIORITY, "P5", default) = "info"
    BY DEF Lookup, PRIORITY_SEVERITY, PD_PRIORITY
  <1> QED
    BY <1>1, PriorityText DEF DatadogSeverity, PagerdutySeverity

\* Whatever else a delivery says, P1 always asks for a human and P5 never does
\* (severity_of, _pagerduty_severity, triage).
THEOREM PriorityWins == Spec => []PriorityDecides
  <1>1. Init => PriorityDecides
    BY DEF Init, PriorityDecides, Answer
  <1>2. PriorityDecides /\ [Next]_vars => PriorityDecides'
    <2> SUFFICES ASSUME PriorityDecides, [Next]_vars
                 PROVE  PriorityDecides'
      OBVIOUS
    <2>1. CASE UNCHANGED vars
      BY <2>1 DEF PriorityDecides, vars
    <2>2. CASE Next
      <3>1. PICK source, p, cred, up, down : Deliver(source, p, cred, up, down)
        BY <2>2, StepDelivers
      <3>2. CASE Reject(source, p, cred) \/ Quarantine(source, p, cred) \/ Fail(source, p, cred)
        BY <3>2 DEF Reject, Quarantine, Fail, PriorityDecides, Answer
      <3>3. CASE Process(source, p, cred, up, down)
        <4>1. last'.conclusions = {Conclusion(e) : e \in ToAdmit(source, p)}
          BY <3>3 DEF Process, Answer
        <4>2. CASE source \in {"datadog", "pagerduty"} /\ p # NotAnObject
          <5>1. last'.priority = p.priority
            BY <3>3, <4>2 DEF Process, Answer
          <5>2. \A e \in ToAdmit(source, p) : e.severity \in {DatadogSeverity(p), PagerdutySeverity(p)}
            <6>1. CASE source = "datadog"
              BY <6>1 DEF ToAdmit, DatadogEvent, Event, AgentEvent
            <6>2. CASE source = "pagerduty"
              BY <6>2 DEF ToAdmit, PagerdutyEvent, Event, AgentEvent
            <6> QED
              BY <4>2, <6>1, <6>2
          <5>3. \A e : Conclusion(e).status = TriageStatus(e)
            BY DEF Conclusion
          <5>4. \A e : /\ e.severity = "critical" => TriageStatus(e) = "needs_human"
                       /\ e.severity = "info" => TriageStatus(e) = "inconclusive"
            BY DEF TriageStatus, ESCALATING
          <5> QED
            BY <4>1, <5>1, <5>2, <5>3, <5>4, PrioritySeverity DEF PriorityDecides
        <4>3. CASE ~(source \in {"datadog", "pagerduty"} /\ p # NotAnObject)
          <5>1. last'.priority = None
            BY <3>3, <4>3 DEF Process, Answer
          <5> QED
            BY <5>1, PriorityText DEF PriorityDecides
        <4> QED
          BY <4>2, <4>3
      <3> QED
        BY <3>1, <3>2, <3>3 DEF Deliver
    <2> QED
      BY <2>1, <2>2
  <1> QED
    BY <1>1, <1>2, PTL DEF Spec

-----------------------------------------------------------------------------
(* Tags and labels *)

Fp(i) == Fingerprint(i.source, i.key, i.subject)

\* The tags say the subject, and nothing else that counts.
Says(t, pair) == t.value = pair[2] /\ lower(t.name) = pair[1]
Names(tags, subject) ==
    /\ \A j \in DOMAIN tags : \/ \E pair \in subject : Says(tags[j], pair)
                              \/ lower(tags[j].name) \notin IDENTITY_TAG_KEYS
                              \/ tags[j].value \in {Blank, NoColon}
    /\ \A pair \in subject : \E j \in DOMAIN tags : Says(tags[j], pair)

\* SetToSeq lists a finite set.
LEMMA Listing ==
    ASSUME NEW S, IsFiniteSet(S)
    PROVE  /\ DOMAIN SetToSeq(S) = 1..Cardinality(S) /\ Cardinality(S) \in Nat
           /\ \A j \in DOMAIN SetToSeq(S) : SetToSeq(S)[j] \in S
           /\ \A x \in S : \E j \in DOMAIN SetToSeq(S) : SetToSeq(S)[j] = x
  <1> DEFINE n == Cardinality(S)
             f == SetToSeq(S)
  <1>1. n \in Nat /\ ExistsBijection(1..n, S)
    BY FS_CardinalityType
  <1>2. \E g \in [1..n -> S] : IsInjective(g)
    BY <1>1 DEF ExistsBijection, Bijection, Injection, IsInjective
  <1>3. f \in [1..n -> S] /\ IsInjective(f)
    BY <1>2 DEF SetToSeq
  <1>4. f \in Injection(1..n, S)
    BY <1>3 DEF Injection, IsInjective
  <1>5. Cardinality(1..n) = n
    BY <1>1, FS_Interval
  <1>6. f \in Surjection(1..n, S)
    BY <1>4, <1>5, FS_Injection
  <1> QED
    BY <1>1, <1>3, <1>6 DEF Surjection

\* The spellings of an identity key are read alike.
LEMMA SpelledAlike ==
    ASSUME NEW pair, pair[1] \in IDENTITY_TAG_KEYS
    PROVE  lower(pair[1]) = pair[1] /\ \A t \in Spelled(pair) : Says(t, pair)
  <1>1. /\ lower("service") = "service" /\ lower("Service") = "service"
        /\ lower("host") = "host" /\ lower("HOST") = "host"
    BY DEF lower, Lookup
  <1>2. Spellings["service"] = {"service", "Service"} /\ Spellings["host"] = {"host", "HOST"}
    BY DEF Spellings
  <1>3. \A n \in Spellings[pair[1]] : lower(n) = pair[1]
    BY <1>1, <1>2 DEF IDENTITY_TAG_KEYS
  <1>4. \A t \in Spelled(pair) : t.name \in Spellings[pair[1]] /\ t.value = pair[2]
    BY DEF Spelled
  <1> QED
    BY <1>1, <1>3, <1>4 DEF IDENTITY_TAG_KEYS, Says

\* The plain tags of an incident name its subject.
LEMMA PlainNames ==
    ASSUME NEW i \in Incidents, i.source # "generic"
    PROVE  /\ Names(Plain(i.subject), i.subject)
           /\ \A j \in DOMAIN Plain(i.subject) : Plain(i.subject)[j].value # NoColon
  <1> DEFINE s == SetToSeq(i.subject)
             t == Plain(i.subject)
  <1>1. \A pair \in i.subject : pair[1] \in IDENTITY_TAG_KEYS /\ pair[2] # NoColon
    BY IncidentAssumption
  <1>2. /\ \A j \in DOMAIN s : s[j] \in i.subject
        /\ \A x \in i.subject : \E j \in DOMAIN s : s[j] = x
    BY IncidentAssumption, Listing
  <1>3. t = [j \in DOMAIN s |-> [name |-> s[j][1], value |-> s[j][2]]]
    BY DEF Plain
  <1> HIDE DEF s, t
  <1>4. ASSUME NEW j \in DOMAIN s
        PROVE  Says(t[j], s[j]) /\ t[j].value # NoColon
    <2>1. t[j].name = s[j][1] /\ t[j].value = s[j][2]
      BY <1>3
    <2> QED
      BY <1>1, <1>2, <2>1, SpelledAlike DEF Says
  <1>5. DOMAIN t = DOMAIN s
    BY <1>3
  <1>6. Names(t, i.subject)
    BY <1>2, <1>4, <1>5 DEF Names
  <1> QED
    BY <1>4, <1>5, <1>6 DEF t

\* So does every rendering, whatever noise it has.
LEMMA RenderingNames ==
    ASSUME NEW i \in Incidents, i.source # "generic", NEW s \in Renderings[i.subject]
    PROVE  Names(s, i.subject)
  <1> DEFINE tags == Noise \cup UNION {Spelled(pair) : pair \in i.subject}
  <1>1. \A pair \in i.subject : pair[1] \in IDENTITY_TAG_KEYS
    BY IncidentAssumption
  <1>2. /\ \E n \in 0..MaxTags : s \in [1..n -> tags]
        /\ \A pair \in i.subject : \E j \in DOMAIN s : s[j] \in Spelled(pair)
    BY DEF Renderings
  <1>3. ASSUME NEW t \in Noise
        PROVE  lower(t.name) \notin IDENTITY_TAG_KEYS \/ t.value \in {Blank, NoColon}
    BY DEF Noise, lower, Lookup, IDENTITY_TAG_KEYS
  <1>4. \A j \in DOMAIN s : s[j] \in Noise \/ \E pair \in i.subject : s[j] \in Spelled(pair)
    BY <1>2
  <1> QED
    BY <1>1, <1>2, <1>3, <1>4, SpelledAlike DEF Names

\* tag_entities and _entities_from_labels find the subject.
LEMMA EntitiesFound ==
    ASSUME NEW i \in Incidents, i.source # "generic", NEW tags, Names(tags, i.subject)
    PROVE  /\ Entities(tags) = i.subject
           /\ (\A j \in DOMAIN tags : tags[j].value # NoColon) => LabelEntities(tags) = i.subject
  <1>1. \A pair \in i.subject : /\ pair = <<pair[1], pair[2]>> /\ pair[1] \in IDENTITY_TAG_KEYS
                                /\ pair[2] \notin {Blank, NoColon}
    BY IncidentAssumption
  <1>2. \A j \in DOMAIN tags, pair \in i.subject :
            Says(tags[j], pair) => <<lower(tags[j].name), tags[j].value>> = pair
    BY <1>1 DEF Says
  <1>3. \A j \in DOMAIN tags :
            lower(tags[j].name) \in IDENTITY_TAG_KEYS /\ tags[j].value \notin {Blank, NoColon}
            => <<lower(tags[j].name), tags[j].value>> \in i.subject
    BY <1>2 DEF Names
  <1>4. \A pair \in i.subject : \E j \in DOMAIN tags :
            /\ lower(tags[j].name) \in IDENTITY_TAG_KEYS /\ tags[j].value \notin {Blank, NoColon}
            /\ <<lower(tags[j].name), tags[j].value>> = pair
    BY <1>1, <1>2 DEF Names, Says
  <1>5. Entities(tags) = i.subject
    BY <1>3, <1>4 DEF Entities
  <1>6. (\A j \in DOMAIN tags : tags[j].value # NoColon) => LabelEntities(tags) = i.subject
    BY <1>3, <1>4 DEF LabelEntities
  <1> QED
    BY <1>5, <1>6

-----------------------------------------------------------------------------
(* What each body means *)

LEMMA KeyText ==
    ASSUME NEW i \in Incidents
    PROVE  Text(i.key) = i.key /\ i.key # NoText
  BY IncidentAssumption DEF Text

\* A text is what it was, or no text.
LEMMA TextOr ==
    /\ \A v : Text(v) \in {v, NoText}
    /\ Text(None) = NoText /\ Text(Blank) = NoText
  BY DEF Text

LEMMA DatadogMeans ==
    ASSUME NEW i \in Incidents, i.source = "datadog", NEW up \in BOOLEAN,
           NEW p \in DatadogBodies(i, up)
    PROVE  /\ DatadogEvent(p).fingerprint = Fp(i) /\ DatadogEvent(p).entities = i.subject
           /\ is_recovery(p) <=> ~up
  <1> DEFINE base == PlainDatadog(i, up)
  <1>1. /\ base.alert_id = i.key /\ base.tags = Plain(i.subject)
        /\ base.alert_transition \in Transitions(up)
        /\ base = [alert_id |-> base.alert_id, alert_transition |-> base.alert_transition,
                   tags |-> base.tags, priority |-> base.priority, alert_type |-> base.alert_type,
                   date |-> base.date]
    BY DEF PlainDatadog, Transitions
  <1> HIDE DEF base
  <1>2. \/ \E t \in Renderings[i.subject] : p = [base EXCEPT !.tags = t]
        \/ \E x, y : p = Typed(base, x, y)
        \/ \E d : p = [base EXCEPT !.date = d]
        \/ \E x \in Transitions(up) : p = [base EXCEPT !.alert_transition = x]
    BY DEF DatadogBodies, base
  <1>3. /\ p.alert_id = i.key
        /\ p.tags = Plain(i.subject) \/ p.tags \in Renderings[i.subject]
        /\ p.alert_transition \in Transitions(up)
    <2>1. CASE \E t \in Renderings[i.subject] : p = [base EXCEPT !.tags = t]
      BY <1>1, <2>1
    <2>2. CASE \E x, y : p = Typed(base, x, y)
      BY <1>1, <2>2 DEF Typed
    <2>3. CASE \E d : p = [base EXCEPT !.date = d]
      BY <1>1, <2>3
    <2>4. CASE \E x \in Transitions(up) : p = [base EXCEPT !.alert_transition = x]
      BY <1>1, <2>4
    <2> QED
      BY <1>2, <2>1, <2>2, <2>3, <2>4
  <1>4. Entities(p.tags) = i.subject
    BY <1>3, PlainNames, RenderingNames, EntitiesFound
  <1>5. Text(p.alert_id) = i.key
    BY <1>3, KeyText
  <1>6. ASSUME NEW v \in {"Recovered", "recovered"}
        PROVE  Text(v) = v /\ v # NoText
    BY RecognisedText DEF Recognised
  <1>7. ASSUME NEW v \in Transitions(TRUE)
        PROVE  Text(v) \notin {"Recovered", "recovered"}
    <2>1. v = None \/ v \notin {"Recovered", "recovered"}
      BY Zenon DEF Transitions
    <2> QED
      BY <1>6, <2>1, TextOr
  <1>8. Transitions(FALSE) = {"Recovered", "recovered"}
    BY DEF Transitions
  <1>9. is_recovery(p) <=> ~up
    BY <1>3, <1>6, <1>7, <1>8 DEF is_recovery
  <1> QED
    BY <1>4, <1>5, <1>9 DEF DatadogEvent, Event, AgentEvent, Fp

\* What is no resolution stays none in lower case.
LEMMA LowerElsewhere ==
    \A v \in {NoText, "incident.triggered", "incident.acknowledged", "firing"} :
        lower(v) \notin {"incident.resolved", "resolve", "resolved"}
  <1>1. NoText \notin {"Service", "HOST", "Error", "Critical", "High", "Resolve", "Resolved",
                       "incident.resolved", "resolve", "resolved"}
    BY Zenon DEF NoText
  <1> QED
    BY <1>1 DEF lower, Lookup

LEMMA PagerdutyMeans ==
    ASSUME NEW i \in Incidents, i.source = "pagerduty", NEW up \in BOOLEAN,
           NEW p \in PagerdutyBodies(i, up)
    PROVE  /\ PagerdutyEvent(p).fingerprint = Fp(i) /\ PagerdutyEvent(p).entities = i.subject
           /\ PagerdutyIsResolved(p) <=> ~up
  <1> DEFINE base == PlainPagerduty(i, up)
  <1>1. Services(i.subject) # {}
    BY DEF Services
  <1>2. (CHOOSE v \in Services(i.subject) : TRUE) \in Services(i.subject)
    BY <1>1
  <1>3. /\ base.dedup_key = i.key /\ base.incident_key = None /\ base.service \in Services(i.subject)
        /\ base.event_type \in EventTypes(up)
        /\ base = [shape |-> base.shape, event_type |-> base.event_type,
                   dedup_key |-> base.dedup_key, incident_key |-> base.incident_key,
                   service |-> base.service, priority |-> base.priority,
                   severity |-> base.severity, urgency |-> base.urgency]
    BY <1>2 DEF PlainPagerduty, EventTypes
  <1> HIDE DEF base
  <1>4. \/ \E x, y, z : p = Rated(base, x, y, z)
        \/ \E x, y, z : /\ p = Shaped(base, x, y, z)
                        /\ y \in EventTypes(up) /\ z \in Services(i.subject)
        \/ \E x \in {None, Blank, i.key} : p = Keyed(base, x, i.key)
    BY DEF PagerdutyBodies, base
  <1>5. /\ p.dedup_key = i.key \/ (p.dedup_key \in {None, Blank} /\ p.incident_key = i.key)
        /\ p.service \in Services(i.subject)
        /\ p.event_type \in EventTypes(up)
    <2>1. CASE \E x, y, z : p = Rated(base, x, y, z)
      BY <1>3, <2>1 DEF Rated
    <2>2. CASE \E x, y, z : /\ p = Shaped(base, x, y, z)
                            /\ y \in EventTypes(up) /\ z \in Services(i.subject)
      BY <1>3, <2>2 DEF Shaped
    <2>3. CASE \E x \in {None, Blank, i.key} :
                  p = Keyed(base, x, i.key)
      BY <1>3, <2>3 DEF Keyed
    <2> QED
      BY <1>4, <2>1, <2>2, <2>3
  <1>6. PagerdutyKey(p) = i.key
    BY <1>5, KeyText, TextOr DEF PagerdutyKey, Or
  <1>7. (IF Text(p.service) # NoText THEN {<<"service", Text(p.service)>>} ELSE {}) = i.subject
    <2>1. CASE i.subject = {}
      BY <1>5, <2>1, TextOr DEF Services
    <2>2. CASE i.subject # {}
      <3>1. PICK pair \in i.subject : p.service = pair[2]
        BY <1>5, <2>2 DEF Services
      <3>2. i.subject = {<<"service", pair[2]>>} /\ pair[2] \notin {None, Blank, NoText}
        BY IncidentAssumption
      <3> QED
        BY <3>1, <3>2 DEF Text
    <2> QED
      BY <2>1, <2>2
  <1>8. ASSUME NEW v \in EventTypes(FALSE)
        PROVE  lower(Text(v)) \in {"incident.resolved", "resolve"}
    <2>1. Text(v) = v
      BY RecognisedText DEF EventTypes, Recognised
    <2>2. lower(v) \in {"incident.resolved", "resolve"}
      BY DEF EventTypes, lower, Lookup
    <2> QED
      BY <2>1, <2>2
  <1>9. ASSUME NEW v \in EventTypes(TRUE)
        PROVE  lower(Text(v)) \notin {"incident.resolved", "resolve"}
    <2>1. Text(v) \in {NoText, "incident.triggered", "incident.acknowledged"}
      BY TextOr DEF EventTypes
    <2> QED
      BY <2>1, LowerElsewhere
  <1>10. PagerdutyIsResolved(p) <=> ~up
    BY <1>5, <1>8, <1>9 DEF PagerdutyIsResolved
  <1> QED
    BY <1>6, <1>7, <1>10 DEF PagerdutyEvent, Event, AgentEvent, Fp

LEMMA AlertMeans ==
    ASSUME NEW i \in Incidents, IsBatch(i.source), NEW up \in BOOLEAN,
           NEW a \in Alerts(i, up) \cup {PlainAlert(i, up)}
    PROVE  /\ AlertEvent(i.source, a).fingerprint = Fp(i)
           /\ AlertEvent(i.source, a).entities = i.subject
           /\ IsObject(a) /\ (IsResolved(a) <=> ~up)
  <1> DEFINE base == PlainAlert(i, up)
             Proper(l) == Names(l, i.subject) /\ \A j \in DOMAIN l : l[j].value # NoColon
  <1>1. i.source # "generic"
    BY DEF IsBatch
  <1>2. /\ base.fingerprint = i.key /\ base.labels = Plain(i.subject) /\ base.status \in Statuses(up)
        /\ base = [status |-> base.status, fingerprint |-> base.fingerprint,
                   rule_uid |-> base.rule_uid, labels |-> base.labels, severity |-> base.severity]
    BY DEF PlainAlert, Statuses
  <1>3. Proper(base.labels)
    BY <1>1, <1>2, PlainNames
  <1>4. \A l \in Renderings[i.subject] : IsLabels(l) => Proper(l)
    BY <1>1, RenderingNames DEF IsLabels
  <1> HIDE DEF base, Proper
  <1>5. \/ a = base
        \/ \E l \in {s \in Renderings[i.subject] : IsLabels(s)} : a = [base EXCEPT !.labels = l]
        \/ \E f \in {None, Blank, i.key} : a = Ruled(base, f, i.key)
        \/ \E x : a = [base EXCEPT !.severity = x]
        \/ \E x \in Statuses(up) : a = [base EXCEPT !.status = x]
    BY DEF Alerts, base
  <1>6. /\ a.fingerprint = i.key \/ (a.fingerprint \in {None, Blank} /\ a.rule_uid = i.key)
        /\ Proper(a.labels) /\ a.status \in Statuses(up)
    <2>1. CASE a = base
      BY <1>2, <1>3, <2>1
    <2>2. CASE \E l \in {s \in Renderings[i.subject] : IsLabels(s)} : a = [base EXCEPT !.labels = l]
      BY <1>2, <1>4, <2>2
    <2>3. CASE \E f \in {None, Blank, i.key} : a = Ruled(base, f, i.key)
      BY <1>2, <1>3, <2>3 DEF Ruled
    <2>4. CASE \E x : a = [base EXCEPT !.severity = x]
      BY <1>2, <1>3, <2>4
    <2>5. CASE \E x \in Statuses(up) : a = [base EXCEPT !.status = x]
      BY <1>2, <1>3, <2>5
    <2> QED
      BY <1>5, <2>1, <2>2, <2>3, <2>4, <2>5
  <1>7. AlertKey(a) = i.key
    BY <1>6, KeyText, TextOr DEF AlertKey, Or
  <1>8. LabelEntities(a.labels) = i.subject
    BY <1>1, <1>6, EntitiesFound DEF Proper
  <1>9. IsObject(a)
    BY AlertAssumption DEF IsObject
  <1>10. ASSUME NEW v \in Statuses(FALSE)
         PROVE  lower(Text(v)) = "resolved"
    <2>1. Text(v) = v
      BY RecognisedText DEF Statuses, Recognised
    <2>2. lower(v) = "resolved"
      BY DEF Statuses, lower, Lookup
    <2> QED
      BY <2>1, <2>2
  <1>11. ASSUME NEW v \in Statuses(TRUE)
         PROVE  lower(Text(v)) # "resolved"
    <2>1. Text(v) \in {NoText, "firing"}
      BY TextOr DEF Statuses
    <2> QED
      BY <2>1, LowerElsewhere
  <1>12. IsResolved(a) <=> ~up
    BY <1>6, <1>10, <1>11 DEF IsResolved
  <1> QED
    BY <1>7, <1>8, <1>9, <1>12 DEF AlertEvent, Event, AgentEvent, Fp

LEMMA Sequenced ==
    ASSUME NEW S, NEW n \in Nat, NEW f \in [1..n -> S]
    PROVE  f \in Seq(S) /\ Len(f) = n /\ DOMAIN f = 1..n
  OBVIOUS

\* A list twice, once in reverse.
LEMMA Doubled ==
    ASSUME NEW S, NEW q \in Seq(S)
    PROVE  /\ \A j \in DOMAIN (Reverse(q) \o q) :
                 \E k \in DOMAIN q : (Reverse(q) \o q)[j] = q[k]
           /\ \A k \in DOMAIN q :
                 \E j \in DOMAIN (Reverse(q) \o q) : (Reverse(q) \o q)[j] = q[k]
  <1> DEFINE n == Len(q)
             r == Reverse(q)
  <1>1. n \in Nat /\ DOMAIN q = 1..n /\ \A j \in 1..n : q[j] \in S
    OBVIOUS
  <1>2. r = [j \in 1..n |-> q[(n - j) + 1]]
    BY DEF Reverse
  <1>3. \A j \in 1..n : (n - j) + 1 \in 1..n
    BY <1>1
  <1> HIDE DEF r, n
  <1>4. r \in [1..n -> S] /\ \A j \in 1..n : \E k \in 1..n : r[j] = q[k]
    BY <1>1, <1>2, <1>3
  <1>5. r \in Seq(S) /\ Len(r) = n
    BY <1>1, <1>4, Sequenced
  <1>6. /\ DOMAIN (r \o q) = 1..(n + n)
        /\ \A j \in 1..n : (r \o q)[j] = r[j]
        /\ \A j \in 1..n : (r \o q)[n + j] = q[j]
    BY <1>1, <1>5 DEF n
  <1>7. \A j \in 1..(n + n) : j \in 1..n \/ (j - n \in 1..n /\ j = n + (j - n))
    BY <1>1
  <1>8. \A j \in 1..n : n + j \in 1..(n + n)
    BY <1>1
  <1>9. ASSUME NEW j \in 1..(n + n)
        PROVE  \E k \in 1..n : (r \o q)[j] = q[k]
    <2>1. CASE j \in 1..n
      <3>1. (r \o q)[j] = r[j]
        BY <1>6, <2>1
      <3>2. PICK k \in 1..n : r[j] = q[k]
        BY <1>4, <2>1
      <3> QED
        BY <3>1, <3>2
    <2>2. CASE j \notin 1..n
      BY <1>6, <1>7, <2>2
    <2> QED
      BY <2>1, <2>2
  <1> QED
    BY <1>1, <1>6, <1>8, <1>9 DEF r

\* The items that count are those of the subject.
Lists(items, subject) ==
    /\ \A j \in DOMAIN items : Counts(items[j]) => <<items[j].type, items[j].id>> \in subject
    /\ \A pair \in subject : \E j \in DOMAIN items :
          Counts(items[j]) /\ <<items[j].type, items[j].id>> = pair

LEMMA GenericMeans ==
    ASSUME NEW i \in Incidents, i.source = "generic", NEW p \in GenericBodies(i)
    PROVE  GenericEvent(p).fingerprint = Fp(i) /\ GenericEvent(p).entities = i.subject
  <1> DEFINE s == SetToSeq(i.subject)
             items == PlainItems(i.subject)
             base == [event_id |-> i.key, severity |-> None, entities |-> items]
             Item == {[type |-> pair[1], id |-> pair[2]] : pair \in i.subject}
             n == Cardinality(i.subject)
  <1>1. \A pair \in i.subject : /\ pair = <<pair[1], pair[2]>>
                                /\ pair[1] \notin {None, NoText} /\ pair[2] \notin {None, NoText}
    BY IncidentAssumption
  <1>2. /\ DOMAIN s = 1..n /\ n \in Nat
        /\ \A j \in DOMAIN s : s[j] \in i.subject
        /\ \A x \in i.subject : \E j \in DOMAIN s : s[j] = x
    BY IncidentAssumption, Listing
  <1>3. items = [j \in DOMAIN s |-> [type |-> s[j][1], id |-> s[j][2]]]
    BY DEF PlainItems
  <1> HIDE DEF s, n, items
  <1>4. DOMAIN items = 1..n /\ \A j \in 1..n : items[j] \in Item
    BY <1>2, <1>3
  <1> HIDE DEF Item
  <1>5. items \in Seq(Item) /\ DOMAIN items = 1..n
    <2>1. items \in [1..n -> Item]
      BY <1>3, <1>4
    <2> QED
      BY <1>2, <2>1, Sequenced
  <1>6. \A j \in DOMAIN items : items[j].type = s[j][1] /\ items[j].id = s[j][2]
    BY <1>2, <1>3
  <1>7. Lists(items, i.subject)
    <2>1. \A j \in DOMAIN items : <<items[j].type, items[j].id>> = s[j] /\ Counts(items[j])
      BY <1>1, <1>2, <1>5, <1>6 DEF Counts
    <2> QED
      BY <1>2, <1>5, <2>1 DEF Lists
  <1>8. \/ \E x : p = [base EXCEPT !.severity = x]
        \/ \E t : p = [base EXCEPT !.entities = @ \o <<[type |-> t, id |-> None]>>]
        \/ p = [base EXCEPT !.entities = Reverse(@) \o @]
    BY DEF GenericBodies, items
  <1>9. p.event_id = i.key /\ Lists(p.entities, i.subject)
    <2>1. CASE \E x : p = [base EXCEPT !.severity = x]
      BY <1>7, <2>1
    <2>2. CASE \E t : p = [base EXCEPT !.entities = @ \o <<[type |-> t, id |-> None]>>]
      <3>1. PICK t : p = [base EXCEPT !.entities = @ \o <<[type |-> t, id |-> None]>>]
        BY <2>2
      <3> DEFINE x == [type |-> t, id |-> None]
      <3>2. p.event_id = i.key /\ p.entities = items \o <<x>>
        BY <3>1
      <3>3. ~Counts(x)
        BY DEF Counts
      <3> HIDE DEF x
      <3> DEFINE q == items \o <<x>>
      <3>4. DOMAIN q = 1..(n + 1) /\ q[n + 1] = x /\ \A j \in 1..n : q[j] = items[j]
        BY <1>2, <1>5
      <3> HIDE DEF q
      <3>5. \A j \in 1..(n + 1) : j \in 1..n \/ j = n + 1
        BY <1>2
      <3>6. \A j \in 1..n : j \in 1..(n + 1)
        BY <1>2
      <3>7. Lists(q, i.subject)
        BY <1>5, <1>7, <3>3, <3>4, <3>5, <3>6 DEF Lists
      <3> QED
        BY <3>2, <3>7 DEF q
    <2>3. CASE p = [base EXCEPT !.entities = Reverse(@) \o @]
      <3> DEFINE q == Reverse(items) \o items
      <3>1. p.event_id = i.key /\ p.entities = q
        BY <2>3
      <3>2. /\ \A j \in DOMAIN q : \E k \in DOMAIN items : q[j] = items[k]
            /\ \A k \in DOMAIN items : \E j \in DOMAIN q : q[j] = items[k]
        BY <1>5, Doubled
      <3> HIDE DEF q
      <3>3. Lists(q, i.subject)
        BY <1>7, <3>2 DEF Lists
      <3> QED
        BY <3>1, <3>3
    <2> QED
      BY <1>8, <2>1, <2>2, <2>3
  <1>10. {<<e.type, e.id>> : e \in {p.entities[j] : j \in {j \in DOMAIN p.entities : Counts(p.entities[j])}}}
            = i.subject
    BY <1>9 DEF Lists
  <1>11. Text(p.event_id) = i.key
    BY <1>9, KeyText
  <1> QED
    BY <1>10, <1>11 DEF GenericEvent, Event, AgentEvent, Fp

-----------------------------------------------------------------------------
(* What each delivery reports *)

\* The events of a delivery are the incidents that its sender means.
Reports(source, p, up, down) ==
    /\ up \subseteq Incidents /\ down \subseteq Incidents
    /\ Fingerprints(ToClose(source, p)) = {Fp(i) : i \in down}
    /\ \A e \in ToAdmit(source, p) : \E i \in up : e.fingerprint = Fp(i) /\ e.entities = i.subject
    /\ \A i \in up : \E e \in ToAdmit(source, p) : e.fingerprint = Fp(i)

\* Alert a says that incident i is up, or down.
Means(source, a, i, up) ==
    /\ AlertEvent(source, a).fingerprint = Fp(i) /\ AlertEvent(source, a).entities = i.subject
    /\ IsObject(a) /\ (IsResolved(a) <=> ~up)

LEMMA BatchReports ==
    ASSUME NEW source, IsBatch(source), NEW p, NEW up \in SUBSET Incidents, NEW down \in SUBSET Incidents,
           \A j \in DOMAIN p.alerts : \/ p.alerts[j] = NotAnObject
                                      \/ \E i \in up : Means(source, p.alerts[j], i, TRUE)
                                      \/ \E i \in down : Means(source, p.alerts[j], i, FALSE),
           \A i \in up : \E j \in DOMAIN p.alerts : Means(source, p.alerts[j], i, TRUE),
           \A i \in down : \E j \in DOMAIN p.alerts : Means(source, p.alerts[j], i, FALSE)
    PROVE  Reports(source, p, up, down)
  <1>1. /\ ToClose(source, p) = LabelBatch(source, p, TRUE)
        /\ ToAdmit(source, p) = LabelBatch(source, p, FALSE)
    BY DEF IsBatch, ToClose, ToAdmit
  <1>2. \A a : IsResolved(a) \in BOOLEAN
    BY DEF IsResolved
  <1>3. \A e : e \in LabelBatch(source, p, TRUE) <=>
            \E j \in DOMAIN p.alerts : /\ IsObject(p.alerts[j]) /\ IsResolved(p.alerts[j])
                                       /\ e = AlertEvent(source, p.alerts[j])
    BY <1>2 DEF LabelBatch
  <1>4. \A e : e \in LabelBatch(source, p, FALSE) <=>
            \E j \in DOMAIN p.alerts : /\ IsObject(p.alerts[j]) /\ ~IsResolved(p.alerts[j])
                                       /\ e = AlertEvent(source, p.alerts[j])
    BY <1>2 DEF LabelBatch
  <1>5. ASSUME NEW e \in LabelBatch(source, p, TRUE)
        PROVE  \E i \in down : e.fingerprint = Fp(i)
    <2>1. PICK j \in DOMAIN p.alerts : /\ IsObject(p.alerts[j]) /\ IsResolved(p.alerts[j])
                                       /\ e = AlertEvent(source, p.alerts[j])
      BY <1>3
    <2>2. \E i \in down : Means(source, p.alerts[j], i, FALSE)
      BY <2>1 DEF IsObject, Means
    <2> QED
      BY <2>1, <2>2 DEF Means
  <1>6. \A i \in down : \E e \in LabelBatch(source, p, TRUE) : e.fingerprint = Fp(i)
    BY <1>3 DEF Means
  <1>7. ASSUME NEW e \in LabelBatch(source, p, FALSE)
        PROVE  \E i \in up : e.fingerprint = Fp(i) /\ e.entities = i.subject
    <2>1. PICK j \in DOMAIN p.alerts : /\ IsObject(p.alerts[j]) /\ ~IsResolved(p.alerts[j])
                                       /\ e = AlertEvent(source, p.alerts[j])
      BY <1>4
    <2>2. \E i \in up : Means(source, p.alerts[j], i, TRUE)
      BY <2>1 DEF IsObject, Means
    <2> QED
      BY <2>1, <2>2 DEF Means
  <1>8. \A i \in up : \E e \in LabelBatch(source, p, FALSE) : e.fingerprint = Fp(i)
    BY <1>4 DEF Means
  <1>9. Fingerprints(LabelBatch(source, p, TRUE)) = {Fp(i) : i \in down}
    BY <1>5, <1>6 DEF Fingerprints
  <1> QED
    BY <1>1, <1>7, <1>8, <1>9 DEF Reports

LEMMA OneReports ==
    ASSUME NEW i \in Incidents, NEW up \in BOOLEAN, NEW p \in Bodies[i][up]
    PROVE  Reports(i.source, p, IF up THEN {i} ELSE {}, IF up THEN {} ELSE {i})
  <1> DEFINE u == IF up THEN {i} ELSE {}
             d == IF up THEN {} ELSE {i}
  <1>1. CASE i.source = "datadog"
    <2>1. p \in DatadogBodies(i, up)
      BY <1>1 DEF Bodies
    <2>2. /\ DatadogEvent(p).fingerprint = Fp(i) /\ DatadogEvent(p).entities = i.subject
          /\ is_recovery(p) <=> ~up
      BY <1>1, <2>1, DatadogMeans
    <2>3. /\ ToClose(i.source, p) = IF up THEN {} ELSE {DatadogEvent(p)}
          /\ ToAdmit(i.source, p) = IF up THEN {DatadogEvent(p)} ELSE {}
      BY <1>1, <2>2 DEF ToClose, ToAdmit
    <2> QED
      BY <2>2, <2>3 DEF Reports, Fingerprints
  <1>2. CASE i.source = "pagerduty"
    <2>1. p \in PagerdutyBodies(i, up)
      BY <1>2 DEF Bodies
    <2>2. /\ PagerdutyEvent(p).fingerprint = Fp(i) /\ PagerdutyEvent(p).entities = i.subject
          /\ PagerdutyIsResolved(p) <=> ~up
      BY <1>2, <2>1, PagerdutyMeans
    <2>3. /\ ToClose(i.source, p) = IF up THEN {} ELSE {PagerdutyEvent(p)}
          /\ ToAdmit(i.source, p) = IF up THEN {PagerdutyEvent(p)} ELSE {}
      BY <1>2, <2>2 DEF ToClose, ToAdmit
    <2> QED
      BY <2>2, <2>3 DEF Reports, Fingerprints
  <1>3. CASE i.source = "generic"
    <2>1. up /\ p \in GenericBodies(i)
      BY <1>3 DEF Bodies
    <2>2. GenericEvent(p).fingerprint = Fp(i) /\ GenericEvent(p).entities = i.subject
      BY <1>3, <2>1, GenericMeans
    <2>3. ToClose(i.source, p) = {} /\ ToAdmit(i.source, p) = {GenericEvent(p)}
      BY <1>3 DEF ToClose, ToAdmit
    <2> QED
      BY <2>1, <2>2, <2>3 DEF Reports, Fingerprints
  <1>4. CASE i.source \notin {"datadog", "pagerduty", "generic"}
    <2>1. IsBatch(i.source)
      BY <1>4, IncidentAssumption, IngressAssumption DEF IsBatch
    <2>2. p = [alerts |-> <<PlainAlert(i, up)>>]
      BY <1>4 DEF Bodies
    <2>3. p.alerts = <<PlainAlert(i, up)>> /\ DOMAIN p.alerts = {1} /\ p.alerts[1] = PlainAlert(i, up)
      BY <2>2
    <2>4. Means(i.source, PlainAlert(i, up), i, up)
      BY <2>1, AlertMeans DEF Means
    <2> QED
      BY <2>1, <2>3, <2>4, BatchReports
  <1> QED
    BY <1>1, <1>2, <1>3, <1>4

LEMMA AlertSays ==
    ASSUME NEW i \in Incidents, IsBatch(i.source), NEW u \in BOOLEAN,
           NEW a \in Alerts(i, u) \cup {PlainAlert(i, u)}
    PROVE  Means(i.source, a, i, u)
  BY AlertMeans DEF Means

LEMMA BatchesReport ==
    ASSUME NEW source \in DOMAIN Batches, NEW b \in Batches[source], Parses(source, b.body)
    PROVE  Reports(source, b.body, b.up, b.down)
  <1> DEFINE mine == {i \in Incidents : i.source = source}
             alerts == b.body.alerts
  <1>1. IsBatch(source) /\ \A i \in mine : i \in Incidents /\ i.source = source
    BY DEF Batches
  <1>2. \A as, u, d : /\ Batch(as, u, d).body.alerts = as
                      /\ Batch(as, u, d).up = u /\ Batch(as, u, d).down = d
    BY DEF Batch
  <1>3. CASE b \in Singles(mine)
    <2>1. PICK i \in mine, u \in BOOLEAN : \E a \in Alerts(i, u) :
                  b = Batch(<<a>>, If(u, i), If(~u, i))
      <3> HIDE DEF mine
      <3> QED
        BY <1>3, SingleTells
    <2>2. PICK a \in Alerts(i, u) : b = Batch(<<a>>, If(u, i), If(~u, i))
      BY <2>1
    <2>3. alerts = <<a>> /\ b.up = If(u, i) /\ b.down = If(~u, i)
      BY <1>2, <2>2
    <2>4. DOMAIN alerts = {1} /\ alerts[1] = a
      BY <2>3
    <2>5. Means(source, a, i, u)
      BY <1>1, AlertSays
    <2>6. \A x : /\ (x \in b.up) <=> (x = i /\ u)
                 /\ (x \in b.down) <=> (x = i /\ ~u)
      BY <2>3 DEF If
    <2>7. b.up \in SUBSET Incidents /\ b.down \in SUBSET Incidents
      BY <1>1, <2>6
    <2>8. /\ u => Means(source, alerts[1], i, TRUE)
          /\ ~u => Means(source, alerts[1], i, FALSE)
      BY <2>4, <2>5, Zenon
    <2>9. 1 \in DOMAIN alerts /\ \A j \in DOMAIN alerts : j = 1
      BY <2>4
    <2>10. \A j \in DOMAIN alerts : \/ \E x \in b.up : Means(source, alerts[j], x, TRUE)
                                    \/ \E x \in b.down : Means(source, alerts[j], x, FALSE)
      BY <2>6, <2>8, <2>9, Zenon
    <2>11. /\ \A x \in b.up : \E j \in DOMAIN alerts : Means(source, alerts[j], x, TRUE)
           /\ \A x \in b.down : \E j \in DOMAIN alerts : Means(source, alerts[j], x, FALSE)
      BY <2>6, <2>8, <2>9, Zenon
    <2> QED
      BY <1>1, <2>7, <2>10, <2>11, BatchReports
  <1>4. CASE b \in Padded(mine)
    <2>1. PICK i \in mine, u \in BOOLEAN :
                  b = Batch(<<NotAnObject, PlainAlert(i, u)>>, If(u, i), If(~u, i))
      BY <1>4 DEF Padded
    <2>2. alerts = <<NotAnObject, PlainAlert(i, u)>> /\ b.up = If(u, i) /\ b.down = If(~u, i)
      BY <1>2, <2>1
    <2>3. DOMAIN alerts = {1, 2} /\ alerts[1] = NotAnObject /\ alerts[2] = PlainAlert(i, u)
      BY <2>2
    <2>4. Means(source, alerts[2], i, u)
      BY <1>1, <2>3, AlertSays
    <2>5. \A x : /\ (x \in b.up) <=> (x = i /\ u)
                 /\ (x \in b.down) <=> (x = i /\ ~u)
      BY <2>2 DEF If
    <2>6. b.up \in SUBSET Incidents /\ b.down \in SUBSET Incidents
      BY <1>1, <2>5
    <2>7. /\ u => Means(source, alerts[2], i, TRUE)
          /\ ~u => Means(source, alerts[2], i, FALSE)
      BY <2>4, Zenon
    <2>8. 2 \in DOMAIN alerts /\ \A j \in DOMAIN alerts : j = 1 \/ j = 2
      BY <2>3
    <2>9. \A j \in DOMAIN alerts : \/ alerts[j] = NotAnObject
                                   \/ \E x \in b.up : Means(source, alerts[j], x, TRUE)
                                   \/ \E x \in b.down : Means(source, alerts[j], x, FALSE)
      BY <2>3, <2>5, <2>7, <2>8, Zenon
    <2>10. /\ \A x \in b.up : \E j \in DOMAIN alerts : Means(source, alerts[j], x, TRUE)
           /\ \A x \in b.down : \E j \in DOMAIN alerts : Means(source, alerts[j], x, FALSE)
      BY <2>5, <2>7, <2>8, Zenon
    <2> QED
      BY <1>1, <2>6, <2>9, <2>10, BatchReports
  <1>5. CASE b \in Doubles(mine)
    <2>1. PICK i \in mine, k \in mine, u \in BOOLEAN, v \in BOOLEAN : b = Both(i, k, u, v)
      BY <1>5 DEF Doubles
    <2>2. /\ alerts = <<PlainAlert(i, u), PlainAlert(k, v)>>
          /\ b.up = If(u, i) \cup If(v, k) /\ b.down = If(~u, i) \cup If(~v, k)
      BY <1>2, <2>1 DEF Both
    <2>3. DOMAIN alerts = {1, 2} /\ alerts[1] = PlainAlert(i, u) /\ alerts[2] = PlainAlert(k, v)
      BY <2>2
    <2>4. Means(source, alerts[1], i, u) /\ Means(source, alerts[2], k, v)
      BY <1>1, <2>3, AlertSays
    <2>5. \A x : /\ (x \in b.up) <=> ((x = i /\ u) \/ (x = k /\ v))
                 /\ (x \in b.down) <=> ((x = i /\ ~u) \/ (x = k /\ ~v))
      BY <2>2 DEF If
    <2>6. b.up \in SUBSET Incidents /\ b.down \in SUBSET Incidents
      BY <1>1, <2>5
    <2>7. /\ u => Means(source, alerts[1], i, TRUE)
          /\ ~u => Means(source, alerts[1], i, FALSE)
          /\ v => Means(source, alerts[2], k, TRUE)
          /\ ~v => Means(source, alerts[2], k, FALSE)
      BY <2>4, Zenon
    <2>8. 1 \in DOMAIN alerts /\ 2 \in DOMAIN alerts /\ \A j \in DOMAIN alerts : j = 1 \/ j = 2
      BY <2>3
    <2>9. \A j \in DOMAIN alerts : \/ \E x \in b.up : Means(source, alerts[j], x, TRUE)
                                   \/ \E x \in b.down : Means(source, alerts[j], x, FALSE)
      BY <2>5, <2>7, <2>8, Zenon
    <2>10. /\ \A x \in b.up : \E j \in DOMAIN alerts : Means(source, alerts[j], x, TRUE)
           /\ \A x \in b.down : \E j \in DOMAIN alerts : Means(source, alerts[j], x, FALSE)
      BY <2>5, <2>7, <2>8, Zenon
    <2> QED
      BY <1>1, <2>6, <2>9, <2>10, BatchReports
  <1>6. CASE b \in Spoilt(mine)
    <2>1. PICK i \in mine, u \in BOOLEAN, v \in BOOLEAN :
                  b = Batch(<<PlainAlert(i, u), NamelessAlert(i, v)>>, {}, {})
      BY <1>6 DEF Spoilt
    <2>2. alerts = <<PlainAlert(i, u), NamelessAlert(i, v)>>
      BY <1>2, <2>1
    <2>3. 2 \in DOMAIN alerts /\ alerts[2] = NamelessAlert(i, v)
      BY <2>2
    <2>4. IsObject(NamelessAlert(i, v))
      BY <1>1, AlertAssumption DEF IsObject
    <2>5. NamelessAlert(i, v).fingerprint = Blank /\ NamelessAlert(i, v).rule_uid = None
      BY DEF NamelessAlert, PlainAlert
    <2>6. AlertKey(NamelessAlert(i, v)) = NoText
      BY <2>5, TextOr DEF AlertKey, Or
    <2>7. BatchParses(b.body)
      BY <1>1 DEF Parses, IsBatch
    <2> QED
      BY <2>3, <2>4, <2>6, <2>7 DEF BatchParses
  <1>7. CASE b = Batch(<<NotAnObject>>, {}, {})
    <2>1. alerts = <<NotAnObject>> /\ b.up = {} /\ b.down = {}
      BY <1>2, <1>7
    <2>2. DOMAIN alerts = {1} /\ alerts[1] = NotAnObject
      BY <2>1
    <2> QED
      BY <1>1, <2>1, <2>2, BatchReports
  <1> QED
    BY <1>3, <1>4, <1>5, <1>6, <1>7 DEF Batches

\* Nobody's delivery is processed: a body without identity does not parse, ...
LEMMA NamelessFails ==
    ASSUME NEW source \in Sources, NEW p \in Nameless(source)
    PROVE  ~Parses(source, p)
  <1>1. CASE p = NotAnObject
    BY <1>1 DEF Parses
  <1>2. CASE p # NotAnObject /\ source = "datadog"
    <2>1. p.alert_id \in {None, Blank}
      BY <1>2 DEF Nameless
    <2> QED
      BY <1>2, <2>1, TextOr DEF Parses, DatadogParses
  <1>3. CASE p # NotAnObject /\ source = "pagerduty"
    <2>1. p.dedup_key = None /\ p.incident_key \in {None, Blank}
      BY <1>3 DEF Nameless
    <2>2. PagerdutyKey(p) = NoText
      BY <2>1, TextOr DEF PagerdutyKey, Or
    <2> QED
      BY <1>3, <2>2 DEF Parses, PagerdutyParses
  <1>4. CASE p # NotAnObject /\ source = "generic"
    <2> DEFINE item == [type |-> Blank, id |-> "id"]
    <2>1. \/ p.event_id \in {None, Blank}
          \/ p.event_id = "id" /\ p.entities = <<item>>
      BY <1>4 DEF Nameless
    <2>2. CASE p.event_id \in {None, Blank}
      BY <1>4, <2>2, TextOr DEF Parses, GenericParses
    <2>3. CASE p.event_id = "id" /\ p.entities = <<item>>
      <3>1. 1 \in DOMAIN p.entities /\ p.entities[1] = item
        BY <2>3
      <3>2. ~Entity(item)
        BY TextOr DEF Entity
      <3>3. CASE None = "id"
        BY <1>4, <2>3, <3>3, TextOr DEF Parses, GenericParses
      <3>4. CASE None # "id"
        <4>1. Blank # NoText /\ "id" # NoText
          BY Zenon DEF Blank, NoText
        <4>2. Counts(item)
          BY <3>4, <4>1, IngressAssumption DEF Counts
        <4> QED
          BY <1>4, <3>1, <3>2, <4>2 DEF Parses, GenericParses
      <3> QED
        BY <3>3, <3>4
    <2> QED
      BY <2>1, <2>2, <2>3
  <1>5. CASE p # NotAnObject /\ source \notin {"datadog", "pagerduty", "generic"}
    <2>1. p.alerts = <<>>
      BY <1>5 DEF Nameless
    <2> QED
      BY <1>5, <2>1 DEF Parses, BatchParses
  <1> QED
    BY <1>1, <1>2, <1>3, <1>4, <1>5

\* ... and no verifier accepts the credential of another sender.
LEMMA UnsignedFails ==
    ASSUME NEW source \in Sources, NEW p, NEW cred \in Bad(source, p)
    PROVE  ~Verified(source, cred, p)
  <1> SUFFICES ASSUME Verified(source, cred, p)
               PROVE  FALSE
    OBVIOUS
  <1>1. source \in configured /\ Secret(source) = source
    BY VerifiedConfigured DEF Secret
  <1>2. CASE source = "alertmanager"
    <2>1. cred = InsideNetwork /\ (cred = None \/ cred \in OutsideNetwork)
      BY <1>2 DEF Verified, verify_source_ip, Bad
    <2>2. InsideNetwork \notin OutsideNetwork
      BY Zenon DEF InsideNetwork, OutsideNetwork, NoText
    <2> QED
      BY <2>1, <2>2, IngressAssumption
  <1>3. CASE source = "pagerduty"
    <2>1. cred # None /\ \E j \in DOMAIN cred : Signs(cred[j], "v1=", source, p)
      BY <1>3 DEF Verified, verify_pagerduty_signature
    <2>2. PICK x \in ({"v1=", "v0="} \X {source, NoText} \X {p, NotAnObject})
                     \ {<<"v1=", source, p>>} : cred = <<Signature(x)>>
      BY <1>3, <2>1 DEF Bad
    <2>3. Signs(Signature(x), "v1=", source, p)
      BY <2>1, <2>2
    <2>4. x[1] = "v1=" /\ <<x[2], x[3]>> = <<source, p>>
      BY <1>1, <2>3 DEF Signs, Signature
    <2> QED
      BY <2>2, <2>4
  <1>4. CASE source = "generic"
    <2>1. cred # None /\ Signs(cred, "sha256=", source, p)
      BY <1>4 DEF Verified, verify_hmac_signature
    <2>2. PICK x \in ({"sha256=", "sha1="} \X {source, NoText} \X {p, NotAnObject})
                     \ {<<"sha256=", source, p>>} : cred = Signature(x)
      BY <1>4, <2>1 DEF Bad
    <2>3. x[1] = "sha256=" /\ <<x[2], x[3]>> = <<source, p>>
      BY <1>1, <2>1, <2>2 DEF Signs, Signature
    <2> QED
      BY <2>2, <2>3
  <1>5. CASE source \notin {"alertmanager", "pagerduty", "generic"}
    <2>1. cred # None /\ cred = source /\ (cred = None \/ cred \in OtherTokens)
      BY <1>1, <1>5 DEF Verified, verify_shared_token, Bad
    <2>2. "datadog" \notin OtherTokens /\ "grafana" \notin OtherTokens
      BY Zenon DEF OtherTokens, NoText
    <2> QED
      BY <1>5, <2>1, <2>2, IngressAssumption
  <1> QED
    BY <1>2, <1>3, <1>4, <1>5

-----------------------------------------------------------------------------
(* Windows and conclusions *)

\* What is processed reports the incidents its sender means.
LEMMA NextReports ==
    ASSUME Next
    PROVE  \E source, p, cred, up, down :
              /\ Deliver(source, p, cred, up, down)
              /\ Verified(source, cred, p) /\ Parses(source, p) => Reports(source, p, up, down)
  <1>1. CASE SendOne
    <2>1. PICK i \in Incidents, up \in BOOLEAN : \E p \in Bodies[i][up] :
                  Deliver(i.source, p, Good(i.source, p), IF up THEN {i} ELSE {}, IF up THEN {} ELSE {i})
      BY <1>1 DEF SendOne
    <2>2. PICK p \in Bodies[i][up] :
                  Deliver(i.source, p, Good(i.source, p), IF up THEN {i} ELSE {}, IF up THEN {} ELSE {i})
      BY <2>1
    <2>3. Reports(i.source, p, IF up THEN {i} ELSE {}, IF up THEN {} ELSE {i})
      BY OneReports
    <2> QED
      BY <2>2, <2>3
  <1>2. CASE SendBatch
    <2>1. PICK source \in DOMAIN Batches : \E b \in Batches[source] :
                  Deliver(source, b.body, Good(source, b.body), b.up, b.down)
      BY <1>2 DEF SendBatch
    <2>2. PICK b \in Batches[source] : Deliver(source, b.body, Good(source, b.body), b.up, b.down)
      BY <2>1
    <2>3. Parses(source, b.body) => Reports(source, b.body, b.up, b.down)
      BY BatchesReport
    <2> QED
      BY <2>2, <2>3
  <1>3. CASE SendNameless
    <2>1. PICK source \in Sources : \E p \in Nameless(source) :
                  Deliver(source, p, Good(source, p), {}, {})
      BY <1>3 DEF SendNameless
    <2>2. PICK p \in Nameless(source) : Deliver(source, p, Good(source, p), {}, {})
      BY <2>1
    <2>3. ~Parses(source, p)
      BY NamelessFails
    <2> QED
      BY <2>2, <2>3
  <1>4. CASE SendUnsigned
    <2>1. PICK i \in Incidents :
                  \E p : \E cred \in Bad(i.source, p) : Deliver(i.source, p, cred, {}, {})
      BY <1>4 DEF SendUnsigned
    <2>2. PICK p : \E cred \in Bad(i.source, p) : Deliver(i.source, p, cred, {}, {})
      BY <2>1
    <2>3. PICK cred \in Bad(i.source, p) : Deliver(i.source, p, cred, {}, {})
      BY <2>2
    <2>4. ~Verified(i.source, cred, p)
      BY UnsignedFails, IncidentAssumption
    <2> QED
      BY <2>3, <2>4
  <1> QED
    BY <1>1, <1>2, <1>3, <1>4 DEF Next

\* Two incidents do not share a fingerprint.
LEMMA FpInjective ==
    ASSUME NEW i \in Incidents, NEW k \in Incidents, Fp(i) = Fp(k)
    PROVE  i = k
  <1>1. i.source = k.source /\ i.key = k.key /\ i.subject = k.subject
    BY DEF Fp, Fingerprint
  <1> QED
    BY <1>1, IncidentAssumption

\* The conclusion about an event whose entities are the subject of an incident.
Right(c, subject) ==
    /\ c.inspect = subject
    /\ c.confidence = 60 <=> subject = {}
    /\ "subject" \in c.findings <=> subject # {}

LEMMA ConclusionRight ==
    ASSUME NEW e
    PROVE  /\ Right(Conclusion(e), e.entities)
           /\ Conclusion(e).status \in {"needs_human", "inconclusive"}
  <1>1. /\ Conclusion(e).inspect = e.entities
        /\ Conclusion(e).confidence = 60 <=> e.entities = {}
        /\ Conclusion(e).findings = Findings(e)
        /\ Conclusion(e).status = TriageStatus(e)
    BY DEF Conclusion
  <1>2. TriageStatus(e) \in {"needs_human", "inconclusive"}
    BY DEF TriageStatus
  <1>3. "firing" # "subject" /\ "no root cause" # "subject"
    BY Zenon
  <1>4. "subject" \in Findings(e) <=> e.entities # {}
    BY <1>3, Zenon DEF Findings
  <1> QED
    BY <1>1, <1>2, <1>4 DEF Right

IngressInv == TypeOK /\ WindowsFollowSenders /\ ConclusionsNameSubject

LEMMA IngressInvStep == IngressInv /\ [Next]_vars => IngressInv'
  <1> SUFFICES ASSUME IngressInv, [Next]_vars
               PROVE  IngressInv'
    OBVIOUS
  <1>1. CASE UNCHANGED vars
    BY <1>1 DEF IngressInv, TypeOK, WindowsFollowSenders, ConclusionsNameSubject, vars
  <1>2. CASE Next
    <2>1. PICK source, p, cred, up, down :
              /\ Deliver(source, p, cred, up, down)
              /\ Verified(source, cred, p) /\ Parses(source, p) => Reports(source, p, up, down)
      BY <1>2, NextReports
    <2>2. CASE Reject(source, p, cred) \/ Quarantine(source, p, cred) \/ Fail(source, p, cred)
      <3>1. UNCHANGED <<configured, open, firing>>
        BY <2>2 DEF Reject, Quarantine, Fail
      <3>2. last'.conclusions = {} /\ last'.status \in {"unverified", "quarantined", "error"}
        BY <2>2 DEF Reject, Quarantine, Fail, Answer
      <3> QED
        BY <3>1, <3>2 DEF IngressInv, TypeOK, WindowsFollowSenders, ConclusionsNameSubject
    <2>3. CASE Process(source, p, cred, up, down)
      <3>1. Reports(source, p, up, down)
        BY <2>1, <2>3 DEF Process
      <3>2. /\ open' = (open \ Fingerprints(ToClose(source, p))) \cup Fingerprints(ToAdmit(source, p))
            /\ firing' = (firing \ down) \cup up /\ configured' = configured
        BY <2>3 DEF Process
      <3>3. /\ last'.status = "processed"
            /\ last'.conclusions = {Conclusion(e) : e \in ToAdmit(source, p)}
        BY <2>3 DEF Process, Answer
      <3>4. firing' \subseteq Incidents
        BY <3>1, <3>2 DEF IngressInv, TypeOK, Reports
      <3>5. open' = {Fp(i) : i \in firing'}
        <4>1. open = {Fp(i) : i \in firing} /\ firing \subseteq Incidents
          BY DEF IngressInv, TypeOK, WindowsFollowSenders, Fp
        <4>2. Fingerprints(ToAdmit(source, p)) = {Fp(i) : i \in up}
          BY <3>1 DEF Reports, Fingerprints
        <4>3. Fingerprints(ToClose(source, p)) = {Fp(i) : i \in down} /\ down \subseteq Incidents
          BY <3>1 DEF Reports
        <4>4. open \ {Fp(i) : i \in down} = {Fp(i) : i \in firing \ down}
          BY <4>1, <4>3, FpInjective
        <4> QED
          BY <3>2, <4>2, <4>3, <4>4
      <3>6. ConclusionsNameSubject'
        <4> SUFFICES ASSUME NEW c \in last'.conclusions
                     PROVE  \E i \in firing' : Right(c, i.subject)
          BY DEF ConclusionsNameSubject, Right
        <4>1. PICK e \in ToAdmit(source, p) : c = Conclusion(e)
          BY <3>3
        <4>2. PICK i \in up : e.entities = i.subject
          BY <3>1 DEF Reports
        <4>3. i \in firing'
          BY <3>2
        <4> QED
          BY <4>1, <4>2, <4>3, ConclusionRight
      <3>7. \A c \in last'.conclusions : c.status \in {"needs_human", "inconclusive"}
        BY <3>3, ConclusionRight
      <3> QED
        BY <3>2, <3>3, <3>4, <3>5, <3>6, <3>7
           DEF IngressInv, TypeOK, WindowsFollowSenders, Fp
    <2> QED
      BY <2>1, <2>2, <2>3 DEF Deliver
  <1> QED
    BY <1>1, <1>2

LEMMA IngressInvAlways == Spec => []IngressInv
  <1>1. Init => IngressInv
    <2> SUFFICES ASSUME Init
                 PROVE  IngressInv
      OBVIOUS
    <2>1. last.conclusions = {} /\ last.status = None
      BY DEF Init, Answer
    <2> QED
      BY <2>1 DEF Init, IngressInv, TypeOK, WindowsFollowSenders, ConclusionsNameSubject
  <1> QED
    BY <1>1, IngressInvStep, PTL DEF Spec

\* The open windows are those of the incidents that fire, however their senders
\* order, spell, repeat and pad what they say: one incident has one fingerprint, two
\* never share one, and a resolution closes the window of its trigger (normalizers,
\* fingerprint.py and routes.py).
THEOREM WindowsFollow == Spec => []WindowsFollowSenders
  BY IngressInvAlways, PTL DEF IngressInv

\* A conclusion is about an incident that fires, and sends people to its subject and
\* nowhere else (triage and the entities of every normalizer).
THEOREM ConclusionsRight == Spec => []ConclusionsNameSubject
  BY IngressInvAlways, PTL DEF IngressInv

\* Windows are of known incidents, and every delivery has one of four answers.
THEOREM IngressTyped == Spec => []TypeOK
  BY IngressInvAlways, PTL DEF IngressInv
=============================================================================
