------------------------------ MODULE Ingress -------------------------------
(***************************************************************************)
(* What a webhook delivery means: verification, the normalizers of the     *)
(* five sources, the fingerprint, triage, and the dedupe windows a delivery *)
(* opens and closes.  A delivery is one step here; what happens between    *)
(* the statements of two deliveries is the subject of Receiver.            *)
(***************************************************************************)
EXTENDS Naturals, Sequences, FiniteSets, SequencesExt

CONSTANTS
    Sources,      \* the sources of this instance
    Setups,       \* for each deployment: the sources whose control was set up
    Incidents,    \* [source, key, subject]: what the senders mean
    MaxTags,      \* bound on the tags or labels of a delivery
    None,         \* a field or header that is absent, or null
    NotAnObject   \* a body, or an alert of a batch, that is no JSON object

NoText == ""
Blank == " "            \* a field with nothing but blanks
NoColon == "no colon"   \* the value of a tag that is not of the form key:value
InsideNetwork == "inside the network"   \* a peer address that an allowlist admits

\* The ones of IDENTITY_TAG_KEYS that occur; the others are treated alike.
IDENTITY_TAG_KEYS == {"service", "host"}

\* Texts that decide something about a delivery: a priority, or a recovery.
Recognised ==
    {"P1", "p1", "P5", "p5", "Recovered", "recovered", "incident.resolved", "resolve", "Resolve",
     "resolved", "Resolved"}

ASSUME IngressAssumption ==
    /\ Sources \subseteq {"datadog", "pagerduty", "grafana", "alertmanager", "generic"}
    /\ Setups \subseteq SUBSET Sources
    /\ MaxTags \in Nat
    /\ None \notin Recognised \cup {Blank, InsideNetwork}

\* An incident has a key and a subject, a set of <<type, id>>.  PagerDuty names
\* at most a service, and only the generic source has types of its own.
ASSUME IncidentAssumption ==
    \A i \in Incidents :
        /\ i = [source |-> i.source, key |-> i.key, subject |-> i.subject]
        /\ i.source \in Sources
        /\ i.key \notin {None, NoText, Blank}
        /\ IsFiniteSet(i.subject)
        /\ \A pair \in i.subject :
              /\ pair = <<pair[1], pair[2]>>
              /\ pair[1] \notin {None, NoText, Blank} /\ pair[2] \notin {None, NoText, Blank, NoColon}
              /\ i.source # "generic" => pair[1] \in IDENTITY_TAG_KEYS
              /\ i.source = "pagerduty" => i.subject = {<<"service", pair[2]>>}

VARIABLES
    configured,   \* the sources with a secret or, for Alertmanager, an allowlist
    open,         \* the fingerprints with an open window
    firing,       \* the incidents their senders last reported as firing
    last          \* the last delivery and its answer

vars == <<configured, open, firing, last>>

\* _text: str(value).strip(), and no text for null.
Text(v) == IF v \in {None, Blank} THEN NoText ELSE v

\* `a or b` of two texts.
Or(a, b) == IF a # NoText THEN a ELSE b

\* dict.get with a default.
Lookup(map, text, default) == IF text \in DOMAIN map THEN map[text] ELSE default

\* str.lower and str.upper on the texts that occur.
lower(text) ==
    Lookup([Service |-> "service", HOST |-> "host", Error |-> "error", Critical |-> "critical",
            High |-> "high", Resolve |-> "resolve", Resolved |-> "resolved"], text, text)
upper(text) == Lookup([p1 |-> "P1", p5 |-> "P5"], text, text)

-----------------------------------------------------------------------------
(* Identity: entities and the fingerprint *)

\* Mutant: the name is compared as it was sent.
MutEntities(tags) ==
    {<<tags[i].name, tags[i].value>> : i \in
        {i \in DOMAIN tags : /\ tags[i].name \in IDENTITY_TAG_KEYS
                             /\ tags[i].value \notin {Blank, NoColon}}}

\* tag_entities: a sorted list without repetitions.
Entities(tags) ==
    {<<lower(tags[i].name), tags[i].value>> : i \in
        {i \in DOMAIN tags : /\ lower(tags[i].name) \in IDENTITY_TAG_KEYS
                             /\ tags[i].value \notin {Blank, NoColon}}}

\* _entities_from_labels: labels have values, be they blank.
LabelEntities(labels) ==
    LET found == {i \in DOMAIN labels : /\ lower(labels[i].name) \in IDENTITY_TAG_KEYS
                                        /\ labels[i].value # Blank}
    IN  {<<lower(labels[i].name), labels[i].value>> : i \in found}

\* The contract refuses an entity with a blank type or id.
Entity(item) == Text(item.type) # NoText /\ Text(item.id) # NoText

\* event_fingerprint; SHA-256 of the canonical JSON is taken to be injective.
Fingerprint(source, key, entities) == <<source, key, entities>>

AgentEvent(fingerprint, severity, entities) ==
    [fingerprint |-> fingerprint, severity |-> severity, entities |-> entities]

\* _build: the fingerprint is the canonical one, or AgentEvent would refuse it.
Event(source, key, entities, severity) ==
    AgentEvent(Fingerprint(source, key, entities), severity, entities)

-----------------------------------------------------------------------------
(* Datadog *)

PRIORITY_SEVERITY ==
    [P1 |-> "critical", P2 |-> "high", P3 |-> "medium", P4 |-> "low", P5 |-> "info"]
ALERT_TYPE_SEVERITY == [error |-> "high", warning |-> "medium", success |-> "info", info |-> "info"]

\* severity_of
DatadogSeverity(p) ==
    Lookup(PRIORITY_SEVERITY, upper(Text(p.priority)),
           Lookup(ALERT_TYPE_SEVERITY, lower(Text(p.alert_type)), "info"))

\* Mutant: only the spelling of Datadog's own documentation.
MutIsRecovery(p) == Text(p.alert_transition) = "Recovered"

is_recovery(p) == Text(p.alert_transition) \in {"Recovered", "recovered"}

\* occurred_at_of raises when datetime.fromtimestamp does: ValueError for a year
\* after 9999, OverflowError for still larger numbers.
DateRaises(p) == p.date \in {"after year 9999", "out of range"}

DatadogParses(p) == Text(p.alert_id) # NoText /\ ~DateRaises(p)

DatadogEvent(p) ==
    Event("datadog", Text(p.alert_id), Entities(p.tags), DatadogSeverity(p))

-----------------------------------------------------------------------------
(* PagerDuty *)

PD_PRIORITY ==
    [P1 |-> "critical", P2 |-> "high", P3 |-> "medium", P4 |-> "low", P5 |-> "info"]
PD_SEVERITY == [critical |-> "critical", error |-> "high", warning |-> "medium", info |-> "info"]
PD_URGENCY == [high |-> "high", low |-> "low"]

\* Mutant: urgency, which is always there, is looked at first.
MutPagerdutySeverity(p) ==
    Lookup(PD_URGENCY, lower(Text(p.urgency)),
           Lookup(PD_PRIORITY, upper(Text(p.priority)),
                  Lookup(PD_SEVERITY, lower(Text(p.severity)), "high")))

PagerdutySeverity(p) ==
    Lookup(PD_PRIORITY, upper(Text(p.priority)),
           Lookup(PD_SEVERITY, lower(Text(p.severity)),
                  Lookup(PD_URGENCY, lower(Text(p.urgency)), "high")))

\* _pagerduty_is_resolved: the type ends in .resolved, or is `resolve`.
PagerdutyIsResolved(p) == lower(Text(p.event_type)) \in {"incident.resolved", "resolve"}

PagerdutyKey(p) == Or(Text(p.dedup_key), Text(p.incident_key))

\* There are event.data or incident, and a key in them.
PagerdutyParses(p) == p.shape \in {"event", "incident"} /\ PagerdutyKey(p) # NoText

PagerdutyEvent(p) ==
    Event("pagerduty", PagerdutyKey(p),
          IF Text(p.service) # NoText THEN {<<"service", Text(p.service)>>} ELSE {},
          PagerdutySeverity(p))

-----------------------------------------------------------------------------
(* Grafana and Alertmanager *)

LABEL_SEVERITY ==
    [critical |-> "critical", error |-> "high", high |-> "high", page |-> "high",
     warning |-> "medium", warn |-> "medium", minor |-> "low", low |-> "low",
     info |-> "info", none |-> "info"]

AlertKey(alert) == Or(Text(alert.fingerprint), Text(alert.rule_uid))

IsResolved(alert) == lower(Text(alert.status)) = "resolved"

AlertEvent(source, alert) ==
    Event(source, AlertKey(alert), LabelEntities(alert.labels),
          Lookup(LABEL_SEVERITY, lower(Text(alert.severity)), "medium"))

IsObject(alert) == alert # NotAnObject

\* alerts[] is non-empty, and in one pass or the other every alert needs a key.
BatchParses(p) ==
    /\ p.alerts # <<>>
    /\ \A i \in DOMAIN p.alerts : IsObject(p.alerts[i]) => AlertKey(p.alerts[i]) # NoText

\* _label_batch; its order does not matter to a delivery that is one step.
LabelBatch(source, p, resolved) ==
    {AlertEvent(source, p.alerts[i]) : i \in
        {i \in DOMAIN p.alerts : IsObject(p.alerts[i]) /\ IsResolved(p.alerts[i]) = resolved}}

-----------------------------------------------------------------------------
(* Generic *)

\* An item counts when its type and id are there; what Entity then refuses,
\* a text of blanks only, fails the delivery.
Counts(item) == item.type \notin {None, NoText} /\ item.id \notin {None, NoText}

GenericParses(p) ==
    /\ Text(p.event_id) # NoText
    /\ \A i \in DOMAIN p.entities :
          Counts(p.entities[i]) => Entity(p.entities[i])

SEVERITIES == {"critical", "high", "medium", "low", "info"}

GenericEvent(p) ==
    LET items == {p.entities[i] : i \in {i \in DOMAIN p.entities : Counts(p.entities[i])}}
        text == lower(Text(p.severity))
    IN  Event("generic", Text(p.event_id), {<<e.type, e.id>> : e \in items},
              IF text \in SEVERITIES THEN text ELSE Lookup(LABEL_SEVERITY, text, "medium"))

-----------------------------------------------------------------------------
(* Verification.  A credential is the value of the source's header, or the  *)
(* peer address; a digest is a pair, the secret and the body it signs.      *)

Secret(source) == IF source \in configured THEN source ELSE NoText

\* Mutant: an unset secret is compared like any other.
MutVerifySharedToken(source, cred) == cred # None /\ cred = Secret(source)

verify_shared_token(source, cred) ==
    Secret(source) # NoText /\ cred # None /\ cred = Secret(source)

Signs(part, prefix, source, p) == part.prefix = prefix /\ part.digest = <<Secret(source), p>>

verify_hmac_signature(source, cred, p) ==
    Secret(source) # NoText /\ cred # None /\ Signs(cred, "sha256=", source, p)

\* The header is a list of signatures, any of which will do.
verify_pagerduty_signature(source, cred, p) ==
    /\ Secret(source) # NoText /\ cred # None
    /\ \E i \in DOMAIN cred : Signs(cred[i], "v1=", source, p)

\* The allowlist is one network when it is configured, and empty otherwise.
verify_source_ip(source, cred) == Secret(source) # NoText /\ cred = InsideNetwork

Verified(source, cred, p) ==
    CASE source = "alertmanager" -> verify_source_ip(source, cred)
      [] source = "pagerduty" -> verify_pagerduty_signature(source, cred, p)
      [] source = "generic" -> verify_hmac_signature(source, cred, p)
      [] OTHER -> verify_shared_token(source, cred)

-----------------------------------------------------------------------------
(* The handlers *)

Parses(source, p) ==
    /\ p # NotAnObject
    /\ CASE source = "datadog" -> DatadogParses(p)
         [] source = "pagerduty" -> PagerdutyParses(p)
         [] source = "generic" -> GenericParses(p)
         [] OTHER -> BatchParses(p)

\* OverflowError is neither a ValueError nor a TypeError: the request fails.
Fails(source, p) ==
    /\ source = "datadog" /\ p # NotAnObject
    /\ Text(p.alert_id) # NoText /\ p.date = "out of range"

\* The incidents a delivery ends ...
ToClose(source, p) ==
    CASE source = "datadog" -> IF is_recovery(p) THEN {DatadogEvent(p)} ELSE {}
      [] source = "pagerduty" -> IF PagerdutyIsResolved(p) THEN {PagerdutyEvent(p)} ELSE {}
      [] source = "generic" -> {}
      [] OTHER -> LabelBatch(source, p, TRUE)

\* ... and those it reports as firing.
ToAdmit(source, p) ==
    CASE source = "datadog" -> IF is_recovery(p) THEN {} ELSE {DatadogEvent(p)}
      [] source = "pagerduty" -> IF PagerdutyIsResolved(p) THEN {} ELSE {PagerdutyEvent(p)}
      [] source = "generic" -> {GenericEvent(p)}
      [] OTHER -> LabelBatch(source, p, FALSE)

\* triage
ESCALATING == {"critical", "high"}

TriageStatus(event) ==
    IF event.severity \in ESCALATING THEN "needs_human" ELSE "inconclusive"

\* Mutant: the finding about the subject is not conditional.
MutFindings(event) == {"firing", "no root cause", "subject"}

\* _findings: what the alert establishes, and that nothing else is known.
Findings(event) ==
    {"firing", "no root cause"} \cup (IF event.entities # {} THEN {"subject"} ELSE {})

\* confidence in percent; no entity to inspect means that one has to be identified.
Conclusion(event) ==
    [status |-> TriageStatus(event), confidence |-> IF event.entities # {} THEN 90 ELSE 60,
     findings |-> Findings(event), inspect |-> event.entities]

Fingerprints(events) == {e.fingerprint : e \in events}

\* Of the request, only what the properties ask about is kept.
Answer(source, p, status, conclusions) ==
    [status |-> status, conclusions |-> conclusions,
     priority |-> IF source \in {"datadog", "pagerduty"} /\ p # NotAnObject
                  THEN p.priority ELSE None,
     named |-> source = "datadog" /\ p # NotAnObject /\ Text(p.alert_id) # NoText]

\* 401
Reject(source, p, cred) ==
    /\ ~Verified(source, cred, p)
    /\ last' = Answer(source, p, "unverified", {})
    /\ UNCHANGED <<configured, open, firing>>

\* A body that does not parse leaves a quarantined row and no other trace.
Quarantine(source, p, cred) ==
    /\ Verified(source, cred, p)
    /\ ~Parses(source, p) /\ ~Fails(source, p)
    /\ last' = Answer(source, p, "quarantined", {})
    /\ UNCHANGED <<configured, open, firing>>

\* 500
Fail(source, p, cred) ==
    /\ Verified(source, cred, p)
    /\ Fails(source, p)
    /\ last' = Answer(source, p, "error", {})
    /\ UNCHANGED <<configured, open, firing>>

\* 202: Datadog's accepted, duplicate and recovered, the others' processed and
\* ignored.  Windows are closed first, then the firing incidents are admitted.  `up` and
\* `down` are the incidents the sender means.
Process(source, p, cred, up, down) ==
    /\ Verified(source, cred, p)
    /\ Parses(source, p)
    /\ open' = (open \ Fingerprints(ToClose(source, p))) \cup Fingerprints(ToAdmit(source, p))
    /\ last' = Answer(source, p, "processed", {Conclusion(e) : e \in ToAdmit(source, p)})
    /\ firing' = (firing \ down) \cup up
    /\ UNCHANGED configured

Deliver(source, p, cred, up, down) ==
    \/ Reject(source, p, cred)
    \/ Quarantine(source, p, cred)
    \/ Fail(source, p, cred)
    \/ Process(source, p, cred, up, down)

-----------------------------------------------------------------------------
(* The senders.  Each body varies one thing of a plain rendering of its     *)
(* incident.                                                                *)

Spellings == [service |-> {"service", "Service"}, host |-> {"host", "HOST"}]

Spelled(pair) == {[name |-> n, value |-> pair[2]] : n \in Spellings[pair[1]]}

\* Tags that say nothing of the subject.
Noise == {[name |-> "pod", value |-> "pod-7"], [name |-> "service", value |-> Blank],
          [name |-> "host", value |-> NoColon]}

\* The lists of tags, in any order, with repetitions and noise, that name subject.
Renderings ==
    [subject \in {i.subject : i \in Incidents} |->
        LET tags == Noise \cup UNION {Spelled(pair) : pair \in subject}
        IN  {s \in UNION {[1..n -> tags] : n \in 0..MaxTags} :
                \A pair \in subject : \E i \in DOMAIN s : s[i] \in Spelled(pair)}]

\* The tags of the subject, each once.
Plain(subject) ==
    LET pairs == SetToSeq(subject)
    IN  [j \in DOMAIN pairs |-> [name |-> pairs[j][1], value |-> pairs[j][2]]]

Transitions(up) ==
    IF up THEN {"Triggered", None, "Re-Triggered", "Warn"} ELSE {"Recovered", "recovered"}

OtherDates == {None, "malformed", "not positive", "after year 9999", "out of range"}

PlainDatadog(i, up) ==
    [alert_id |-> i.key, alert_transition |-> IF up THEN "Triggered" ELSE "Recovered",
     tags |-> Plain(i.subject), priority |-> None, alert_type |-> "error", date |-> "valid"]

Typed(p, priority, type) == [p EXCEPT !.priority = priority, !.alert_type = type]

DatadogBodies(i, up) ==
    LET base == PlainDatadog(i, up)
    IN  {[base EXCEPT !.tags = t] : t \in Renderings[i.subject]}
        \cup {Typed(base, x, y) :
                 x \in {None, "P1", "p1", "P5", "other"},
                 y \in {None, "error", "Error", "success", "other"}}
        \cup {[base EXCEPT !.date = d] : d \in OtherDates}
        \cup {[base EXCEPT !.alert_transition = x] : x \in Transitions(up)}

Services(subject) == IF subject = {} THEN {None, Blank} ELSE {pair[2] : pair \in subject}

EventTypes(up) ==
    IF up THEN {"incident.triggered", None, "incident.acknowledged"}
    ELSE {"incident.resolved", "resolve", "Resolve"}

PlainPagerduty(i, up) ==
    [shape |-> "event", event_type |-> IF up THEN "incident.triggered" ELSE "incident.resolved",
     dedup_key |-> i.key, incident_key |-> None, service |-> CHOOSE v \in Services(i.subject) : TRUE,
     priority |-> None, severity |-> None, urgency |-> "high"]

Rated(p, priority, severity, urgency) ==
    [p EXCEPT !.priority = priority, !.severity = severity, !.urgency = urgency]
Shaped(p, shape, type, service) == [p EXCEPT !.shape = shape, !.event_type = type, !.service = service]
Keyed(p, dedup, incident) == [p EXCEPT !.dedup_key = dedup, !.incident_key = incident]

PagerdutyBodies(i, up) ==
    LET base == PlainPagerduty(i, up)
    IN  {Rated(base, x, y, z) :
            x \in {None, "P1", "p5"}, y \in {None, "Critical"}, z \in {"High", "low"}}
        \cup {Shaped(base, x, y, z) :
                 x \in {"event", "incident"}, y \in EventTypes(up), z \in Services(i.subject)}
        \cup {Keyed(base, x, i.key) : x \in {None, Blank, i.key}}

Statuses(up) == IF up THEN {"firing", None} ELSE {"resolved", "Resolved"}

PlainAlert(i, up) ==
    [status |-> IF up THEN "firing" ELSE "resolved", fingerprint |-> i.key, rule_uid |-> None,
     labels |-> Plain(i.subject), severity |-> "critical"]

\* Labels are an object: a name occurs once, and always has a value.
IsLabels(s) ==
    \A j, k \in DOMAIN s : s[j].value # NoColon /\ (s[j].name = s[k].name => j = k)

Ruled(alert, fingerprint, uid) == [alert EXCEPT !.fingerprint = fingerprint, !.rule_uid = uid]

Alerts(i, up) ==
    LET base == PlainAlert(i, up)
    IN  {[base EXCEPT !.labels = l] : l \in {s \in Renderings[i.subject] : IsLabels(s)}}
        \cup {Ruled(base, f, i.key) : f \in {None, Blank, i.key}}
        \cup {[base EXCEPT !.severity = x] : x \in {None, "none", "page", "Error", "other"}}
        \cup {[base EXCEPT !.status = x] : x \in Statuses(up)}

IsBatch(source) == source \in {"grafana", "alertmanager"}

\* A batch: its alerts and the incidents it means to be up and down.
Batch(alerts, up, down) == [body |-> [alerts |-> alerts], up |-> up, down |-> down]

If(c, i) == IF c THEN {i} ELSE {}

NamelessAlert(i, up) == [PlainAlert(i, up) EXCEPT !.fingerprint = Blank]

\* An alert that is sent as an object is one.
ASSUME AlertAssumption ==
    \A i \in Incidents, up \in BOOLEAN : IsBatch(i.source) =>
        NotAnObject \notin Alerts(i, up) \cup {PlainAlert(i, up), NamelessAlert(i, up)}

\* The batch of one alert of each of two incidents.
Both(i, k, u, v) ==
    Batch(<<PlainAlert(i, u), PlainAlert(k, v)>>,
          If(u, i) \cup If(v, k), If(~u, i) \cup If(~v, k))

\* One alert; one beside what is no alert; two alerts; one beside an alert without identity.
Singles(mine) ==
    UNION {{Batch(<<a>>, If(u, i), If(~u, i)) : a \in Alerts(i, u)} : i \in mine, u \in BOOLEAN}
Padded(mine) ==
    {Batch(<<NotAnObject, PlainAlert(i, u)>>, If(u, i), If(~u, i)) : i \in mine, u \in BOOLEAN}
Doubles(mine) ==
    UNION {{Both(i, k, u, v) : k \in mine \ {i}, u \in BOOLEAN, v \in BOOLEAN} : i \in mine}
Spoilt(mine) ==
    {Batch(<<PlainAlert(i, u), NamelessAlert(i, v)>>, {}, {}) :
        i \in mine, u \in BOOLEAN, v \in BOOLEAN}

Batches ==
    [source \in {s \in Sources : IsBatch(s)} |->
        LET mine == {i \in Incidents : i.source = source}
        IN  Singles(mine) \cup Padded(mine) \cup Doubles(mine) \cup Spoilt(mine)
            \cup {Batch(<<NotAnObject>>, {}, {})}]

\* The entities of the subject, each once.
PlainItems(subject) ==
    LET pairs == SetToSeq(subject)
    IN  [j \in DOMAIN pairs |-> [type |-> pairs[j][1], id |-> pairs[j][2]]]

GenericBodies(i) ==
    LET base == [event_id |-> i.key, severity |-> None, entities |-> PlainItems(i.subject)]
    IN  {[base EXCEPT !.severity = x] : x \in {None, "Critical", "medium", "page", "other"}}
        \cup {[base EXCEPT !.entities = @ \o <<[type |-> t, id |-> None]>>] :
                 t \in {None, NoText, Blank, "host"}}
        \cup {[base EXCEPT !.entities = Reverse(@) \o @]}

\* Bodies without an identity: nobody means an incident by them.
Nameless(source) ==
    {NotAnObject} \cup
    CASE source = "datadog" ->
            {[alert_id |-> x, alert_transition |-> "Triggered", tags |-> <<>>, priority |-> "P1",
              alert_type |-> None, date |-> d] : x \in {None, Blank}, d \in OtherDates}
      [] source = "pagerduty" ->
            [shape : {"event", "none"}, event_type : {None, "resolve"}, dedup_key : {None},
             incident_key : {None, Blank}, service : {None}, priority : {None}, severity : {None},
             urgency : {"high"}]
      [] source = "generic" ->
            {[event_id |-> x, severity |-> None, entities |-> <<>>] : x \in {None, Blank}}
            \cup {[event_id |-> "id", severity |-> None,
                   entities |-> <<[type |-> Blank, id |-> "id"]>>]}
      [] OTHER -> {[alerts |-> <<>>]}

Good(source, p) ==
    CASE source = "alertmanager" -> InsideNetwork
      [] source = "pagerduty" -> <<[prefix |-> "v1=", digest |-> <<"a retired secret", p>>],
                                   [prefix |-> "v1=", digest |-> <<source, p>>]>>
      [] source = "generic" -> [prefix |-> "sha256=", digest |-> <<source, p>>]
      [] OTHER -> source

\* Credentials of senders that are not the source, or not set up yet.
OutsideNetwork == {NoText, "outside the network", "not an address"}
OtherTokens == {NoText, "another token"}
Signature(x) == [prefix |-> x[1], digest |-> <<x[2], x[3]>>]

Bad(source, p) ==
    {None} \cup
    CASE source = "alertmanager" -> OutsideNetwork
      [] source = "pagerduty" ->
            {<<Signature(x)>> : x \in
                ({"v1=", "v0="} \X {source, NoText} \X {p, NotAnObject}) \ {<<"v1=", source, p>>}}
      [] source = "generic" ->
            {Signature(x) : x \in
                ({"sha256=", "sha1="} \X {source, NoText} \X {p, NotAnObject}) \ {<<"sha256=", source, p>>}}
      [] OTHER -> OtherTokens

Bodies ==
    [i \in Incidents |-> [up \in BOOLEAN |->
        CASE i.source = "datadog" -> DatadogBodies(i, up)
          [] i.source = "pagerduty" -> PagerdutyBodies(i, up)
          [] i.source = "generic" -> IF up THEN GenericBodies(i) ELSE {}
          [] OTHER -> {[alerts |-> <<PlainAlert(i, up)>>]}]]

-----------------------------------------------------------------------------

Init ==
    /\ configured \in Setups
    /\ open = {} /\ firing = {}
    /\ last = Answer(None, NotAnObject, None, {})

SendOne ==
    \E i \in Incidents, up \in BOOLEAN : \E p \in Bodies[i][up] :
        Deliver(i.source, p, Good(i.source, p), IF up THEN {i} ELSE {}, IF up THEN {} ELSE {i})

SendBatch ==
    \E source \in DOMAIN Batches : \E b \in Batches[source] :
        Deliver(source, b.body, Good(source, b.body), b.up, b.down)

SendNameless ==
    \E source \in Sources : \E p \in Nameless(source) : Deliver(source, p, Good(source, p), {}, {})

SendUnsigned ==
    \E i \in Incidents : LET p == CHOOSE p \in Bodies[i][TRUE] : TRUE IN
        \E cred \in Bad(i.source, p) : Deliver(i.source, p, cred, {}, {})

Next == SendOne \/ SendBatch \/ SendNameless \/ SendUnsigned

Spec == Init /\ [][Next]_vars

-----------------------------------------------------------------------------
(* Properties *)

\* Windows are fingerprints of known incidents; the answer is one of four.
TypeOK ==
    /\ configured \in Setups
    /\ open \subseteq {Fingerprint(i.source, i.key, i.subject) : i \in Incidents}
    /\ firing \subseteq Incidents
    /\ last.status \in {None, "unverified", "quarantined", "error", "processed"}
    /\ \A c \in last.conclusions : c.status \in {"needs_human", "inconclusive"}

\* The open windows are those of the incidents their senders last reported as
\* firing, whatever the order, case, repetition or noise of tags and labels, the
\* field that carries the key, the shape of the payload, the other alerts of its
\* batch: one incident never has two fingerprints, two never share one, and a
\* resolution finds the window its trigger opened (normalizers and routes.py).
WindowsFollowSenders ==
    open = {Fingerprint(i.source, i.key, i.subject) : i \in firing}

\* A source whose secret or allowlist was not set never has a window
\* (verification.py: an unset control fails closed).
FailsClosed == \A f \in open : f[1] \in configured

\* A priority, an operator's own judgement, decides whether a human is paged:
\* no alert type, severity or urgency overrides it (severity_of,
\* _pagerduty_severity, triage).
PriorityDecides ==
    last.status = "processed" =>
        /\ last.priority \in {"P1", "p1"} => \A c \in last.conclusions : c.status = "needs_human"
        /\ last.priority \in {"P5", "p5"} => \A c \in last.conclusions : c.status = "inconclusive"

\* A conclusion sends people to what the sender said is affected, and to nothing
\* else: it is about an incident that fires, and it is less confident, and has no
\* finding of a subject, just when the sender named none (triage, _findings and
\* the entities of every normalizer).
ConclusionsNameSubject ==
    \A c \in last.conclusions : \E i \in firing :
        /\ c.inspect = i.subject
        /\ c.confidence = 60 <=> i.subject = {}
        /\ "subject" \in c.findings <=> i.subject # {}

\* What occurred_at_of says of itself: the date of a Datadog delivery never costs
\* the alert.
DateNeverLosesAlert ==
    last.named => last.status \in {"unverified", "processed"}
=============================================================================
