----------------------------- MODULE MCIngress ------------------------------
(* Instances of Ingress: all five sources, with every control set up or with  *)
(* two of them; and Datadog alone.                                             *)
EXTENDS Ingress

Checkout == {<<"service", "checkout">>}
CheckoutOnDb == Checkout \cup {<<"host", "db">>}

Incident(source, key, subject) == [source |-> source, key |-> key, subject |-> subject]

AllSources == {"datadog", "pagerduty", "generic", "grafana", "alertmanager"}
AllIncidents ==
    {Incident("datadog", "k1", CheckoutOnDb),
     Incident("pagerduty", "k1", Checkout), Incident("pagerduty", "k2", {}),
     Incident("generic", "k1", Checkout),
     Incident("grafana", "k1", Checkout), Incident("grafana", "k1", CheckoutOnDb),
     Incident("alertmanager", "k1", {})}
FullAndPartial == {AllSources, {"datadog", "alertmanager"}}

DatadogOnly == {"datadog"}
DatadogIncident == {Incident("datadog", "k1", Checkout)}
DatadogSetUp == {DatadogOnly}
=============================================================================
