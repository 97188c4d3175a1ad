-------------------------- MODULE Operator_proofs --------------------------
(***************************************************************************)
(* For any environments, specs and number of faults: what the operator     *)
(* wants is well formed, whatever users have saved; what cleanupApp        *)
(* deletes never outlives its app; the state keeps its types and the       *)
(* certificates of users; and the operator leaves a running Deployment's   *)
(* number of replicas to its autoscaler.  For any projects, environments   *)
(* and requests: names are doubled only by a list that has them twice, no  *)
(* handler puts back what it read over a later edit, the state keeps its   *)
(* types, and the operator overlooks nothing.                              *)
(***************************************************************************)
EXTENDS AppReconciler, Environments, SequenceTheorems, FiniteSetTheorems, TLAPS

-----------------------------------------------------------------------------
(* Sets of numbers *)

\* A set of natural numbers has a least element, and Min is it.
LEMMA MinOfNats ==
    ASSUME NEW S \in SUBSET Nat, S # {}
    PROVE  /\ Min(S) \in S
           /\ \A y \in S : Min(S) <= y
  <1> DEFINE T == {0 .. x : x \in S}
  <1>1. T \subseteq FiniteSubsetsOf(Nat)
    <2>1. ASSUME NEW x \in S PROVE 0 .. x \in SUBSET Nat /\ IsFiniteSet(0 .. x)
      <3>1. x \in Int /\ 0 \in Int
        OBVIOUS
      <3>2. IsFiniteSet(0 .. x)
        BY <3>1, FS_Interval
      <3>3. QED
        BY <3>2
    <2>2. QED
      BY <2>1 DEF FiniteSubsetsOf
  <1>2. T # {}
    OBVIOUS
  <1>3. PICK t \in T : \A u \in T : ~(<<u, t>> \in StrictSubsetOrdering(Nat))
    <2> HIDE DEF T
    <2>1. QED
      BY <1>1, <1>2, FS_StrictSubsetOrderingWellFounded, WFMin
  <1>4. PICK x \in S : t = 0 .. x
    BY <1>3
  <1>5. ASSUME NEW y \in S, y < x PROVE FALSE
    <2>1. 0 .. y \in T /\ 0 .. y \in SUBSET Nat /\ 0 .. x \in SUBSET Nat
      OBVIOUS
    <2>2. 0 .. y \subseteq 0 .. x /\ x \in 0 .. x /\ x \notin 0 .. y
      BY <1>5
    <2>3. QED
      BY <2>1, <2>2, <1>3, <1>4 DEF StrictSubsetOrdering
  <1>6. \A y \in S : x <= y
    BY <1>5
  <1>7. QED
    BY <1>6 DEF Min

\* The first, the second, and so on, of a finite set of numbers are in it.
LEMMA Ranked ==
    ASSUME NEW n \in Nat, NEW S \in SUBSET (1..n), NEW k \in 1..Cardinality(S)
    PROVE  \E i \in S : Cardinality({j \in S : j <= i}) = k
<1>1. \A j \in S : j \in Nat /\ 1 <= j /\ j <= n
  OBVIOUS
<1>2. IsFiniteSet(S) /\ Cardinality(S) \in Nat
  <2>1. IsFiniteSet(1..n)
    BY FS_Interval
  <2>2. S \subseteq 1..n
    OBVIOUS
  <2>3. IsFiniteSet(S)
    BY <2>1, <2>2, FS_Subset
  <2> QED
    BY <2>3, FS_CardinalityType
<1>3. k \in Nat /\ 1 <= k /\ k <= Cardinality(S)
  BY <1>2
<1> DEFINE Upto(m) == {j \in S : j <= m}
<1>4. ASSUME NEW m \in Nat PROVE IsFiniteSet(Upto(m)) /\ Cardinality(Upto(m)) \in Nat
  <2>1. Upto(m) \subseteq S
    OBVIOUS
  <2> HIDE DEF Upto
  <2>2. IsFiniteSet(Upto(m))
    BY <1>2, <2>1, FS_Subset
  <2> QED
    BY <2>2, FS_CardinalityType
<1>5. Upto(n) = S
  <2>1. \A j : j \in Upto(n) <=> j \in S
    BY <1>1
  <2> QED
    BY <2>1
<1>6. Upto(0) = {}
  <2>1. ASSUME NEW j \in S PROVE ~(j <= 0)
    BY <1>1
  <2> QED
    BY <2>1
<1> DEFINE T == {m \in Nat : k <= Cardinality(Upto(m))}
<1>7. n \in T /\ T \in SUBSET Nat
  BY <1>3, <1>5
<1>8. PICK m \in T : \A x \in T : m <= x
  BY <1>7, MinOfNats
<1>9. m \in Nat /\ k <= Cardinality(Upto(m))
  OBVIOUS
<1>10. m # 0
  <2>1. Cardinality({}) = 0
    BY FS_EmptySet
  <2> QED
    BY <1>3, <1>6, <1>9, <2>1
<1> DEFINE p == m - 1
<1>11. p \in Nat /\ p < m /\ m = p + 1
  BY <1>9, <1>10
<1>12. p \notin T
  <2> HIDE DEF T, p
  <2> QED
    BY <1>8, <1>9, <1>11
<1>13. ~(k <= Cardinality(Upto(p)))
  BY <1>11, <1>12
<1> HIDE DEF T, p
<1>14. \A j \in S : j <= m <=> (j <= p \/ j = m)
  BY <1>1, <1>9, <1>11
<1>15. m \in S
  <2>1. SUFFICES ASSUME m \notin S PROVE FALSE
    OBVIOUS
  <2>2. \A j \in S : j <= m <=> j <= p
    BY <1>14, <2>1
  <2>3. Upto(m) = Upto(p)
    BY <2>2
  <2> QED
    BY <2>3, <1>9, <1>13
<1>16. Upto(m) = Upto(p) \cup {m} /\ m \notin Upto(p)
  <2>1. ~(m <= p) /\ m <= m
    BY <1>9, <1>11
  <2> QED
    BY <2>1, <1>14, <1>15
<1> HIDE DEF Upto
<1>17. Cardinality(Upto(m)) = Cardinality(Upto(p)) + 1
  BY <1>4, <1>11, <1>16, FS_AddElement
<1>18. Cardinality(Upto(m)) = k
  BY <1>3, <1>4, <1>9, <1>11, <1>13, <1>17
<1> QED
  BY <1>15, <1>18 DEF Upto

-----------------------------------------------------------------------------
(* What the operator wants: every object of its kind, no port twice in a   *)
(* Service, and no certificate of a user's given to an issuer.             *)

\* The types of the objects by name.
Services  == SUBSET [name : PortNames \X Nat, port : Nat, target : Nat,
                     protocol : {"TCP", "UDP"}]
Secrets   == Certs \cup {OwnCert, None}
Ingresses == [hosts : SUBSET Hosts, port : Nat, secret : Secrets,
              issuer : Issuers \cup {None}, https : BOOLEAN] \cup {None}
Redirects == [hosts : SUBSET Hosts, to : Hosts, tls : BOOLEAN, port : Nat,
              secret : Secrets, issuer : Issuers \cup {None}] \cup {None}
Scalers   == [min : Nat, max : Nat] \cup {None}
CronJobs  == SUBSET [name : CronNames, suspend : BOOLEAN]

\* The objects as records of sets that need no expanding.
LEMMA ObjectsFields ==
    Objects = [account : BOOLEAN, claims : SUBSET Claims, deployment : Deployment \cup {None},
               service : Services, ingress : Ingresses, https : BOOLEAN,
               middleware : Hosts \cup {None}, redirect : Redirects, scaler : Scalers,
               crons : CronJobs]
  BY DEF Objects, Services, Secrets, Ingresses, Redirects, Scalers, CronJobs

-----------------------------------------------------------------------------
\* The environments of a pass are those of the spec, or plain ones.
LEMMA TargetTypes ==
    ASSUME NEW spec \in AppSpec, NEW t \in Targets(spec)
    PROVE  t \in EnvConfig
  <1>1. CASE spec.envs # {}
    BY <1>1 DEF Targets, AppSpec
  <1>2. CASE spec.envs = {}
    <2>1. PICK e \in ProjectEnvs :
             t = [name |-> e, replicas |-> None, scale |-> None, ports |-> <<>>,
                  ingress |-> None]
      BY <1>2 DEF Targets
    <2>2. e \in Envs /\ <<>> \in Seq(Port)
      BY ObjectsAssumption
    <2>3. QED
      BY <2>1, <2>2 DEF EnvConfig
  <1>3. QED
    BY <1>1, <1>2

\* The first setting that is given is one of them.
LEMMA FirstOfTypes ==
    ASSUME NEW S, NEW s \in Seq(S \cup {None})
    PROVE  /\ FirstOf(s) \in S \cup {None}
           /\ (\E i \in DOMAIN s : s[i] # None) => FirstOf(s) # None
  <1> DEFINE given == {i \in DOMAIN s : s[i] # None}
  <1>1. FirstOf(s) = IF given = {} THEN None ELSE s[Min(given)]
    BY DEF FirstOf
  <1>2. DOMAIN s = 1 .. Len(s) /\ Len(s) \in Nat /\ \A i \in DOMAIN s : s[i] \in S \cup {None}
    OBVIOUS
  <1>3. given \in SUBSET Nat
    BY <1>2
  <1>4. given # {} => Min(given) \in given
    <2> HIDE DEF given
    <2>1. QED
      BY <1>3, MinOfNats
  <1>5. QED
    BY <1>1, <1>2, <1>4

\* A setting of an ingress that may be missing.
LEMMA FieldTypes ==
    ASSUME NEW config \in Override \cup {None}
    PROVE  /\ Field(config, "tls") \in BOOLEAN \cup {None}
           /\ Field(config, "mode") \in Modes \cup {None}
           /\ Field(config, "secret") \in Certs \cup {None}
           /\ Field(config, "issuer") \in Issuers \cup {None}
           /\ Field(config, "note") \in Issuers \cup {None}
           /\ Field(config, "target") \in Hosts \cup {None}
           /\ Given(config, "hosts") => config.hosts \in SUBSET Hosts
           /\ Given(config, "redirects") => config.redirects \in SUBSET Hosts
           /\ config # None => config \in Override
  BY DEF Field, Given, Override

\* The settings of the app and of an environment.
LEMMA ConfigTypes ==
    ASSUME NEW spec \in AppSpec, NEW t \in EnvConfig
    PROVE  /\ spec.ingress \in Override \cup {None}
           /\ t.ingress \in Override \cup {None}
           /\ t.name \in Envs
           /\ Template[t.name] \in Hosts \cup {None}
  BY ObjectsAssumption DEF AppSpec, EnvConfig, Ingress

\* A setting of the environment comes before one of the app, and one that is not given
\* is None.
LEMMA TwoSettings ==
    ASSUME NEW S, NEW a \in S \cup {None}, NEW b \in S \cup {None}
    PROVE  FirstOf(<<a, b>>) \in S \cup {None}
  <1>1. <<a, b>> \in Seq(S \cup {None})
    OBVIOUS
  <1>2. QED
    BY <1>1, FirstOfTypes

-----------------------------------------------------------------------------
(* Certificates *)

\* An environment has TLS or it has not.
LEMMA TlsTypes ==
    ASSUME NEW spec \in AppSpec, NEW t \in EnvConfig
    PROVE  TlsEnabled(spec, t) \in BOOLEAN
  <1> DEFINE a == Field(t.ingress, "tls")
             b == Field(spec.ingress, "tls")
  <1>1. a \in BOOLEAN \cup {None} /\ b \in BOOLEAN \cup {None}
    BY FieldTypes, ConfigTypes
  <1>2. FALSE # None
    BY ObjectsAssumption
  <1> HIDE DEF a, b
  <1>3. <<a, b, FALSE>> \in Seq(BOOLEAN \cup {None})
    BY <1>1
  <1>4. \E i \in DOMAIN <<a, b, FALSE>> : <<a, b, FALSE>>[i] # None
    <2>1. 3 \in DOMAIN <<a, b, FALSE>>
      OBVIOUS
    <2>2. <<a, b, FALSE>>[3] # None
      BY <1>2
    <2>3. QED
      BY <2>1, <2>2
  <1>5. FirstOf(<<a, b, FALSE>>) \in BOOLEAN
    BY <1>3, <1>4, FirstOfTypes
  <1>6. QED
    BY <1>5 DEF TlsEnabled, a, b

\* resolveCertConfig names an issuer only together with the generated secret.
LEMMA ResolvedTypes ==
    ASSUME NEW own \in Override \cup {None}, NEW env \in Override \cup {None}
    PROVE  /\ ResolveCert(own, env) \in [unmanaged : BOOLEAN, issuer : Issuers \cup {None},
                                         secret : Certs \cup {OwnCert}]
           /\ ResolveCert(own, env).issuer # None => ResolveCert(own, env).secret = OwnCert
           /\ ResolveCert(own, env).unmanaged => ResolveCert(own, env).issuer = None
  <1> DEFINE mode   == FirstOf(<<Field(env, "mode"), Field(own, "mode")>>)
             secret == FirstOf(<<Field(env, "secret"), Field(own, "secret")>>)
             five   == <<Field(env, "issuer"), Field(own, "issuer"),
                         Field(env, "note"), Field(own, "note"), Issuer>>
             issuer == FirstOf(five)
  <1>1. secret \in Certs \cup {None}
    BY FieldTypes, TwoSettings
  <1>2. five \in Seq(Issuers \cup {None})
    BY FieldTypes, ObjectsAssumption
  <1>3. issuer \in Issuers \cup {None}
    <2> HIDE DEF five
    <2>1. QED
      BY <1>2, FirstOfTypes
  <1> DEFINE Cert1(iss, sec) == [unmanaged |-> mode = "custom", issuer |-> iss, secret |-> sec]
  <1>4. ResolveCert(own, env) =
           IF mode = "custom" THEN Cert1(None, OwnCert)
           ELSE IF secret # None THEN Cert1(None, secret)
           ELSE IF mode = "manual" THEN Cert1(None, OwnCert)
           ELSE Cert1(issuer, OwnCert)
    BY DEF ResolveCert
  <1> HIDE DEF mode, secret, five, issuer
  <1> DEFINE cert == ResolveCert(own, env)
  <1>5. /\ cert.issuer \in {None, issuer} /\ cert.secret \in {OwnCert, secret}
        /\ cert.unmanaged \in BOOLEAN
        /\ cert = [unmanaged |-> cert.unmanaged, issuer |-> cert.issuer,
                   secret |-> cert.secret]
    BY <1>4
  <1>6. /\ cert.secret = secret => secret # None \/ cert.secret = OwnCert
        /\ cert.issuer # None => cert.secret = OwnCert
        /\ cert.unmanaged => cert.issuer = None
    <2>1. CASE mode = "custom"
      <3>1. cert = Cert1(None, OwnCert)
        BY <1>4, <2>1
      <3>2. QED
        BY <3>1
    <2>2. CASE mode # "custom"
      <3>1. cert.unmanaged = FALSE
        <4> DEFINE custom == mode = "custom"
        <4>1. custom = FALSE
          BY <2>2
        <4>2. cert.unmanaged = custom
          BY <1>4, <2>2
        <4> HIDE DEF custom
        <4>3. QED
          BY <4>1, <4>2
      <3>2. cert.issuer # None => cert.secret = OwnCert
        <4>1. CASE secret # None
          <5>1. cert = Cert1(None, secret)
            BY <1>4, <2>2, <4>1
          <5>2. QED
            BY <5>1
        <4>2. CASE secret = None
          <5>1. cert = Cert1(None, OwnCert) \/ cert = Cert1(issuer, OwnCert)
            BY <1>4, <2>2, <4>2
          <5>2. QED
            BY <5>1
        <4>3. QED
          BY <4>1, <4>2
      <3>3. cert.secret = secret => secret # None \/ cert.secret = OwnCert
        BY <1>4, <2>2
      <3>4. QED
        BY <3>1, <3>2, <3>3
    <2>3. QED
      BY <2>1, <2>2
  <1> HIDE DEF cert
  <1>7. cert.secret \in Certs \cup {OwnCert}
    BY <1>1, <1>5, <1>6
  <1>8. cert.issuer \in Issuers \cup {None}
    BY <1>3, <1>5
  <1>9. cert \in [unmanaged : BOOLEAN, issuer : Issuers \cup {None},
                  secret : Certs \cup {OwnCert}]
    BY <1>5, <1>7, <1>8
  <1>10. QED
    BY <1>6, <1>9 DEF cert

\* So are the secret and the issuer of an ingress.
LEMMA CertTypes ==
    ASSUME NEW spec \in AppSpec, NEW t \in EnvConfig
    PROVE  /\ TlsSecret(spec, t) \in Secrets
           /\ TlsIssuer(spec, t) \in Issuers \cup {None}
           /\ TlsIssuer(spec, t) # None => TlsSecret(spec, t) = OwnCert
  <1>1. /\ Cert(spec, t) \in [unmanaged : BOOLEAN, issuer : Issuers \cup {None},
                              secret : Certs \cup {OwnCert}]
        /\ Cert(spec, t).issuer # None => Cert(spec, t).secret = OwnCert
        /\ Cert(spec, t).unmanaged => Cert(spec, t).issuer = None
    BY ConfigTypes, ResolvedTypes DEF Cert
  <1>2. QED
    BY <1>1 DEF TlsSecret, TlsIssuer, Secrets

-----------------------------------------------------------------------------
(* Domains and ports *)

\* Domains are domains.
LEMMA HostTypes ==
    ASSUME NEW spec \in AppSpec, NEW t \in EnvConfig
    PROVE  /\ IngressHosts(spec, t) \in SUBSET Hosts
           /\ RedirectHosts(spec, t) \in SUBSET Hosts
           /\ RedirectTo(spec, t) \in Hosts \cup {None}
  <1>1. IngressHosts(spec, t) \in SUBSET Hosts
    BY FieldTypes, ConfigTypes DEF IngressHosts, Override
  <1>2. RedirectHosts(spec, t) \in SUBSET Hosts
    BY FieldTypes, ConfigTypes DEF RedirectHosts, Override
  <1>3. RedirectTo(spec, t) \in Hosts \cup {None}
    <2> DEFINE main  == IngressHosts(spec, t)
               a     == Field(t.ingress, "target")
               b     == Field(spec.ingress, "target")
               c     == IF main = {} THEN None ELSE CHOOSE h \in main : TRUE
    <2>1. a \in Hosts \cup {None} /\ b \in Hosts \cup {None}
      BY FieldTypes, ConfigTypes
    <2>2. c \in Hosts \cup {None}
      BY <1>1
    <2>3. RedirectTo(spec, t) = FirstOf(<<a, b, c>>)
      BY DEF RedirectTo
    <2> HIDE DEF a, b, c, main
    <2>4. <<a, b, c>> \in Seq(Hosts \cup {None})
      BY <2>1, <2>2
    <2>5. QED
      BY <2>3, <2>4, FirstOfTypes
  <1>4. QED
    BY <1>1, <1>2, <1>3

\* An ingress leads to one of the app's ports.
LEMMA BackendTypes ==
    ASSUME NEW spec \in AppSpec
    PROVE  BackendPort(spec) \in Nat
  <1> DEFINE ports == spec.ports
             http  == {i \in DOMAIN ports : ports[i].name = "http"}
  <1>1. ports \in Seq(Port)
    BY DEF AppSpec
  <1>2. \A i \in DOMAIN ports : i \in Nat /\ ports[i] \in Port
    BY <1>1
  <1>3. \A i \in DOMAIN ports : ports[i].port \in Nat
    BY <1>2 DEF Port
  <1>4. ASSUME http # {} PROVE Min(http) \in DOMAIN ports
    <2>1. http \in SUBSET Nat /\ http \subseteq DOMAIN ports
      BY <1>2
    <2> HIDE DEF http, ports
    <2>2. QED
      BY <1>4, <2>1, MinOfNats
  <1>5. ports # <<>> => 1 \in DOMAIN ports
    BY <1>1
  <1>6. BackendPort(spec) = IF ports = <<>> THEN 80
                            ELSE IF http # {} THEN ports[Min(http)].port ELSE ports[1].port
    BY DEF BackendPort
  <1> HIDE DEF http, ports
  <1>7. QED
    BY <1>3, <1>4, <1>5, <1>6

\* The ports of a Service, from one list of the spec or from the app's own port.
LEMMA ServiceTypes ==
    ASSUME NEW spec \in AppSpec, NEW t \in EnvConfig, NEW old \in Services
    PROVE  WantService(spec, t, old) \in Services
  <1>1. ASSUME NEW ports \in Seq(Port) PROVE ServicePorts(ports) \in Services
    <2>1. ASSUME NEW i \in KeptPorts(ports)
          PROVE  ServicePort(ports, i) \in [name : PortNames \X Nat, port : Nat,
                                            target : Nat, protocol : {"TCP", "UDP"}]
      <3>1. ports[i] \in Port /\ KeptPorts(ports) \subseteq 1 .. Len(ports)
        BY DEF KeptPorts
      <3>2. Cardinality(Namesakes(ports, i)) \in Nat
        <4>1. IsFiniteSet(1 .. Len(ports))
          BY FS_Interval
        <4>2. Namesakes(ports, i) \subseteq 1 .. Len(ports)
          BY <3>1 DEF Namesakes
        <4>3. QED
          BY <4>1, <4>2, FS_Subset, FS_CardinalityType
      <3>3. QED
        BY <3>1, <3>2 DEF ServicePort, Port
    <2>2. QED
      BY <2>1 DEF ServicePorts, Services
  <1>2. spec.ports \in Seq(Port) /\ t.ports \in Seq(Port) /\ spec.port \in Nat
    BY DEF AppSpec, EnvConfig
  <1>3. <<"http", 1>> \in PortNames \X Nat
    BY ObjectsAssumption
  <1>4. {[name |-> <<"http", 1>>, port |-> 80, target |-> spec.port, protocol |-> "TCP"]}
            \in Services
    BY <1>2, <1>3 DEF Services
  <1> DEFINE legacy == {[name |-> <<"http", 1>>, port |-> 80, target |-> spec.port,
                         protocol |-> "TCP"]}
             ports  == IF t.ports # <<>> THEN t.ports ELSE spec.ports
  <1>5. ports \in Seq(Port)
    BY <1>2
  <1>6. WantService(spec, t, old) = IF ports # <<>> THEN ServicePorts(ports)
                                    ELSE IF spec.port > 0 THEN legacy ELSE old
    BY DEF WantService
  <1> HIDE DEF legacy, ports
  <1>7. QED
    BY <1>1, <1>4, <1>5, <1>6 DEF legacy

\* Of two ports of one name the later one has the higher number.
LEMMA NumbersGrow ==
    ASSUME NEW ports \in Seq(Port), NEW i \in KeptPorts(ports), NEW j \in KeptPorts(ports),
           i < j, ports[i].name = ports[j].name
    PROVE  Cardinality(Namesakes(ports, i)) < Cardinality(Namesakes(ports, j))
  <1>1. KeptPorts(ports) \subseteq 1 .. Len(ports)
    BY DEF KeptPorts
  <1>2. Namesakes(ports, j) \subseteq 1 .. Len(ports)
    BY <1>1 DEF Namesakes
  <1>3. Namesakes(ports, i) \subseteq Namesakes(ports, j)
    BY <1>1 DEF Namesakes
  <1>4. j \in Namesakes(ports, j) /\ j \notin Namesakes(ports, i)
    BY <1>1 DEF Namesakes
  <1>5. IsFiniteSet(1 .. Len(ports))
    BY FS_Interval
  <1>6. IsFiniteSet(Namesakes(ports, j)) /\ IsFiniteSet(Namesakes(ports, i))
    BY <1>2, <1>3, <1>5, FS_Subset
  <1>7. QED
    BY <1>3, <1>4, <1>6, FS_Subset, FS_CardinalityType

\* buildServicePorts never makes a Service that Kubernetes refuses for its ports: whatever
\* list a user has stored, no two of them share a name, or a number and protocol.
THEOREM PortsDistinct ==
    ASSUME NEW ports \in Seq(Port), NEW i \in KeptPorts(ports), NEW j \in KeptPorts(ports),
           i # j
    PROVE  LET p == ServicePort(ports, i)
               q == ServicePort(ports, j)
           IN  p.name # q.name /\ PortKey(p) # PortKey(q)
  <1>1. ASSUME NEW k \in KeptPorts(ports), NEW l \in KeptPorts(ports), k < l
        PROVE  LET p == ServicePort(ports, k)
                   q == ServicePort(ports, l)
               IN  p.name # q.name /\ PortKey(p) # PortKey(q)
    <2>1. KeptPorts(ports) \subseteq 1 .. Len(ports) /\ k \in 1 .. l - 1
      BY <1>1 DEF KeptPorts
    <2>2. PortKey(ports[k]) # PortKey(ports[l])
      BY <2>1 DEF KeptPorts
    <2>3. ASSUME NEW h \in KeptPorts(ports)
          PROVE  PortKey(ServicePort(ports, h)) = PortKey(ports[h])
      BY DEF PortKey, ServicePort
    <2>4. ASSUME NEW h \in KeptPorts(ports)
          PROVE  Cardinality(Namesakes(ports, h)) \in Nat
      <3>1. Namesakes(ports, h) \subseteq 1 .. Len(ports) /\ IsFiniteSet(1 .. Len(ports))
        BY <2>1, FS_Interval DEF Namesakes
      <3>2. QED
        BY <3>1, FS_Subset, FS_CardinalityType
    <2>5. Cardinality(Namesakes(ports, k)) # Cardinality(Namesakes(ports, l))
             \/ ports[k].name # ports[l].name
      BY <1>1, <2>4, NumbersGrow
    <2>6. ServicePort(ports, k).name # ServicePort(ports, l).name
      BY <2>5 DEF ServicePort
    <2>7. PortKey(ServicePort(ports, k)) # PortKey(ServicePort(ports, l))
      BY <2>2, <2>3
    <2>8. QED
      BY <2>6, <2>7
  <1>2. i \in Int /\ j \in Int
    BY DEF KeptPorts
  <1>3. i < j \/ j < i
    BY <1>2
  <1>4. QED
    BY <1>1, <1>3

-----------------------------------------------------------------------------
(* Every object *)

\* A Deployment has a number of replicas, whether the autoscaler or the spec says it.
LEMMA DeploymentTypes ==
    ASSUME NEW spec \in AppSpec, NEW t \in EnvConfig, NEW phase, NEW version \in Nat,
           NEW old \in Deployment \cup {None}
    PROVE  WantDeployment(spec, t, phase, version, old) \in Deployment
  <1>1. spec.labels \in Labels /\ t.replicas \in Nat \cup {None}
    BY DEF AppSpec, EnvConfig
  <1>2. old # None => old.replicas \in Nat
    BY DEF Deployment
  <1>3. Replicas(spec, t, phase, old) \in Nat
    BY <1>1, <1>2 DEF Replicas
  <1>4. QED
    BY <1>1, <1>3 DEF WantDeployment, Deployment

\* An autoscaler has bounds, the lower one above zero.
LEMMA ScalerTypes ==
    ASSUME NEW t \in EnvConfig, NEW old \in Scalers
    PROVE  WantScaler(t, old) \in Scalers
  <1>1. ASSUME t.scale # None PROVE WantScaler(t, old) \in [min : Nat, max : Nat]
    <2>1. t.scale \in [min : Nat, max : Nat]
      BY <1>1 DEF EnvConfig
    <2> DEFINE low == IF t.scale.min > 0 THEN t.scale.min ELSE 1
               top == t.scale.max
    <2>2. low \in Nat /\ top \in Nat
      BY <2>1
    <2>3. WantScaler(t, old) = [min |-> low, max |-> Max({low, top})]
      BY <1>1 DEF WantScaler
    <2> HIDE DEF low, top
    <2>4. Max({low, top}) \in {low, top}
      <3>1. \E x \in {low, top} : \A y \in {low, top} : x >= y
        BY <2>2
      <3>2. QED
        BY <3>1 DEF Max
    <2>5. QED
      BY <2>2, <2>3, <2>4
  <1>2. t.scale = None => WantScaler(t, old) = old
    BY DEF WantScaler
  <1>3. QED
    BY <1>1, <1>2 DEF Scalers

\* Cron jobs are those there were and those of the spec, on or off.
LEMMA CronTypes ==
    ASSUME NEW spec \in AppSpec, NEW t \in EnvConfig, NEW done, NEW old \in CronJobs
    PROVE  /\ MergeCrons(spec, t, done, old) \in CronJobs
           /\ WantCrons(spec, t, old) \in CronJobs
  <1>1. \A c \in spec.crons : CronJob(c, t.name) \in [name : CronNames, suspend : BOOLEAN]
    <2> TAKE c \in spec.crons
    <2>1. c \in Cron /\ c.name \in CronNames
      BY DEF AppSpec, Cron
    <2> DEFINE off == ~CronEnabled(c, t.name)
    <2>2. off \in BOOLEAN
      OBVIOUS
    <2>3. CronJob(c, t.name) = [name |-> c.name, suspend |-> off]
      BY DEF CronJob
    <2> HIDE DEF off
    <2>4. QED
      BY <2>1, <2>2, <2>3
  <1>2. ASSUME NEW some PROVE MergeCrons(spec, t, some, old) \in CronJobs
    BY <1>1 DEF MergeCrons, CronJobs
  <1>3. \A jobs \in CronJobs : Prune(spec, jobs) \in CronJobs
    BY DEF Prune, CronJobs
  <1>4. QED
    BY <1>2, <1>3 DEF WantCrons

\* Ingresses, their middlewares and the redirecting ones.
LEMMA IngressTypes ==
    ASSUME NEW spec \in AppSpec, NEW t \in EnvConfig
    PROVE  /\ \A old \in Ingresses : WantIngress(spec, t, old) \in Ingresses
           /\ \A old \in BOOLEAN : WantHttps(spec, t, old) \in BOOLEAN
           /\ \A old \in Hosts \cup {None} : WantMiddleware(spec, t, old) \in Hosts \cup {None}
           /\ \A old \in Redirects : WantRedirect(spec, t, old) \in Redirects
  <1>1. TlsEnabled(spec, t) \in BOOLEAN /\ Traefik \in BOOLEAN
    BY TlsTypes, ObjectsAssumption
  <1>2. (TlsEnabled(spec, t) /\ Traefik) \in BOOLEAN
    OBVIOUS
  <1>3. \A old \in Ingresses : WantIngress(spec, t, old) \in Ingresses
    BY <1>2, HostTypes, BackendTypes, CertTypes DEF WantIngress, Ingresses
  <1>4. \A old \in BOOLEAN : WantHttps(spec, t, old) \in BOOLEAN
    BY <1>2 DEF WantHttps
  <1>5. \A old \in Hosts \cup {None} : WantMiddleware(spec, t, old) \in Hosts \cup {None}
    BY HostTypes DEF WantMiddleware
  <1>6. \A old \in Redirects : WantRedirect(spec, t, old) \in Redirects
    BY <1>1, HostTypes, BackendTypes, CertTypes DEF WantRedirect, Redirects
  <1>7. QED
    BY <1>3, <1>4, <1>5, <1>6

\* The values of each kind of object.
Values == [account |-> BOOLEAN, claims |-> SUBSET Claims, deployment |-> Deployment \cup {None},
           service |-> Services, ingress |-> Ingresses, https |-> BOOLEAN,
           middleware |-> Hosts \cup {None}, redirect |-> Redirects, scaler |-> Scalers,
           crons |-> CronJobs]

\* No object at all is one of the possibilities.
LEMMA NothingTypes == Nothing \in Objects
  <1>1. /\ {} \in Services /\ None \in Ingresses /\ None \in Redirects
        /\ None \in Scalers /\ {} \in CronJobs
    BY DEF Services, Ingresses, Redirects, Scalers, CronJobs
  <1>2. QED
    BY <1>1, ObjectsFields DEF Nothing

\* One object may be another of its kind.
LEMMA PutTypes ==
    ASSUME NEW o \in Objects, NEW k \in DOMAIN Nothing
    PROVE  /\ o[k] \in Values[k]
           /\ \A v \in Values[k] : [o EXCEPT ![k] = v] \in Objects
           /\ \A v : \A l \in DOMAIN Nothing \ {k} : [o EXCEPT ![k] = v][l] = o[l]
           /\ \A v : [o EXCEPT ![k] = v][k] = v
           /\ Nothing[k] \in Values[k]
  <1>1. k \in {"account", "claims", "deployment", "service", "ingress", "https",
               "middleware", "redirect", "scaler", "crons"}
    BY DEF Nothing
  <1>2. o[k] \in Values[k] /\ \A v \in Values[k] : [o EXCEPT ![k] = v] \in Objects
    BY <1>1, ObjectsFields DEF Values
  <1>3. Nothing[k] \in Values[k]
    <2>1. \A p \in Objects : p[k] \in Values[k]
      BY <1>1, ObjectsFields DEF Values
    <2>2. QED
      BY <2>1, NothingTypes
  <1>4. DOMAIN o = DOMAIN Nothing
    BY ObjectsFields DEF Nothing
  <1>5. QED
    BY <1>2, <1>3, <1>4

\* What a pass wants of an object is one of its kind.
LEMMA WantTypes ==
    ASSUME NEW spec \in AppSpec, NEW t \in EnvConfig, NEW phase, NEW version \in Nat,
           NEW o \in Objects, NEW k \in DOMAIN Nothing
    PROVE  Want(k, spec, t, phase, version, o) \in Values[k]
  <1>1. k \in {"account", "claims", "deployment", "service", "ingress", "https",
               "middleware", "redirect", "scaler", "crons"}
    BY DEF Nothing
  <1>2. o[k] \in Values[k]
    BY PutTypes
  <1>3. CASE k = "account"
    BY <1>3 DEF Want, Values
  <1>4. CASE k = "claims"
    <2>1. spec.claims \in SUBSET Claims /\ o.claims \in SUBSET Claims
      BY <1>2, <1>4 DEF Values, AppSpec
    <2>2. QED
      BY <1>4, <2>1 DEF Want, Values, WantClaims
  <1>5. CASE k = "deployment"
    BY <1>2, <1>5, DeploymentTypes DEF Want, Values
  <1>6. CASE k = "service"
    BY <1>2, <1>6, ServiceTypes DEF Want, Values
  <1>7. CASE k = "ingress"
    BY <1>2, <1>7, IngressTypes DEF Want, Values
  <1>8. CASE k = "https"
    BY <1>2, <1>8, IngressTypes DEF Want, Values
  <1>9. CASE k = "middleware"
    BY <1>2, <1>9, IngressTypes DEF Want, Values
  <1>10. CASE k = "redirect"
    BY <1>2, <1>10, IngressTypes DEF Want, Values
  <1>11. CASE k = "scaler"
    BY <1>2, <1>11, ScalerTypes DEF Want, Values
  <1>12. CASE k = "crons"
    BY <1>2, <1>12, CronTypes DEF Want, Values
  <1>13. QED
    BY <1>1, <1>3, <1>4, <1>5, <1>6, <1>7, <1>8, <1>9, <1>10, <1>11, <1>12

-----------------------------------------------------------------------------
(* The objects the operator keeps *)

Copies == App \cup {None}
Pcs    == {"idle", "mark", "sync", "fail", "status", "put", "cleanup", "unmark"}
Kinds  == DOMAIN Nothing
Ops    == [pc : Pcs, base : Copies, left : SUBSET Envs, env : Envs \cup {None},
           step : 1 .. 10]

\* The types of the control state, and the domains of the objects.
Shape ==
    /\ app \in Copies /\ cache \in Copies
    /\ op \in Ops
    /\ DOMAIN objs = Envs /\ \A e \in Envs : DOMAIN objs[e] = Kinds

\* Environment e has an object that cleanupApp would delete and has not overlooked.
Exists(e, kind) == objs[e][kind] # Nothing[kind] /\ ~(kind = "crons" /\ e \in blind)

Live(a)     == a # None /\ a.fin /\ ~a.deleting
Holds(a, e) == a # None /\ a.fin /\ e \in TargetEnvs(a.spec)
Same(a, b)  == a # None /\ b # None /\ a.spec = b.spec /\ a.fin = b.fin
               /\ a.deleting = b.deleting

-----------------------------------------------------------------------------
(* The inductive invariant *)

\* A current copy is the resource, up to the phase where the operator has set one.
Copied ==
    /\ "op" \in current /\ op.base # None => Same(op.base, app)
    /\ "cache" \in current => cache = app

\* The operator works on a copy, and a marked one is not being deleted.
Based ==
    /\ op.pc \in {"sync", "cleanup", "put"} => op.base # None
    /\ op.pc = "mark" => /\ op.base # None /\ ~op.base.deleting
                         /\ "op" \in current => ~(cache # None /\ cache.deleting)
    /\ op.env = None => op.step = 1
    /\ op.pc = "cleanup" => op.step \in 1 .. 6
    /\ op.pc = "unmark" => op.left = {}

\* An app that the cache shows alive may be older than the resource, but the resource
\* holds on to its environments; and one that is alive is not deleted in the cache.
CacheHolds ==
    /\ Live(cache) => \A e \in TargetEnvs(cache.spec) \ strays : Holds(app, e)
    /\ Live(app) => ~(cache # None /\ cache.deleting)

\* So does it hold on to the environments of a pass.
SyncHolds ==
    op.pc = "sync" => \A e \in op.left \ strays :
                         Holds(app, e) /\ cache # None /\ e \in TargetEnvs(cache.spec)

\* The cache that starts a cleanup names every environment with something left in it.
CacheCovers ==
    cache # None /\ cache.deleting /\ cache.fin =>
        \A e \in Envs \ strays, kind \in Cleaned :
            Exists(e, kind) => e \in TargetEnvs(cache.spec)

\* A cleanup has all of it still ahead.
Ahead ==
    op.pc \in {"cleanup", "unmark"} =>
        /\ ~Live(app) /\ ~Live(cache)
        /\ \A e \in Envs \ strays, kind \in Cleaned :
              Exists(e, kind) => /\ e \in op.left
                                 /\ e = op.env => \E i \in op.step .. 6 : CleanOrder[i] = kind

IInv == Shape /\ Copied /\ Based /\ CacheHolds /\ SyncHolds /\ CacheCovers /\ Ahead /\ Owned

-----------------------------------------------------------------------------
(* Lemmas *)

\* The environments of an app are environments.
LEMMA SpecTypes ==
    ASSUME NEW a \in App
    PROVE  a.spec \in AppSpec /\ TargetEnvs(a.spec) \subseteq Envs
  <1>1. PICK s \in Specs, b \in BOOLEAN : a.spec = [s EXCEPT !.sleep = b]
    BY DEF App
  <1>2. a.spec \in AppSpec
    BY <1>1, ReconcilerAssumption DEF AppSpec
  <1>3. TargetEnvs(a.spec) \subseteq Envs
    <2>1. a.spec.envs \subseteq EnvConfig
      BY <1>2 DEF AppSpec
    <2>2. \A t \in EnvConfig : t.name \in Envs
      BY DEF EnvConfig
    <2>3. \A t \in Targets(a.spec) : t.name \in Envs
      BY <2>1, <2>2, ObjectsAssumption DEF Targets
    <2>4. QED
      BY <2>3 DEF TargetEnvs
  <1>4. QED
    BY <1>2, <1>3

\* Whether an app may sleep has nothing to do with its environments.
LEMMA SleepKeepsEnvs ==
    ASSUME NEW s \in AppSpec, NEW b \in BOOLEAN
    PROVE  TargetEnvs([s EXCEPT !.sleep = b]) = TargetEnvs(s)
  <1>1. [s EXCEPT !.sleep = b].envs = s.envs
    BY DEF AppSpec
  <1>2. QED
    BY <1>1 DEF TargetEnvs, Targets

\* The specs a resource can have.
Saved == {[s EXCEPT !.sleep = b] : s \in Specs, b \in BOOLEAN}

\* The resources as records of sets that need no expanding.
LEMMA AppFields == App = [spec : Saved, phase : Phases, fin : BOOLEAN, deleting : BOOLEAN]
  BY DEF App, Saved

\* A resource with another spec, phase or mark is one of the resources.
LEMMA AppTypes ==
    /\ \A s \in Specs : [spec |-> s, phase |-> "", fin |-> FALSE, deleting |-> FALSE] \in App
    /\ \A a \in App : /\ \A s \in Specs : [a EXCEPT !.spec = s] \in App
                      /\ \A on \in BOOLEAN : [a EXCEPT !.spec.sleep = on] \in App
                      /\ \A on \in BOOLEAN :
                            LET b == [a EXCEPT !.spec.sleep = on]
                            IN  /\ b.spec = [a.spec EXCEPT !.sleep = on]
                                /\ b.fin = a.fin /\ b.deleting = a.deleting
                      /\ [a EXCEPT !.deleting = TRUE] \in App
                      /\ [a EXCEPT !.fin = TRUE] \in App
                      /\ \A p \in Phases : [a EXCEPT !.phase = p] \in App
  <1>1. \A s \in Specs : s \in Saved
    <2> TAKE s \in Specs
    <2>1. s \in AppSpec
      BY ReconcilerAssumption
    <2>2. s.sleep \in BOOLEAN /\ s = [s EXCEPT !.sleep = s.sleep]
      BY <2>1 DEF AppSpec
    <2>3. QED
      BY <2>2 DEF Saved
  <1>2. \A a \in App, on \in BOOLEAN :
            [a.spec EXCEPT !.sleep = on] \in Saved
    <2> TAKE a \in App, on \in BOOLEAN
    <2>1. PICK s \in Specs, b \in BOOLEAN : a.spec = [s EXCEPT !.sleep = b]
      BY DEF App
    <2>2. [a.spec EXCEPT !.sleep = on] = [s EXCEPT !.sleep = on]
      BY <2>1, ReconcilerAssumption DEF AppSpec
    <2>3. QED
      BY <2>2 DEF Saved
  <1>3. "" \in Phases
    BY DEF Phases
  <1>4. \A a \in App, on \in BOOLEAN : [a EXCEPT !.spec.sleep = on] \in App
    <2> TAKE a \in App, on \in BOOLEAN
    <2>1. [a EXCEPT !.spec.sleep = on] = [a EXCEPT !.spec = [a.spec EXCEPT !.sleep = on]]
      BY AppFields
    <2>2. QED
      BY <1>2, <2>1, AppFields
  <1>5. \A a \in App, on \in BOOLEAN :
            LET b == [a EXCEPT !.spec.sleep = on]
            IN  /\ b.spec = [a.spec EXCEPT !.sleep = on]
                /\ b.fin = a.fin /\ b.deleting = a.deleting
    BY AppFields
  <1>6. QED
    BY <1>1, <1>3, <1>4, <1>5, AppFields

-----------------------------------------------------------------------------
(* Users, cluster and caches *)

\* The invariant holds in the beginning: nothing is there.
LEMMA InitInv == Init => IInv
  <1> SUFFICES ASSUME Init PROVE IInv
    OBVIOUS
  <1> USE ObjectsAssumption DEF Init, Idle
  <1>1. Shape
    BY DEF Shape, Ops, Copies, Pcs, Kinds
  <1>2. \A e \in Envs, kind \in Cleaned : ~Exists(e, kind)
    BY DEF Exists
  <1>3. Copied /\ Based /\ CacheHolds /\ SyncHolds /\ Ahead
    BY DEF Copied, Based, CacheHolds, SyncHolds, Ahead, Live
  <1>4. CacheCovers /\ Owned
    BY <1>2 DEF CacheCovers, Owned, Exists
  <1>5. QED
    BY <1>1, <1>3, <1>4 DEF IInv

\* A step that leaves the operator and its copies alone, creates nothing it would have to
\* clean up, and neither lets go of an environment that is still in the spec nor revives
\* the app, keeps the invariant.
LEMMA OutsideStep ==
    ASSUME IInv, Shape', UNCHANGED <<cache, op>>,
           \/ current' = {}
           \/ UNCHANGED <<app, current>>,
           strays \subseteq strays',
           \A e \in Envs \ strays' : Holds(app, e) => Holds(app', e),
           Live(app') => Live(app),
           \A e \in Envs, kind \in Cleaned : Exists(e, kind)' => Exists(e, kind)
    PROVE  IInv'
  <1> USE DEF IInv
  <1>1. Copied'
    BY DEF Copied
  <1>2. Based'
    BY DEF Based
  <1>3. CacheHolds'
    <2>1. Live(cache) => TargetEnvs(cache.spec) \subseteq Envs
      BY SpecTypes DEF Live, Shape, Copies
    <2>2. QED
      BY <2>1 DEF CacheHolds
  <1>4. SyncHolds'
    BY DEF SyncHolds, Shape, Ops
  <1>5. CacheCovers'
    BY DEF CacheCovers
  <1>6. Ahead'
    BY DEF Ahead
  <1>7. Owned'
    BY DEF Owned, Exists, Holds
  <1>8. QED
    BY <1>1, <1>2, <1>3, <1>4, <1>5, <1>6, <1>7

\* Whatever users do.
LEMMA UserStep == ASSUME IInv, User PROVE IInv'
  <1> USE NoneIsNoApp DEF IInv
  <1>1. ASSUME NEW s \in Specs, Create(s) PROVE IInv'
    <2>1. Shape'
      BY <1>1, AppTypes DEF Create, Write, UserOnly, Shape, Copies
    <2>2. QED
      BY <1>1, <2>1, OutsideStep DEF Create, Write, UserOnly, Live, Holds, Exists
  <1>2. ASSUME NEW s \in Specs, EditSpec(s) PROVE IInv'
    <2>1. app \in App
      BY <1>2 DEF EditSpec, Shape, Copies
    <2>2. /\ app' \in App /\ app'.spec = s
          /\ app'.fin = app.fin /\ app'.deleting = app.deleting
      BY <1>2, <2>1, AppTypes, AppFields DEF EditSpec, Write
    <2>3. Shape'
      BY <1>2, <2>2 DEF EditSpec, Write, UserOnly, Shape, Copies
    <2>4. \A e \in Envs \ strays' : Holds(app, e) => Holds(app', e)
      BY <1>2, <2>2 DEF EditSpec, Holds
    <2>5. QED
      BY <1>2, <2>2, <2>3, <2>4, OutsideStep DEF EditSpec, Write, UserOnly, Live, Exists
  <1>3. ASSUME Delete PROVE IInv'
    <2>1. app \in App
      BY <1>3 DEF Delete, Shape, Copies
    <2>2. CASE app.fin
      <3>1. app' \in App /\ app'.spec = app.spec /\ app'.fin /\ app'.deleting
        BY <1>3, <2>1, <2>2, AppTypes, AppFields DEF Delete, Write
      <3>2. Shape'
        BY <1>3, <3>1 DEF Delete, Write, UserOnly, Shape, Copies
      <3>3. QED
        BY <1>3, <3>1, <3>2, OutsideStep DEF Delete, Write, UserOnly, Live, Holds, Exists
    <2>3. CASE ~app.fin
      <3>1. app' = None
        BY <1>3, <2>3 DEF Delete, Write
      <3>2. Shape'
        BY <1>3, <3>1 DEF Delete, Write, UserOnly, Shape, Copies
      <3>3. QED
        BY <1>3, <2>3, <3>1, <3>2, OutsideStep
           DEF Delete, Write, UserOnly, Live, Holds, Exists
    <2>4. QED
      BY <2>2, <2>3
  <1>4. ASSUME NEW on \in BOOLEAN, SetSleep(on) PROVE IInv'
    <2>1. app \in App
      BY <1>4 DEF SetSleep, Shape, Copies
    <2>2. /\ app' \in App /\ app'.spec = [app.spec EXCEPT !.sleep = on]
          /\ app'.fin = app.fin /\ app'.deleting = app.deleting
      BY <1>4, <2>1, AppTypes DEF SetSleep, Write
    <2>3. TargetEnvs(app'.spec) = TargetEnvs(app.spec)
      BY <2>1, <2>2, SpecTypes, SleepKeepsEnvs
    <2>4. Shape'
      BY <1>4, <2>2 DEF SetSleep, Write, UserOnly, Shape, Copies
    <2>5. QED
      BY <1>4, <2>2, <2>3, <2>4, OutsideStep
         DEF SetSleep, Write, UserOnly, Live, Holds, Exists
  <1>5. ASSUME NEW e \in Envs, WriteSecret(e) PROVE IInv'
    <2>1. Shape'
      BY <1>5 DEF WriteSecret, Shape
    <2>2. QED
      BY <1>5, <2>1, OutsideStep DEF WriteSecret, Holds, Live, Exists
  <1>6. QED
    BY <1>1, <1>2, <1>3, <1>4, <1>5 DEF User

\* Pods, autoscaler and the cache of Deployments.
LEMMA ClusterStep ==
    ASSUME IInv, Cluster \/ \E e \in Envs : WatchDeployment(e)
    PROVE  IInv'
  <1> USE DEF IInv
  <1>1. ASSUME NEW e \in Envs, NEW state \in PodStates, PodsTurn(e, state) PROVE IInv'
    <2>1. Shape'
      BY <1>1 DEF PodsTurn, Shape
    <2>2. QED
      BY <1>1, <2>1, OutsideStep DEF PodsTurn, Holds, Live, Exists
  <1>2. ASSUME NEW e \in Envs, WatchDeployment(e) PROVE IInv'
    <2>1. Shape'
      BY <1>2 DEF WatchDeployment, Shape
    <2>2. QED
      BY <1>2, <2>1, OutsideStep DEF WatchDeployment, Holds, Live, Exists
  <1>3. ASSUME NEW e \in Envs, Autoscale(e) PROVE IInv'
    <2>1. PICK n : objs' = [objs EXCEPT ![e].deployment.replicas = n]
      BY <1>3 DEF Autoscale
    <2>2. "deployment" \in Kinds
      BY DEF Kinds, Nothing
    <2>3. /\ DOMAIN objs' = Envs
          /\ \A f \in Envs : DOMAIN objs'[f] = Kinds
          /\ \A f \in Envs, kind \in Kinds :
                f # e \/ kind # "deployment" => objs'[f][kind] = objs[f][kind]
      BY <2>1, <2>2 DEF Shape
    <2>4. Shape'
      BY <1>3, <2>3 DEF Autoscale, Shape
    <2>5. Cleaned \subseteq Kinds
      BY DEF Cleaned, CleanOrder, Kinds, Nothing
    <2>6. \A f \in Envs, kind \in Cleaned : Exists(f, kind)' => Exists(f, kind)
      <3> TAKE f \in Envs, kind \in Cleaned
      <3>1. CASE f = e /\ kind = "deployment"
        BY <1>3, <3>1 DEF Autoscale, Running, Exists, Nothing
      <3>2. CASE f # e \/ kind # "deployment"
        BY <1>3, <2>3, <2>5, <3>2 DEF Autoscale, Exists
      <3>3. QED
        BY <3>1, <3>2
    <2>7. QED
      BY <1>3, <2>4, <2>6, OutsideStep DEF Autoscale, Holds, Live
  <1>4. QED
    BY <1>1, <1>2, <1>3 DEF Cluster

\* The cache of the app catches up, or the operator restarts with the resource in it.
LEMMA CacheStep == ASSUME IInv, Watch \/ Crash PROVE IInv'
  <1> USE DEF IInv
  <1>1. Shape'
    BY ObjectsAssumption DEF Watch, Crash, Shape, Ops, Idle, Pcs, Copies
  <1>2. cache' = app /\ UNCHANGED <<app, objs, strays, blind>>
    BY DEF Watch, Crash, OperatorOnly
  <1>3. Copied'
    BY <1>2 DEF Watch, Crash, Copied, Idle
  <1>4. Based'
    BY <1>2 DEF Watch, Crash, Based, Copied, Idle, Same
  <1>5. CacheHolds'
    BY <1>2 DEF CacheHolds, Live, Holds
  <1>6. SyncHolds'
    BY <1>2 DEF Watch, Crash, SyncHolds, Holds, Idle
  <1>7. CacheCovers'
    BY <1>2 DEF CacheCovers, Owned, Exists
  <1>8. Ahead'
    BY <1>2 DEF Watch, Crash, Ahead, Idle, Exists
  <1>9. Owned'
    BY <1>2 DEF Owned
  <1>10. QED
    BY <1>1, <1>3, <1>4, <1>5, <1>6, <1>7, <1>8, <1>9

-----------------------------------------------------------------------------
(* The operator *)

\* What the operator starts with is what its copy shows.
LEMMA StartStep == ASSUME IInv, OpGet PROVE IInv'
  <1> USE DEF IInv
  <1>1. /\ UNCHANGED <<app, cache, objs, strays, blind>>
        /\ cache \in App
    BY DEF OpGet, OperatorOnly, Shape, Copies
  <1>2. /\ op'.base = cache /\ op'.env = None /\ op'.step = 1
        /\ op'.left = TargetEnvs(cache.spec)
        /\ op'.pc \in {"unmark", "cleanup", "mark", "sync"}
        /\ op'.pc \in {"unmark", "cleanup"} => cache.deleting /\ cache.fin
        /\ op'.pc \in {"mark", "sync"} => ~cache.deleting
        /\ op'.pc = "sync" => cache.fin
        /\ op'.pc = "unmark" => op'.left = {}
    BY DEF OpGet, Start
  <1>3. Shape'
    <2>1. op' \in Ops
      BY <1>1, SpecTypes DEF OpGet, Start, Ops, Pcs, Copies
    <2>2. QED
      BY <1>1, <2>1 DEF Shape
  <1>4. Copied'
    BY <1>1, <1>2, NoneIsNoApp DEF OpGet, TakeCopy, Copied, Same
  <1>5. Based'
    BY <1>1, <1>2, NoneIsNoApp DEF Based
  <1>6. CacheHolds'
    BY <1>1 DEF CacheHolds
  <1>7. SyncHolds'
    BY <1>1, <1>2, NoneIsNoApp DEF SyncHolds, CacheHolds, Live
  <1>8. CacheCovers'
    BY <1>1 DEF CacheCovers, Exists
  <1>9. Ahead'
    BY <1>1, <1>2, NoneIsNoApp, ObjectsAssumption
       DEF Ahead, CacheHolds, CacheCovers, Live, Exists
  <1>10. Owned'
    BY <1>1 DEF Owned
  <1>11. QED
    BY <1>3, <1>4, <1>5, <1>6, <1>7, <1>8, <1>9, <1>10

\* A step that ends what the operator does, and writes the resource, if at all, as one
\* that holds on to as much and is as alive, or is marked for the first time.
LEMMA EndStep ==
    ASSUME IInv, Shape',
           UNCHANGED <<cache, strays, blind>>,
           op'.pc \in {"idle", "status"}, op'.base = None, op'.env = None => op'.step = 1,
           \/ current' = {}
           \/ UNCHANGED <<app, current>>,
           \A e \in Envs \ strays : Holds(app, e) => Holds(app', e),
           Live(app') => Live(app) \/ ~(cache # None /\ cache.deleting),
           \A e \in Envs, kind \in Cleaned : Exists(e, kind)' => Exists(e, kind)
    PROVE  IInv'
  <1> USE DEF IInv
  <1>1. Copied'
    BY DEF Copied
  <1>2. Based'
    BY DEF Based
  <1>3. CacheHolds'
    <2>1. Live(cache) => TargetEnvs(cache.spec) \subseteq Envs
      BY SpecTypes DEF Live, Shape, Copies
    <2>2. QED
      BY <2>1 DEF CacheHolds
  <1>4. SyncHolds' /\ Ahead'
    BY DEF SyncHolds, Ahead
  <1>5. CacheCovers'
    BY DEF CacheCovers
  <1>6. Owned'
    BY DEF Owned, Exists, Holds
  <1>7. QED
    BY <1>1, <1>2, <1>3, <1>4, <1>5, <1>6

\* An operator at rest has no copy of the resource.
LEMMA IdleTypes == Idle \in Ops /\ Idle.pc = "idle" /\ Idle.base = None /\ Idle.step = 1
  BY DEF Idle, Ops, Pcs, Copies

\* The finalizer is written, refused or lost.
LEMMA MarkStep == ASSUME IInv, Mark PROVE IInv'
  <1> USE NoneIsNoApp, IdleTypes DEF IInv
  <1>1. /\ op.pc = "mark" /\ op' = Idle
        /\ UNCHANGED <<cache, objs, strays, blind>>
    BY DEF Mark, OperatorOnly
  <1>2. CASE "op" \in current
    <2>1. op.base \in App /\ Same(op.base, app) /\ ~app.deleting
      BY <1>1, <1>2 DEF Shape, Ops, Copies, Copied, Based, Same
    <2>2. /\ app' \in App /\ app'.spec = app.spec /\ app'.fin /\ current' = {}
      BY <1>2, <2>1, AppFields DEF Mark, Write, Same
    <2>3. ~(cache # None /\ cache.deleting)
      BY <1>1, <1>2 DEF Based
    <2>4. Shape'
      BY <1>1, <2>2 DEF Shape, Copies
    <2>5. QED
      BY <1>1, <2>2, <2>3, <2>4, EndStep DEF Holds, Exists
  <1>3. CASE "op" \notin current
    <2>1. UNCHANGED <<app, current>>
      BY <1>3 DEF Mark
    <2>2. Shape'
      BY <1>1, <2>1 DEF Shape
    <2>3. QED
      BY <1>1, <2>1, <2>2, EndStep DEF Exists
  <1>4. QED
    BY <1>2, <1>3

\* A lost write, and the status of a pass that has failed.
LEMMA LostStep == ASSUME IInv, Lost PROVE IInv'
  <1>1. /\ op' = Idle /\ UNCHANGED <<app, cache, current, objs, strays, blind>>
    BY DEF Lost, OperatorOnly
  <1>2. Shape'
    BY <1>1, IdleTypes DEF IInv, Shape
  <1>3. QED
    BY <1>1, <1>2, EndStep, IdleTypes DEF Exists

\* A failed pass writes the phase on the resource the cache shows, or not at all.
LEMMA FailStatusStep == ASSUME IInv, FailStatus PROVE IInv'
  <1> USE NoneIsNoApp, IdleTypes DEF IInv
  <1>1. op' = Idle /\ UNCHANGED <<cache, objs, strays, blind>>
    BY DEF FailStatus, OperatorOnly
  <1>2. CASE UNCHANGED <<app, current>>
    <2>1. Shape'
      BY <1>1, <1>2 DEF Shape
    <2>2. QED
      BY <1>1, <1>2, <2>1, EndStep DEF Exists
  <1>3. CASE "cache" \in current /\ cache # None /\ Write([cache EXCEPT !.phase = "Failed"])
    <2>1. app = cache /\ cache \in App
      BY <1>3 DEF Copied, Shape, Copies
    <2>2. /\ app' \in App /\ app'.spec = app.spec
          /\ app'.fin = app.fin /\ app'.deleting = app.deleting
      BY <1>3, <2>1, AppFields DEF Write, Phases
    <2>3. Shape'
      BY <1>1, <2>2 DEF Shape, Copies
    <2>4. QED
      BY <1>1, <1>3, <2>1, <2>2, <2>3, EndStep DEF Write, Holds, Live, Exists
  <1>4. QED
    BY <1>2, <1>3 DEF FailStatus

\* A status is written on a copy.
LEMMA StatusGetStep == ASSUME IInv, StatusGet PROVE IInv'
  <1> USE NoneIsNoApp, IdleTypes DEF IInv
  <1>1. op.pc = "status" /\ UNCHANGED <<app, cache, objs, strays, blind>>
    BY DEF StatusGet, OperatorOnly
  <1>2. CASE cache = None
    <2>1. op' = Idle /\ UNCHANGED current
      BY <1>2 DEF StatusGet
    <2>2. Shape'
      BY <1>1, <2>1 DEF Shape
    <2>3. QED
      BY <1>1, <2>1, <2>2, EndStep DEF Exists
  <1>3. CASE cache # None
    <2>1. cache \in App
      BY <1>3 DEF Shape, Copies
    <2>2. PhaseOf(cache.spec) \in Phases
      BY DEF PhaseOf, Phases
    <2> DEFINE copy == [cache EXCEPT !.phase = PhaseOf(cache.spec)]
    <2>3. copy \in App /\ Same(copy, cache)
      BY <2>1, <2>2, AppFields DEF Same
    <2>4. op' = [op EXCEPT !.pc = "put", !.base = copy] /\ TakeCopy
      BY <1>3 DEF StatusGet
    <2> HIDE DEF copy
    <2>5. op' \in Ops /\ op'.pc = "put" /\ op'.base = copy /\ op'.env = op.env
          /\ op'.step = op.step
      BY <2>3, <2>4 DEF Shape, Ops, Pcs, Copies
    <2>6. Shape'
      BY <1>1, <2>5 DEF Shape
    <2>7. Copied'
      BY <1>1, <2>3, <2>4, <2>5 DEF Copied, TakeCopy, Same
    <2>8. Based'
      BY <2>3, <2>5 DEF Based
    <2>9. SyncHolds' /\ Ahead'
      BY <2>5 DEF SyncHolds, Ahead
    <2>10. CacheHolds' /\ CacheCovers' /\ Owned'
      BY <1>1 DEF CacheHolds, CacheCovers, Owned, Exists
    <2>11. QED
      BY <2>6, <2>7, <2>8, <2>9, <2>10
  <1>4. QED
    BY <1>2, <1>3

\* The status is written on the version it was read from, or read again.
LEMMA StatusPutStep == ASSUME IInv, StatusPut PROVE IInv'
  <1> USE NoneIsNoApp, IdleTypes DEF IInv
  <1>1. op.pc = "put" /\ UNCHANGED <<cache, objs, strays, blind>>
    BY DEF StatusPut, OperatorOnly
  <1>2. CASE "op" \in current
    <2>1. op' = Idle /\ app' = op.base /\ current' = {}
      BY <1>2 DEF StatusPut, Write
    <2>2. Same(app', app) /\ app' \in Copies
      BY <1>1, <1>2, <2>1 DEF Based, Copied, Shape, Ops
    <2>3. Shape'
      BY <1>1, <2>1, <2>2 DEF Shape
    <2>4. QED
      BY <1>1, <2>1, <2>2, <2>3, EndStep DEF Same, Holds, Live, Exists
  <1>3. CASE "op" \notin current
    <2>1. UNCHANGED <<app, current>>
      BY <1>3 DEF StatusPut
    <2>2. CASE op' = Idle
      <3>1. Shape'
        BY <1>1, <2>1, <2>2 DEF Shape
      <3>2. QED
        BY <1>1, <2>1, <2>2, <3>1, EndStep DEF Exists
    <2>3. CASE op' = [op EXCEPT !.pc = "status", !.base = None]
      <3>1. op' \in Ops /\ op'.pc = "status" /\ op'.base = None /\ op'.env = op.env
            /\ op'.step = op.step
        BY <2>3 DEF Shape, Ops, Pcs, Copies
      <3>2. Shape'
        BY <1>1, <2>1, <3>1 DEF Shape
      <3>3. QED
        BY <1>1, <2>1, <3>1, <3>2, EndStep DEF Exists, Based
    <2>4. QED
      BY <1>3, <2>2, <2>3 DEF StatusPut
  <1>4. QED
    BY <1>2, <1>3

\* The finalizer comes off when nothing is left.
LEMMA UnmarkStep == ASSUME IInv, Unmark PROVE IInv'
  <1> USE NoneIsNoApp, IdleTypes DEF IInv
  <1>1. op.pc = "unmark" /\ op' = Idle /\ UNCHANGED <<cache, objs, strays, blind>>
    BY DEF Unmark, OperatorOnly
  <1>2. CASE "op" \notin current
    <2>1. UNCHANGED <<app, current>>
      BY <1>2 DEF Unmark
    <2>2. Shape'
      BY <1>1, <2>1 DEF Shape
    <2>3. QED
      BY <1>1, <2>1, <2>2, EndStep DEF Exists
  <1>3. CASE "op" \in current
    <2>1. app' = None /\ current' = {}
      BY <1>3 DEF Unmark, Write
    <2>2. Shape'
      BY <1>1, <2>1 DEF Shape, Copies
    <2>3. \A e \in Envs \ strays, kind \in Cleaned : ~Exists(e, kind)
      BY <1>1 DEF Ahead, Based
    <2>4. ~Live(cache)
      BY <1>1 DEF Ahead
    <2>5. Copied' /\ Based' /\ SyncHolds' /\ Ahead'
      BY <1>1, <2>1 DEF Copied, Based, SyncHolds, Ahead
    <2>6. CacheHolds'
      BY <1>1, <2>1, <2>4 DEF CacheHolds, Live
    <2>7. CacheCovers' /\ Owned'
      BY <1>1, <2>3 DEF CacheCovers, Owned, Exists
    <2>8. QED
      BY <2>2, <2>5, <2>6, <2>7
  <1>4. QED
    BY <1>2, <1>3

-----------------------------------------------------------------------------
(* Passes and cleanups *)

\* The kinds of a pass and of a cleanup.
LEMMA Orders ==
    /\ Len(SyncOrder) = 10 /\ Len(CleanOrder) = 6
    /\ \A i \in 1 .. 10 : SyncOrder[i] \in Kinds
    /\ \A i \in 1 .. 6 : CleanOrder[i] \in Cleaned
    /\ \A kind \in Cleaned : \E i \in 1 .. 6 : kind = CleanOrder[i]
    /\ Cleaned \subseteq Kinds
  <1>1. Len(SyncOrder) = 10 /\ Len(CleanOrder) = 6 /\ DOMAIN CleanOrder = 1 .. 6
    BY DEF SyncOrder, CleanOrder
  <1>2. \A i \in 1 .. 10 : SyncOrder[i] \in Kinds
    BY DEF SyncOrder, Kinds, Nothing
  <1>3. \A i \in 1 .. 6 : CleanOrder[i] \in Kinds
    BY DEF CleanOrder, Kinds, Nothing
  <1>4. Cleaned = {CleanOrder[i] : i \in 1 .. 6}
    BY <1>1 DEF Cleaned
  <1>5. QED
    BY <1>1, <1>2, <1>3, <1>4

\* One object is another one.
LEMMA PutObject ==
    ASSUME Shape, NEW e \in Envs, NEW k \in Kinds, NEW v, objs' = [objs EXCEPT ![e][k] = v]
    PROVE  /\ DOMAIN objs' = Envs
           /\ \A f \in Envs : DOMAIN objs'[f] = Kinds
           /\ objs'[e][k] = v
           /\ \A f \in Envs, kind \in Kinds :
                 f # e \/ kind # k => objs'[f][kind] = objs[f][kind]
  BY DEF Shape

\* The next object, or the next environment.
LEMMA Advances ==
    ASSUME op \in Ops, NEW e \in Envs, NEW order, NEW next \in Pcs, e \in op.left,
           NEW n \in 1 .. 10, Len(order) = n, Advance(e, order, next)
    PROVE  /\ op' \in Ops /\ op'.base = op.base
           /\ \/ /\ op.step < n /\ op'.pc = op.pc /\ op'.left = op.left
                 /\ op'.env = e /\ op'.step = op.step + 1
              \/ /\ op.step >= n /\ op'.left = op.left \ {e}
                 /\ op'.env = None /\ op'.step = 1
                 /\ \/ op.left = {e} /\ op'.pc = next
                    \/ op.left # {e} /\ op'.pc = op.pc
  <1>1. op.step \in 1 .. 10 /\ op.left \subseteq Envs /\ op.pc \in Pcs
    BY DEF Ops
  <1>2. CASE op.step < n
    <2>1. op' = [op EXCEPT !.env = e, !.step = op.step + 1]
      BY <1>2 DEF Advance
    <2>2. op.step + 1 \in 1 .. 10
      BY <1>1, <1>2
    <2>3. QED
      BY <1>2, <2>1, <2>2 DEF Ops
  <1>3. CASE ~(op.step < n)
    <2> DEFINE pc == IF op.left = {e} THEN next ELSE op.pc
    <2>1. op' = [op EXCEPT !.env = None, !.step = 1, !.left = op.left \ {e}, !.pc = pc]
      BY <1>3 DEF Advance
    <2>2. pc \in Pcs /\ (op.left = {e} => pc = next) /\ (op.left # {e} => pc = op.pc)
      BY <1>1
    <2>3. op.step >= n
      BY <1>1, <1>3
    <2>4. op.left \ {e} \in SUBSET Envs /\ 1 \in 1 .. 10
      BY <1>1
    <2> HIDE DEF pc
    <2>5. QED
      BY <2>1, <2>2, <2>3, <2>4 DEF Ops
  <1>4. QED
    BY <1>2, <1>3

\* Or the end of the pass.
LEMMA Fails ==
    ASSUME op \in Ops, Fail
    PROVE  /\ op' \in Ops /\ op'.base = op.base /\ op'.left = {}
           /\ op'.pc = "fail" /\ op'.step = 1
  <1>1. op' = [op EXCEPT !.pc = "fail", !.env = None, !.step = 1, !.left = {}]
    BY DEF Fail
  <1>2. "fail" \in Pcs
    BY DEF Pcs
  <1>3. {} \in SUBSET Envs /\ None \in Envs \cup {None} /\ 1 \in 1 .. 10
    OBVIOUS
  <1>4. op' = [pc |-> "fail", base |-> op.base, left |-> {}, env |-> None, step |-> 1]
    BY <1>1 DEF Ops
  <1>5. op.base \in Copies
    BY DEF Ops
  <1>6. QED
    BY <1>2, <1>3, <1>4, <1>5 DEF Ops

\* Any step of a pass that changes no more than the objects of its environment.
LEMMA PassStep ==
    ASSUME IInv, NEW e \in Envs, At("sync", e),
           UNCHANGED <<app, cache, current, strays, blind>>,
           Advance(e, SyncOrder, "status") \/ Fail,
           DOMAIN objs' = Envs, \A f \in Envs : DOMAIN objs'[f] = Kinds,
           \A f \in Envs, kind \in Cleaned : Exists(f, kind)' => Exists(f, kind) \/ f = e
    PROVE  IInv'
  <1> USE DEF IInv
  <1>1. op.pc = "sync" /\ e \in op.left
    BY DEF At
  <1>2. /\ op' \in Ops /\ op'.base = op.base /\ op'.left \subseteq op.left
        /\ op'.pc \in {"sync", "status", "fail"} /\ (op'.env = None => op'.step = 1)
    <2>1. CASE Fail
      BY <2>1, Fails DEF Shape
    <2>2. CASE Advance(e, SyncOrder, "status")
      <3>1. op \in Ops /\ "status" \in Pcs /\ Len(SyncOrder) = 10 /\ 10 \in 1 .. 10
        BY Orders DEF Shape, Pcs
      <3>2. QED
        BY <1>1, <2>2, <3>1, Advances, ObjectsAssumption
    <2>3. QED
      BY <2>1, <2>2
  <1>3. Shape'
    BY <1>2 DEF Shape
  <1>4. Copied'
    BY <1>2 DEF Copied
  <1>5. Based'
    BY <1>1, <1>2 DEF Based
  <1>6. CacheHolds'
    BY DEF CacheHolds
  <1>7. SyncHolds'
    BY <1>1, <1>2 DEF SyncHolds
  <1>8. CacheCovers'
    BY <1>1 DEF CacheCovers, SyncHolds
  <1>9. Ahead'
    BY <1>2 DEF Ahead
  <1>10. Owned'
    BY <1>1 DEF Owned, Exists, SyncHolds, Holds
  <1>11. QED
    BY <1>3, <1>4, <1>5, <1>6, <1>7, <1>8, <1>9, <1>10

\* The steps of a pass, the failing ones included.
LEMMA SyncStep ==
    ASSUME IInv, NEW e \in Envs,
           Sync(e) \/ SyncShrug(e) \/ SyncFail(e) \/ DeployNothing(e) \/ Deploy(e) \/ DeployFail(e)
    PROVE  IInv'
  <1> USE DEF IInv
  <1>1. /\ At("sync", e) /\ UNCHANGED <<app, cache, current, strays, blind>>
        /\ Advance(e, SyncOrder, "status") \/ Fail
    BY DEF Sync, SyncShrug, SyncFail, DeployNothing, Deploy, DeployFail, OperatorOnly
  <1>2. SyncKind \in Kinds
    BY Orders DEF SyncKind, Shape, Ops
  <1>3. "deployment" \in Kinds
    BY DEF Kinds, Nothing
  <1>4. objs' = objs \/ \E k \in Kinds : \E v : objs' = [objs EXCEPT ![e][k] = v]
    BY <1>2, <1>3 DEF Sync, SyncShrug, SyncFail, DeployNothing, Deploy, DeployFail
  <1>5. /\ DOMAIN objs' = Envs /\ \A f \in Envs : DOMAIN objs'[f] = Kinds
        /\ \A f \in Envs, kind \in Kinds : f # e => objs'[f][kind] = objs[f][kind]
    <2>1. CASE objs' = objs
      BY <2>1 DEF Shape
    <2>2. ASSUME NEW k \in Kinds, NEW v, objs' = [objs EXCEPT ![e][k] = v]
          PROVE  /\ DOMAIN objs' = Envs /\ \A f \in Envs : DOMAIN objs'[f] = Kinds
                 /\ \A f \in Envs, kind \in Kinds : f # e => objs'[f][kind] = objs[f][kind]
      BY <2>2, PutObject
    <2>3. QED
      BY <1>4, <2>1, <2>2
  <1>6. \A f \in Envs, kind \in Cleaned : Exists(f, kind)' => Exists(f, kind) \/ f = e
    BY <1>1, <1>5, Orders DEF Exists
  <1>7. QED
    BY <1>1, <1>5, <1>6, PassStep

\* A step of a cleanup that leaves nothing of its kind, or nothing it has not overlooked.
LEMMA CleanupStep ==
    ASSUME IInv, NEW e \in Envs, At("cleanup", e),
           UNCHANGED <<app, cache, current, strays>>,
           Advance(e, CleanOrder, "unmark"),
           DOMAIN objs' = Envs, \A f \in Envs : DOMAIN objs'[f] = Kinds,
           \A f \in Envs, kind \in Cleaned :
              Exists(f, kind)' => Exists(f, kind) /\ ~(f = e /\ kind = CleanKind)
    PROVE  IInv'
  <1> USE DEF IInv
  <1>1. /\ op.pc = "cleanup" /\ e \in op.left /\ op \in Ops /\ op.step \in 1 .. 6
        /\ op.env # None => op.env = e
        /\ op.env = None => op.step = 1
    BY DEF At, Based, Shape
  <1>2. /\ op' \in Ops /\ op'.base = op.base
        /\ \/ /\ op.step < 6 /\ op'.pc = "cleanup" /\ op'.left = op.left
              /\ op'.env = e /\ op'.step = op.step + 1
           \/ /\ op.step = 6 /\ op'.left = op.left \ {e}
              /\ op'.env = None /\ op'.step = 1
              /\ op'.pc = "cleanup" \/ (op'.pc = "unmark" /\ op'.left = {})
    <2>1. "unmark" \in Pcs /\ Len(CleanOrder) = 6 /\ 6 \in 1 .. 10
      BY Orders DEF Pcs
    <2>2. QED
      BY <1>1, <2>1, Advances
  <1>3. Shape'
    BY <1>2 DEF Shape
  <1>4. Copied'
    BY <1>2 DEF Copied
  <1>5. Based'
    BY <1>1, <1>2, ObjectsAssumption DEF Based
  <1>6. CacheHolds' /\ CacheCovers'
    BY DEF CacheHolds, CacheCovers
  <1>7. SyncHolds'
    BY <1>2 DEF SyncHolds
  <1>8. Ahead'
    <2>1. ~Live(app') /\ ~Live(cache')
      BY <1>1 DEF Ahead
    <2>2. ASSUME NEW f \in Envs \ strays, NEW kind \in Cleaned, Exists(f, kind)'
          PROVE  f \in op'.left /\ (f = op'.env => \E i \in op'.step .. 6 : CleanOrder[i] = kind)
      <3>1. /\ Exists(f, kind) /\ ~(f = e /\ kind = CleanKind)
            /\ f \in op.left
            /\ f = op.env => \E i \in op.step .. 6 : CleanOrder[i] = kind
        BY <1>1, <2>2 DEF Ahead
      <3>2. f = e => \E i \in op.step + 1 .. 6 : CleanOrder[i] = kind
        <4>1. f = e => \E i \in op.step .. 6 : CleanOrder[i] = kind
          BY <1>1, <3>1, Orders
        <4>2. QED
          BY <1>1, <3>1, <4>1 DEF CleanKind
      <3>3. CASE op.step < 6
        BY <1>2, <3>1, <3>2, <3>3
      <3>4. CASE op.step = 6
        BY <1>2, <3>1, <3>2, <3>4, ObjectsAssumption
      <3>5. QED
        BY <1>1, <3>3, <3>4
    <2>3. QED
      BY <2>1, <2>2 DEF Ahead
  <1>9. Owned'
    BY DEF Owned, Exists
  <1>10. QED
    BY <1>3, <1>4, <1>5, <1>6, <1>7, <1>8, <1>9

\* The steps of a cleanup, the failing ones included.
LEMMA CleanStep ==
    ASSUME IInv, NEW e \in Envs, Clean(e) \/ CleanBlind(e) \/ CleanFail(e)
    PROVE  IInv'
  <1> USE DEF IInv
  <1>1. /\ At("cleanup", e) /\ op.pc = "cleanup"
        /\ UNCHANGED <<app, cache, current, strays>>
    BY DEF Clean, CleanBlind, CleanFail, OperatorOnly, At
  <1>2. CleanKind \in Cleaned /\ CleanKind \in Kinds
    BY <1>1, Orders DEF CleanKind, Based
  <1>3. \A v : objs' = [objs EXCEPT ![e][CleanKind] = v] =>
            /\ DOMAIN objs' = Envs
            /\ \A f \in Envs : DOMAIN objs'[f] = Kinds
            /\ objs'[e][CleanKind] = v
            /\ \A f \in Envs, kind \in Kinds :
                  f # e \/ kind # CleanKind => objs'[f][kind] = objs[f][kind]
    BY <1>2 DEF Shape
  <1>4. CASE Clean(e)
    <2>1. /\ objs' = [objs EXCEPT ![e][CleanKind] = Nothing[CleanKind]]
          /\ Advance(e, CleanOrder, "unmark") /\ blind' = blind
      BY <1>4 DEF Clean
    <2>2. /\ DOMAIN objs' = Envs
          /\ \A f \in Envs : DOMAIN objs'[f] = Kinds
          /\ objs'[e][CleanKind] = Nothing[CleanKind]
          /\ \A f \in Envs, kind \in Kinds :
                f # e \/ kind # CleanKind => objs'[f][kind] = objs[f][kind]
      BY <1>3, <2>1
    <2>3. \A f \in Envs, kind \in Cleaned :
             Exists(f, kind)' => Exists(f, kind) /\ ~(f = e /\ kind = CleanKind)
      BY <2>1, <2>2, Orders DEF Exists
    <2>4. QED
      BY <1>1, <2>1, <2>2, <2>3, CleanupStep
  <1>5. CASE CleanBlind(e)
    <2>1. /\ CleanKind = "crons" /\ blind' = blind \cup {e} /\ objs' = objs
          /\ Advance(e, CleanOrder, "unmark")
      BY <1>5 DEF CleanBlind
    <2>2. \A f \in Envs, kind \in Cleaned :
             Exists(f, kind)' => Exists(f, kind) /\ ~(f = e /\ kind = CleanKind)
      BY <2>1 DEF Exists
    <2>3. DOMAIN objs' = Envs /\ \A f \in Envs : DOMAIN objs'[f] = Kinds
      BY <2>1 DEF Shape
    <2>4. QED
      BY <1>1, <2>1, <2>2, <2>3, CleanupStep
  <1>6. CASE CleanFail(e)
    <2>1. PICK left \in {objs[e][CleanKind], Nothing[CleanKind]} \cup
                        IF CleanKind = "crons" THEN SUBSET objs[e].crons ELSE {} :
             objs' = [objs EXCEPT ![e][CleanKind] = left]
      BY <1>6 DEF CleanFail
    <2>2. op' = Idle /\ blind' = blind
      BY <1>6 DEF CleanFail
    <2>3. left # Nothing[CleanKind] => objs[e][CleanKind] # Nothing[CleanKind]
      <3>1. CASE CleanKind = "crons"
        BY <2>1, <3>1 DEF Nothing
      <3>2. CASE CleanKind # "crons"
        BY <2>1, <3>2
      <3>3. QED
        BY <3>1, <3>2
    <2>4. /\ DOMAIN objs' = Envs
          /\ \A f \in Envs : DOMAIN objs'[f] = Kinds
          /\ objs'[e][CleanKind] = left
          /\ \A f \in Envs, kind \in Kinds :
                f # e \/ kind # CleanKind => objs'[f][kind] = objs[f][kind]
      BY <1>3, <2>1
    <2>5. \A f \in Envs, kind \in Cleaned : Exists(f, kind)' => Exists(f, kind)
      BY <2>2, <2>3, <2>4, Orders DEF Exists
    <2>6. Shape'
      BY <1>1, <2>2, <2>4, IdleTypes DEF Shape
    <2>7. QED
      BY <1>1, <2>2, <2>5, <2>6, EndStep, IdleTypes
  <1>7. QED
    BY <1>4, <1>5, <1>6

\* A step in which nothing happens.
LEMMA StutterStep == ASSUME IInv, UNCHANGED vars PROVE IInv'
  <1> USE DEF IInv, vars
  <1>1. Shape'
    BY DEF Shape
  <1>2. QED
    BY <1>1, OutsideStep DEF Exists

\* No step of anybody breaks the invariant.
LEMMA StepInv == IInv /\ [Next]_vars => IInv'
  <1> SUFFICES ASSUME IInv, [Next]_vars PROVE IInv'
    OBVIOUS
  <1>1. CASE User
    BY <1>1, UserStep
  <1>2. CASE Cluster \/ \E e \in Envs : WatchDeployment(e)
    BY <1>2, ClusterStep
  <1>3. CASE Watch
    BY <1>3, CacheStep
  <1>4. CASE Operate
    BY <1>4, SyncStep, CleanStep, StartStep, MarkStep, StatusGetStep, StatusPutStep,
       UnmarkStep, FailStatusStep DEF Operate
  <1>5. CASE Trouble
    BY <1>5, LostStep, CacheStep, SyncStep, CleanStep DEF Trouble
  <1>6. CASE UNCHANGED vars
    BY <1>6, StutterStep
  <1>7. QED
    BY <1>1, <1>2, <1>3, <1>4, <1>5, <1>6 DEF Next

\* However the operator is interrupted, and however old its copies are, what cleanupApp
\* deletes exists only under an app that holds the finalizer and names the environment:
\* reconciles never resurrect an app that is being deleted, and the finalizer comes off
\* only when the cleanup has left nothing.
THEOREM CleanedUp == Spec => []Owned
  <1>1. Init => IInv
    BY InitInv
  <1>2. IInv /\ [Next]_vars => IInv'
    BY StepInv
  <1>3. IInv => Owned
    BY DEF IInv
  <1>4. QED
    BY <1>1, <1>2, <1>3, PTL DEF Spec

-----------------------------------------------------------------------------
(* Types of the cluster *)

\* The state around the control state, its secrets counted and its certificates kept.
World ==
    /\ current \subseteq {"cache", "op"}
    /\ objs \in [Envs -> Objects]
    /\ seen \in [Envs -> Deployment \cup {None}]
    /\ pods \in [Envs -> PodStates]
    /\ data \in [Envs -> Nat] /\ \A e \in Envs : data[e] <= events
    /\ strays \subseteq Envs /\ blind \subseteq Envs
    /\ events \in 0 .. MaxEvents

\* A pass goes over environments of its copy.
InTargets == op.pc = "sync" => op.left \subseteq TargetEnvs(op.base.spec)

\* A target is what the spec says of its environment.
LEMMA TargetIs ==
    ASSUME IInv, InTargets, NEW e \in op.left, op.pc = "sync"
    PROVE  /\ op.base.spec \in AppSpec /\ Target(e) \in EnvConfig
           /\ \A c \in op.base.spec.crons : c \in Cron
           /\ op.base.spec.claims \in SUBSET Claims
  <1>1. op.base \in App
    BY DEF IInv, Based, Shape, Ops, Copies
  <1>2. op.base.spec \in AppSpec
    BY <1>1, SpecTypes
  <1>3. PICK t \in Targets(op.base.spec) : t.name = e
    BY DEF InTargets, TargetEnvs
  <1>4. Target(e) \in Targets(op.base.spec)
    BY <1>3 DEF Target
  <1>5. Target(e) \in EnvConfig
    BY <1>2, <1>4, TargetTypes
  <1>6. QED
    BY <1>2, <1>5 DEF AppSpec

\* The operator's steps keep to the environments of the copy.
LEMMA InTargetsStep ==
    ASSUME IInv, IInv', World, InTargets, [Next]_vars
    PROVE  InTargets'
  <1> USE DEF InTargets
  <1>1. ASSUME op' = op PROVE InTargets'
    BY <1>1
  <1>2. ASSUME NEW pc, NEW base, Start(pc, base) PROVE InTargets'
    BY <1>2 DEF Start
  <1>3. ASSUME Fail \/ op' = Idle PROVE InTargets'
    BY <1>3, Fails DEF Fail, Idle, IInv, Shape
  <1>4. ASSUME NEW e \in Envs, At("sync", e), Advance(e, SyncOrder, "status") PROVE InTargets'
    <2>1. op \in Ops /\ "status" \in Pcs /\ Len(SyncOrder) = 10 /\ 10 \in 1 .. 10 /\ e \in op.left
      BY <1>4, Orders DEF IInv, Shape, Pcs, At
    <2>2. op'.base = op.base /\ op'.left \subseteq op.left /\ op'.pc \in {"sync", "status"}
      BY <1>4, <2>1, Advances DEF At
    <2>3. QED
      BY <1>4, <2>2 DEF At
  <1>5. ASSUME NEW e \in Envs, At("cleanup", e), Advance(e, CleanOrder, "unmark")
        PROVE  InTargets'
    <2>1. op \in Ops /\ "unmark" \in Pcs /\ Len(CleanOrder) = 6 /\ 6 \in 1 .. 10 /\ e \in op.left
      BY <1>5, Orders DEF IInv, Shape, Pcs, At
    <2>2. op'.pc \in {"cleanup", "unmark"}
      BY <1>5, <2>1, Advances DEF At
    <2>3. QED
      BY <2>2
  <1>6. CASE User \/ Cluster \/ Watch \/ \E e \in Envs : WatchDeployment(e)
    BY <1>1, <1>6 DEF User, Create, EditSpec, Delete, SetSleep, WriteSecret, UserOnly,
       Cluster, Autoscale, PodsTurn, Watch, WatchDeployment
  <1>7. CASE Trouble
    BY <1>3, <1>4, <1>5, <1>7 DEF Trouble, Lost, Crash, SyncShrug, SyncFail, CleanBlind, CleanFail
  <1>8. CASE Operate
    <2>1. CASE \E e \in Envs :
             Sync(e) \/ DeployNothing(e) \/ Deploy(e) \/ DeployFail(e) \/ Clean(e)
      BY <1>3, <1>4, <1>5, <2>1 DEF Sync, DeployNothing, Deploy, DeployFail, Clean
    <2>2. CASE OpGet
      BY <1>2, <2>2 DEF OpGet
    <2>3. CASE Mark \/ Unmark \/ FailStatus
      BY <1>3, <2>3 DEF Mark, Unmark, FailStatus
    <2>4. CASE StatusGet
      <3>1. op' = Idle \/ op'.pc = "put"
        BY <2>4 DEF StatusGet, IInv, Shape, Ops
      <3>2. QED
        BY <3>1, <1>3
    <2>5. CASE StatusPut
      <3>1. op' = Idle \/ op'.pc = "status"
        BY <2>5 DEF StatusPut, IInv, Shape, Ops
      <3>2. QED
        BY <3>1, <1>3
    <2>6. QED
      BY <1>8, <2>1, <2>2, <2>3, <2>4, <2>5 DEF Operate
  <1>9. CASE UNCHANGED vars
    BY <1>1, <1>9 DEF vars
  <1>10. QED
    BY <1>6, <1>7, <1>8, <1>9 DEF Next

-----------------------------------------------------------------------------
(* One object at a time *)

\* An ingress that names an issuer names the generated secret.
Issued(k, v) == k \in {"ingress", "redirect"} /\ v # None /\ v.issuer # None
                   => v.secret = OwnCert

\* A step changes at most one object, to one of its kind.
Puts == \/ objs' = objs
        \/ \E e \in Envs, k \in Kinds : \E v \in Values[k] :
              Issued(k, v) /\ objs' = [objs EXCEPT ![e][k] = v]

\* Such a step keeps the types and the certificates.
LEMMA PutsTypes ==
    ASSUME World, CertsKept, Puts
    PROVE  objs' \in [Envs -> Objects] /\ CertsKept'
  <1>1. CASE objs' = objs
    BY <1>1 DEF World, CertsKept
  <1>2. ASSUME NEW e \in Envs, NEW k \in Kinds, NEW v \in Values[k], Issued(k, v),
               objs' = [objs EXCEPT ![e][k] = v]
        PROVE  objs' \in [Envs -> Objects] /\ CertsKept'
    <2>1. objs \in [Envs -> Objects] /\ objs[e] \in Objects
      BY DEF World
    <2> DEFINE new == [objs[e] EXCEPT ![k] = v]
    <2>2. new \in Objects /\ new[k] = v /\ \A l \in Kinds \ {k} : new[l] = objs[e][l]
      <3> DEFINE o == objs[e]
      <3>1. k \in DOMAIN Nothing /\ o \in Objects
        BY <2>1 DEF Kinds
      <3> HIDE DEF o
      <3>2. [o EXCEPT ![k] = v] \in Objects
        BY <3>1, PutTypes
      <3>3. /\ [o EXCEPT ![k] = v][k] = v
            /\ \A l \in DOMAIN Nothing \ {k} : [o EXCEPT ![k] = v][l] = o[l]
        BY <3>1, PutTypes
      <3>4. QED
        BY <3>2, <3>3 DEF o, Kinds
    <2>3. objs' = [objs EXCEPT ![e] = new]
      BY <1>2, <2>1
    <2> HIDE DEF new
    <2>4. objs' \in [Envs -> Objects] /\ objs'[e] = new
             /\ \A f \in Envs \ {e} : objs'[f] = objs[f]
      BY <2>1, <2>2, <2>3
    <2>5. \A f \in Envs, l \in {"ingress", "redirect"} : Issued(l, objs[f][l])
      BY DEF CertsKept, Issued
    <2>6. {"ingress", "redirect"} \subseteq Kinds
      BY DEF Kinds, Nothing
    <2>7. \A f \in Envs, l \in {"ingress", "redirect"} : Issued(l, objs'[f][l])
      <3> TAKE f \in Envs, l \in {"ingress", "redirect"}
      <3>1. CASE f = e /\ l = k
        BY <1>2, <2>2, <2>4, <3>1
      <3>2. CASE f # e \/ l # k
        <4>1. objs'[f][l] = objs[f][l]
          BY <2>2, <2>4, <2>6, <3>2
        <4>2. QED
          BY <2>5, <4>1
      <3>3. QED
        BY <3>1, <3>2
    <2>8. CertsKept'
      BY <2>7 DEF CertsKept, Issued
    <2>9. QED
      BY <2>4, <2>8
  <1>3. QED
    BY <1>1, <1>2 DEF Puts

\* What a pass wants is of its kind, and issued as it should be.
LEMMA WantedTypes ==
    ASSUME IInv, World, InTargets, CertsKept, NEW e \in Envs, e \in op.left, op.pc = "sync",
           SyncKind \in Kinds
    PROVE  Wanted(e) \in Values[SyncKind] /\ Issued(SyncKind, Wanted(e))
  <1> DEFINE spec == op.base.spec
             t    == Target(e)
             o    == objs[e]
             k    == SyncKind
  <1>1. spec \in AppSpec /\ t \in EnvConfig
    BY TargetIs
  <1>2. o \in Objects /\ data[e] \in Nat
    BY DEF World
  <1>3. Wanted(e) = Want(k, spec, t, op.base.phase, data[e], o)
    BY DEF Wanted
  <1>4. Issued("ingress", o.ingress) /\ Issued("redirect", o.redirect)
    BY DEF CertsKept, Issued
  <1> HIDE DEF spec, t, o, k
  <1>5. k \in DOMAIN Nothing
    BY DEF Kinds, k
  <1>6. Wanted(e) \in Values[k]
    BY <1>1, <1>2, <1>3, <1>5, WantTypes
  <1>7. CASE k = "ingress"
    <2>1. Wanted(e) = WantIngress(spec, t, o.ingress)
      BY <1>3, <1>7 DEF Want
    <2>2. Issued("ingress", Wanted(e))
      BY <1>1, <1>4, <2>1, CertTypes DEF WantIngress, Issued
    <2>3. QED
      BY <1>6, <1>7, <2>2 DEF k
  <1>8. CASE k = "redirect"
    <2>1. Wanted(e) = WantRedirect(spec, t, o.redirect)
      BY <1>3, <1>8 DEF Want
    <2>2. Issued("redirect", Wanted(e))
      BY <1>1, <1>4, <2>1, CertTypes DEF WantRedirect, Issued
    <2>3. QED
      BY <1>6, <1>8, <2>2 DEF k
  <1>9. CASE k \notin {"ingress", "redirect"}
    BY <1>6, <1>9 DEF Issued, k
  <1>10. QED
    BY <1>7, <1>8, <1>9

\* So is what a failed call leaves.
LEMMA LeftoverTypes ==
    ASSUME IInv, World, InTargets, CertsKept, NEW e \in Envs, e \in op.left, op.pc = "sync",
           SyncKind \in Kinds, NEW v \in Leftovers(e)
    PROVE  v \in Values[SyncKind] /\ Issued(SyncKind, v)
  <1> DEFINE spec == op.base.spec
             t    == Target(e)
             o    == objs[e]
             k    == SyncKind
  <1>1. spec \in AppSpec /\ t \in EnvConfig /\ spec.claims \in SUBSET Claims
    BY TargetIs
  <1>2. o \in Objects /\ o[k] \in Values[k]
    BY PutTypes DEF World, Kinds
  <1>3. Wanted(e) \in Values[k] /\ Issued(k, Wanted(e))
    BY WantedTypes
  <1>4. Issued(k, o[k])
    BY DEF CertsKept, Issued
  <1>5. \/ v \in {o[k], Wanted(e)}
        \/ k = "claims" /\ \E some \in SUBSET spec.claims : v = o[k] \cup some
        \/ k = "crons" /\ \E done \in SUBSET spec.crons : v = MergeCrons(spec, t, done, o[k])
    <2>1. CASE k = "claims"
      BY <2>1 DEF Leftovers
    <2>2. CASE k = "crons"
      BY <2>2 DEF Leftovers
    <2>3. CASE k \notin {"claims", "crons"}
      BY <2>3 DEF Leftovers
    <2>4. QED
      BY <2>1, <2>2, <2>3
  <1> HIDE DEF spec, t, o, k
  <1>6. CASE v \in {o[k], Wanted(e)}
    BY <1>2, <1>3, <1>4, <1>6 DEF k
  <1>7. CASE k = "claims" /\ \E some \in SUBSET spec.claims : v = o[k] \cup some
    <2>1. Values[k] = SUBSET Claims
      BY <1>7 DEF Values
    <2>2. QED
      BY <1>1, <1>2, <1>7, <2>1 DEF k, Issued
  <1>8. CASE k = "crons" /\ \E done \in SUBSET spec.crons : v = MergeCrons(spec, t, done, o[k])
    <2>1. Values[k] = CronJobs
      BY <1>8 DEF Values
    <2>2. v \in CronJobs
      BY <1>1, <1>2, <1>8, <2>1, CronTypes
    <2>3. QED
      BY <1>8, <2>1, <2>2 DEF k, Issued
  <1>9. QED
    BY <1>5, <1>6, <1>7, <1>8

\* The autoscaler and users change no other object.
LEMMA OutsidePuts ==
    ASSUME IInv, World, User \/ Cluster \/ Watch \/ \E e \in Envs : WatchDeployment(e)
    PROVE  Puts
  <1>1. ASSUME NEW e \in Envs, Autoscale(e) PROVE Puts
    <2>1. PICK n \in objs[e].scaler.min .. objs[e].scaler.max :
             objs' = [objs EXCEPT ![e].deployment.replicas = n]
      BY <1>1 DEF Autoscale
    <2>2. objs[e] \in Objects /\ "scaler" \in Kinds /\ "deployment" \in Kinds
      BY DEF World, Kinds, Nothing
    <2>3. objs[e].scaler \in Scalers /\ objs[e].deployment \in Deployment \cup {None}
      BY <2>2, ObjectsFields
    <2>4. objs[e].scaler \in [min : Nat, max : Nat] /\ objs[e].deployment \in Deployment
      BY <1>1, <2>3 DEF Autoscale, Running, Scalers
    <2>5. n \in Nat
      BY <2>1, <2>4
    <2> DEFINE v == [objs[e].deployment EXCEPT !.replicas = n]
    <2>6. v \in Deployment
      BY <2>4, <2>5 DEF Deployment
    <2>7. objs' = [objs EXCEPT ![e]["deployment"] = v]
      BY <2>1
    <2> HIDE DEF v
    <2>8. v \in Values["deployment"] /\ Issued("deployment", v)
      BY <2>6 DEF Values, Issued
    <2>9. QED
      BY <2>2, <2>7, <2>8 DEF Puts
  <1>2. CASE User \/ Watch \/ \E e \in Envs : WatchDeployment(e)
    BY <1>2 DEF Puts, User, Create, EditSpec, Delete, SetSleep, WriteSecret, UserOnly, Watch,
       WatchDeployment
  <1>3. CASE Cluster
    BY <1>1, <1>3 DEF Cluster, PodsTurn, Puts
  <1>4. QED
    BY <1>2, <1>3

\* The calls of a pass.
LEMMA SyncPuts ==
    ASSUME IInv, World, InTargets, CertsKept, NEW e \in Envs,
           Sync(e) \/ SyncShrug(e) \/ SyncFail(e) \/ DeployNothing(e) \/ Deploy(e) \/ DeployFail(e)
    PROVE  Puts
  <1>1. e \in op.left /\ op.pc = "sync"
    BY DEF Sync, SyncShrug, SyncFail, DeployNothing, Deploy, DeployFail, At
  <1>2. SyncKind \in Kinds
    BY Orders DEF SyncKind, IInv, Shape, Ops
  <1>3. ASSUME Sync(e) PROVE Puts
    <2>1. objs' = [objs EXCEPT ![e][SyncKind] = Wanted(e)]
      BY <1>3 DEF Sync
    <2>2. Wanted(e) \in Values[SyncKind] /\ Issued(SyncKind, Wanted(e))
      BY <1>1, <1>2, WantedTypes
    <2>3. QED
      BY <1>2, <2>1, <2>2 DEF Puts
  <1>4. ASSUME SyncFail(e) PROVE Puts
    <2>1. PICK v \in Leftovers(e) : objs' = [objs EXCEPT ![e][SyncKind] = v]
      BY <1>4 DEF SyncFail
    <2>2. v \in Values[SyncKind] /\ Issued(SyncKind, v)
      BY <1>1, <1>2, LeftoverTypes
    <2>3. QED
      BY <1>2, <2>1, <2>2 DEF Puts
  <1>5. ASSUME Deploy(e) \/ DeployFail(e) PROVE Puts
    <2>1. objs' = objs \/ objs' = [objs EXCEPT ![e]["deployment"] = Edited(e)]
      BY <1>5 DEF Deploy, DeployFail
    <2>2. op.base.spec \in AppSpec /\ Target(e) \in EnvConfig
      BY <1>1, TargetIs
    <2>3. data[e] \in Nat /\ seen[e] \in Deployment \cup {None}
      BY DEF World
    <2>4. Edited(e) \in Deployment
      BY <2>2, <2>3, DeploymentTypes DEF Edited
    <2>5. Edited(e) \in Values["deployment"] /\ Issued("deployment", Edited(e))
      BY <2>4 DEF Values, Issued
    <2>6. "deployment" \in Kinds
      BY DEF Kinds, Nothing
    <2>7. QED
      BY <2>1, <2>5, <2>6 DEF Puts
  <1>6. ASSUME SyncShrug(e) \/ DeployNothing(e) PROVE Puts
    BY <1>6 DEF SyncShrug, DeployNothing, Puts
  <1>7. QED
    BY <1>3, <1>4, <1>5, <1>6

\* Those of a cleanup.
LEMMA CleanPuts ==
    ASSUME IInv, World, CertsKept, NEW e \in Envs, Clean(e) \/ CleanBlind(e) \/ CleanFail(e)
    PROVE  Puts
  <1>1. op.pc = "cleanup" /\ op.step \in 1 .. 6
    BY DEF Clean, CleanBlind, CleanFail, At, IInv, Based
  <1>2. CleanKind \in Kinds
    BY <1>1, Orders DEF CleanKind, Cleaned
  <1>3. objs[e] \in Objects
    BY DEF World
  <1>4. Nothing[CleanKind] \in Values[CleanKind] /\ objs[e][CleanKind] \in Values[CleanKind]
    BY <1>2, <1>3, PutTypes DEF Kinds
  <1>5. CleanKind \in {"account", "deployment", "service", "ingress", "scaler", "crons"}
    BY <1>1 DEF CleanKind, CleanOrder
  <1>6. Issued(CleanKind, Nothing[CleanKind])
    BY <1>5 DEF Issued, Nothing
  <1>7. Issued(CleanKind, objs[e][CleanKind])
    BY <1>5 DEF CertsKept, Issued
  <1>8. ASSUME Clean(e) \/ CleanBlind(e) PROVE Puts
    BY <1>2, <1>4, <1>6, <1>8 DEF Clean, CleanBlind, Puts
  <1>9. ASSUME CleanFail(e) PROVE Puts
    <2> DEFINE some == IF CleanKind = "crons" THEN SUBSET objs[e].crons ELSE {}
    <2>1. PICK v \in {objs[e][CleanKind], Nothing[CleanKind]} \cup some :
             objs' = [objs EXCEPT ![e][CleanKind] = v]
      BY <1>9 DEF CleanFail
    <2>2. CASE v \in {objs[e][CleanKind], Nothing[CleanKind]}
      BY <1>2, <1>4, <1>6, <1>7, <2>1, <2>2 DEF Puts
    <2>3. CASE v \in some
      <3>1. CleanKind = "crons" /\ v \in SUBSET objs[e].crons
        BY <2>3
      <3>2. objs[e].crons \in CronJobs
        BY <1>3, ObjectsFields
      <3>3. v \in CronJobs
        BY <3>1, <3>2 DEF CronJobs
      <3>4. v \in Values[CleanKind] /\ Issued(CleanKind, v)
        BY <3>1, <3>3 DEF Values, Issued
      <3>5. QED
        BY <1>2, <2>1, <3>4 DEF Puts
    <2>4. QED
      BY <2>1, <2>2, <2>3
  <1>10. QED
    BY <1>8, <1>9

\* Every step changes at most one object.
LEMMA PutsStep ==
    ASSUME IInv, World, InTargets, CertsKept, [Next]_vars
    PROVE  Puts
  <1>1. CASE User \/ Cluster \/ Watch \/ \E e \in Envs : WatchDeployment(e)
    BY <1>1, OutsidePuts
  <1>2. CASE Operate
    BY <1>2, SyncPuts, CleanPuts DEF Operate, OpGet, Mark, StatusGet, StatusPut, Unmark,
       FailStatus, Puts
  <1>3. CASE Trouble
    BY <1>3, SyncPuts, CleanPuts DEF Trouble, Lost, Crash, Puts
  <1>4. CASE UNCHANGED vars
    BY <1>4 DEF vars, Puts
  <1>5. QED
    BY <1>1, <1>2, <1>3, <1>4 DEF Next

-----------------------------------------------------------------------------
(* The rest of the state *)

\* Users count their events, the secrets they write and the environments they take out.
LEMMA UserTypes ==
    ASSUME IInv, World, objs' \in [Envs -> Objects], User
    PROVE  World'
  <1> USE ReconcilerAssumption
  <1>1. ASSUME NEW s \in Specs, Create(s) PROVE World'
    BY <1>1 DEF Create, Write, UserOnly, World
  <1>2. ASSUME NEW s \in Specs, EditSpec(s) PROVE World'
    <2>1. TargetEnvs(app.spec) \subseteq Envs
      BY <1>2, SpecTypes DEF EditSpec, IInv, Shape, Copies
    <2>2. QED
      BY <1>2, <2>1 DEF EditSpec, Event, Write, UserOnly, World
  <1>3. ASSUME Delete PROVE World'
    BY <1>3 DEF Delete, Event, Write, UserOnly, World
  <1>4. ASSUME NEW on \in BOOLEAN, SetSleep(on) PROVE World'
    BY <1>4 DEF SetSleep, Event, Write, UserOnly, World
  <1>5. ASSUME NEW e \in Envs, WriteSecret(e) PROVE World'
    <2>1. events' = events + 1 /\ events < MaxEvents /\ events \in Nat
      BY <1>5 DEF WriteSecret, Event, World
    <2>2. data' = [data EXCEPT ![e] = data[e] + 1] /\ data \in [Envs -> Nat]
      BY <1>5 DEF WriteSecret, World
    <2>3. data' \in [Envs -> Nat] /\ \A f \in Envs : data'[f] <= events'
      <3>1. \A f \in Envs : data[f] \in Nat /\ data[f] <= events
        BY DEF World
      <3>2. QED
        BY <2>1, <2>2, <3>1
    <2>4. events' \in 0 .. MaxEvents
      BY <2>1
    <2>5. QED
      BY <1>5, <2>3, <2>4 DEF WriteSecret, World
  <1>6. QED
    BY <1>1, <1>2, <1>3, <1>4, <1>5 DEF User

\* Pods, autoscaler, caches and restarts.
LEMMA ClusterTypes ==
    ASSUME IInv, World, objs' \in [Envs -> Objects],
           Cluster \/ Watch \/ Crash \/ \E e \in Envs : WatchDeployment(e)
    PROVE  World'
  <1> USE ReconcilerAssumption
  <1>1. \A e \in Envs : objs[e].deployment \in Deployment \cup {None}
    BY ObjectsFields DEF World
  <1>2. ASSUME NEW e \in Envs, Autoscale(e) PROVE World'
    BY <1>2 DEF Autoscale, Event, World
  <1>3. ASSUME NEW e \in Envs, NEW state \in PodStates, PodsTurn(e, state) PROVE World'
    BY <1>3 DEF PodsTurn, Event, World
  <1>4. ASSUME Watch PROVE World'
    BY <1>4 DEF Watch, World
  <1>5. ASSUME NEW e \in Envs, WatchDeployment(e) PROVE World'
    <2>1. seen' \in [Envs -> Deployment \cup {None}]
      BY <1>1, <1>5 DEF WatchDeployment, World
    <2>2. QED
      BY <1>5, <2>1 DEF WatchDeployment, World
  <1>6. ASSUME Crash PROVE World'
    <2>1. seen' \in [Envs -> Deployment \cup {None}]
      BY <1>1, <1>6 DEF Crash
    <2>2. QED
      BY <1>6, <2>1 DEF Crash, Event, OperatorOnly, World
  <1>7. QED
    BY <1>2, <1>3, <1>4, <1>5, <1>6 DEF Cluster

\* The operator moves its copies, counts its mishaps and overlooks cron jobs.
LEMMA OperatorTypes ==
    ASSUME World, objs' \in [Envs -> Objects], OperatorOnly, UNCHANGED seen,
           current' \subseteq {"cache", "op"}, UNCHANGED events \/ Event,
           blind' = blind \/ \E e \in Envs : blind' = blind \cup {e}
    PROVE  World'
  BY ReconcilerAssumption DEF World, OperatorOnly, Event

\* Every step keeps the types.
LEMMA WorldStep ==
    ASSUME IInv, World, InTargets, CertsKept, [Next]_vars
    PROVE  World' /\ CertsKept'
  <1>1. objs' \in [Envs -> Objects] /\ CertsKept'
    BY PutsStep, PutsTypes
  <1>2. CASE User
    BY <1>1, <1>2, UserTypes
  <1>3. CASE Cluster \/ Watch \/ Crash \/ \E e \in Envs : WatchDeployment(e)
    BY <1>1, <1>3, ClusterTypes
  <1>4. current \subseteq {"cache", "op"}
    BY DEF World
  <1>5. CASE Operate
    <2>1. OperatorOnly /\ UNCHANGED <<seen, blind>> /\ (UNCHANGED events \/ Event)
      BY <1>5 DEF Operate, Sync, DeployNothing, Deploy, DeployFail, Clean, OpGet, Mark,
         StatusGet, StatusPut, Unmark, FailStatus
    <2>2. current' \subseteq {"cache", "op"}
      BY <1>4, <1>5 DEF Operate, Sync, DeployNothing, Deploy, DeployFail, Clean, OpGet, Mark,
         StatusGet, StatusPut, Unmark, FailStatus, TakeCopy, Write
    <2>3. QED
      BY <1>1, <2>1, <2>2, OperatorTypes
  <1>6. CASE Lost \/ \E e \in Envs : SyncShrug(e) \/ SyncFail(e) \/ CleanBlind(e) \/ CleanFail(e)
    <2>1. /\ OperatorOnly /\ UNCHANGED <<seen, current>> /\ Event
          /\ blind' = blind \/ \E e \in Envs : blind' = blind \cup {e}
      BY <1>6 DEF Lost, SyncShrug, SyncFail, CleanBlind, CleanFail
    <2>2. QED
      BY <1>1, <1>4, <2>1, OperatorTypes
  <1>7. CASE UNCHANGED vars
    BY <1>1, <1>7 DEF vars, World
  <1>8. QED
    BY <1>1, <1>2, <1>3, <1>5, <1>6, <1>7 DEF Next, Trouble

\* The invariant of the types: what the proof of CleanedUp knows of the control state, and
\* the state around it.
TypeInv == IInv /\ World /\ InTargets /\ CertsKept

\* It holds in the beginning, no step breaks it, and it has the types.
LEMMA TypeInvInit == Init => TypeInv
  <1> SUFFICES ASSUME Init PROVE TypeInv
    OBVIOUS
  <1>1. IInv
    BY InitInv
  <1>2. Nothing \in Objects
    BY NothingTypes
  <1>3. World
    <2>1. objs \in [Envs -> Objects]
      BY <1>2 DEF Init
    <2>2. /\ seen \in [Envs -> Deployment \cup {None}]
          /\ pods \in [Envs -> PodStates]
          /\ data \in [Envs -> Nat]
      BY DEF Init, PodStates
    <2>3. \A e \in Envs : data[e] <= events
      BY DEF Init
    <2>4. events \in 0 .. MaxEvents
      BY ReconcilerAssumption DEF Init
    <2>5. current \subseteq {"cache", "op"} /\ strays = {} /\ blind = {}
      BY DEF Init
    <2>6. QED
      BY <2>1, <2>2, <2>3, <2>4, <2>5 DEF World
  <1>4. InTargets
    BY DEF Init, Idle, InTargets
  <1>5. CertsKept
    BY DEF Init, CertsKept, Nothing
  <1>6. QED
    BY <1>1, <1>3, <1>4, <1>5 DEF TypeInv

LEMMA TypeInvStep == TypeInv /\ [Next]_vars => TypeInv'
  <1> SUFFICES ASSUME TypeInv, [Next]_vars PROVE TypeInv'
    OBVIOUS
  <1>1. IInv'
    BY StepInv DEF TypeInv
  <1>2. QED
    BY <1>1, WorldStep, InTargetsStep DEF TypeInv

LEMMA TypeInvTypeOK == TypeInv => TypeOK
  <1> SUFFICES ASSUME TypeInv PROVE TypeOK
    OBVIOUS
  <1>1. DOMAIN SyncOrder = 1 .. 10
    BY DEF SyncOrder
  <1>2. \A e \in Envs : data[e] \in 0 .. MaxEvents
    <2> TAKE e \in Envs
    <2>1. data[e] \in Nat /\ data[e] <= events /\ events \in 0 .. MaxEvents
      BY DEF TypeInv, World
    <2>2. QED
      BY <2>1, ReconcilerAssumption
  <1>3. data \in [Envs -> 0 .. MaxEvents]
    BY <1>2 DEF TypeInv, World
  <1>4. QED
    BY <1>1, <1>3 DEF TypeInv, World, IInv, Shape, Ops, Pcs, Copies, TypeOK

\* The state is what the code can hold, after any number of users, faults and restarts.
THEOREM TypeCorrect == Spec => []TypeOK
  BY TypeInvInit, TypeInvStep, TypeInvTypeOK, PTL DEF Spec

\* No issuer is ever given a certificate that a user has supplied: the secret of an
\* annotated ingress is the generated one, whatever the app and its environments set and
\* whichever spec an ingress was made from.
THEOREM CertsAreKept == Spec => []CertsKept
  <1>1. TypeInv => CertsKept
    BY DEF TypeInv
  <1>2. QED
    BY <1>1, TypeInvInit, TypeInvStep, PTL DEF Spec

-----------------------------------------------------------------------------
(* What a pass leaves to the autoscaler *)

\* A pass does to the replicas of an environment what LeavesScaling allows.
Scales(e) ==
    LET was == objs[e].deployment
        is  == objs'[e].deployment
    IN  op' # op /\ was # None /\ is # None /\ is.replicas # was.replicas
        => Target(e).scale = None \/ is.replicas = 0

\* A step that writes another object, or one of another environment, or none.
LEMMA OtherObjects ==
    ASSUME Shape, NEW e \in Envs, NEW f \in Envs, NEW k, NEW v,
           objs' = [objs EXCEPT ![f][k] = v], k # "deployment" \/ f # e \/ v = None
    PROVE  objs'[e].deployment \in {objs[e].deployment, None}
  <1>1. DOMAIN objs = Envs /\ DOMAIN objs[e] = Kinds /\ "deployment" \in Kinds
    BY DEF Shape, Kinds, Nothing
  <1>2. CASE f # e
    BY <1>1, <1>2
  <1>3. CASE f = e
    <2>1. objs'[e] = [objs[e] EXCEPT ![k] = v]
      BY <1>1, <1>3
    <2>2. QED
      BY <1>1, <1>3, <2>1
  <1>4. QED
    BY <1>2, <1>3

\* The edit of an up-to-date copy keeps the replicas an autoscaler has chosen.
LEMMA EditScales ==
    ASSUME NEW e \in Envs, seen[e] = objs[e].deployment, objs'[e].deployment = Edited(e)
    PROVE  Scales(e)
  BY DEF Edited, WantDeployment, Replicas, Scales

\* The calls of a pass and of a cleanup.
LEMMA CallScales ==
    ASSUME IInv, NEW e \in Envs, NEW f \in Envs,
           \/ Sync(f) \/ DeployNothing(f) \/ Deploy(f) \/ DeployFail(f) \/ Clean(f)
           \/ SyncShrug(f) \/ SyncFail(f) \/ CleanBlind(f) \/ CleanFail(f)
    PROVE  Scales(e)
  <1>1. Shape
    BY DEF IInv
  <1>2. ASSUME objs'[e].deployment \in {objs[e].deployment, None} PROVE Scales(e)
    BY <1>2 DEF Scales
  <1>3. CASE DeployNothing(f) \/ SyncShrug(f) \/ CleanBlind(f)
    BY <1>2, <1>3 DEF DeployNothing, SyncShrug, CleanBlind
  <1>4. CASE Sync(f) \/ SyncFail(f)
    <2>1. PICK v : objs' = [objs EXCEPT ![f][SyncKind] = v] /\ SyncKind # "deployment"
      BY <1>4 DEF Sync, SyncFail
    <2>2. QED
      BY <1>1, <1>2, <2>1, OtherObjects
  <1>5. CASE Deploy(f) \/ DeployFail(f)
    <2>1. \/ objs' = objs
          \/ objs' = [objs EXCEPT ![f]["deployment"] = Edited(f)] /\ seen[f] = objs[f].deployment
      BY <1>5 DEF Deploy, DeployFail, DeployRefused
    <2>2. CASE objs' = objs \/ f # e
      <3>1. objs' = objs => objs'[e].deployment \in {objs[e].deployment, None}
        OBVIOUS
      <3>2. objs' # objs => objs'[e].deployment \in {objs[e].deployment, None}
        BY <1>1, <2>1, <2>2, OtherObjects
      <3>3. QED
        BY <1>2, <3>1, <3>2
    <2>3. CASE objs' # objs /\ f = e
      <3>1. DOMAIN objs = Envs /\ DOMAIN objs[e] = Kinds /\ "deployment" \in Kinds
        BY <1>1 DEF Shape, Kinds, Nothing
      <3>2. objs'[e] = [objs[e] EXCEPT !["deployment"] = Edited(e)]
        BY <2>1, <2>3, <3>1
      <3>3. objs'[e].deployment = Edited(e)
        BY <3>1, <3>2
      <3>4. QED
        BY <2>1, <2>3, <3>3, EditScales
    <2>4. QED
      BY <2>2, <2>3
  <1>6. CASE Clean(f) \/ CleanFail(f)
    <2>1. op.step \in 1 .. 6 /\ op.pc = "cleanup"
      BY <1>6 DEF IInv, Based, Clean, CleanFail, At
    <2>2. PICK v : /\ objs' = [objs EXCEPT ![f][CleanKind] = v]
                   /\ CleanKind = "deployment" => v \in {objs[f].deployment, None}
      BY <1>6 DEF Clean, CleanFail, Nothing
    <2>3. CASE CleanKind = "deployment" /\ f = e /\ v # None
      <3>1. DOMAIN objs = Envs /\ DOMAIN objs[e] = Kinds /\ "deployment" \in Kinds
        BY <1>1 DEF Shape, Kinds, Nothing
      <3>2. objs'[e] = [objs[e] EXCEPT !["deployment"] = objs[e].deployment]
        BY <2>2, <2>3, <3>1
      <3>3. QED
        BY <1>2, <3>1, <3>2
    <2>4. CASE ~(CleanKind = "deployment" /\ f = e /\ v # None)
      BY <1>1, <1>2, <2>2, <2>4, OtherObjects
    <2>5. QED
      BY <2>3, <2>4
  <1>7. QED
    BY <1>3, <1>4, <1>5, <1>6

\* However old the operator's copies are, a pass changes the replicas of a Deployment only
\* where the spec it works on has no autoscaler, or to none: an edit that is made of an old
\* copy of the Deployment is refused.
THEOREM ScalingIsLeft == Spec => LeavesScaling
  <1>1. IInv /\ [Next]_vars => \A e \in Envs : Scales(e)
    <2> SUFFICES ASSUME IInv, [Next]_vars, NEW e \in Envs PROVE Scales(e)
      OBVIOUS
    <2>1. CASE op' = op
      BY <2>1 DEF Scales
    <2>2. CASE objs' = objs
      BY <2>2 DEF Scales
    <2>3. \/ op' = op \/ objs' = objs
          \/ \E f \in Envs :
                \/ Sync(f) \/ DeployNothing(f) \/ Deploy(f) \/ DeployFail(f) \/ Clean(f)
                \/ SyncShrug(f) \/ SyncFail(f) \/ CleanBlind(f) \/ CleanFail(f)
      <3>1. CASE User \/ Cluster \/ Watch \/ \E f \in Envs : WatchDeployment(f)
        BY <3>1 DEF User, Create, EditSpec, Delete, SetSleep, WriteSecret, UserOnly,
           Cluster, Autoscale, PodsTurn, Watch, WatchDeployment
      <3>2. CASE Operate
        BY <3>2 DEF Operate, OpGet, Mark, StatusGet, StatusPut, Unmark, FailStatus
      <3>3. CASE Trouble
        BY <3>3 DEF Trouble, Lost, Crash
      <3>4. CASE UNCHANGED vars
        BY <3>4 DEF vars
      <3>5. QED
        BY <3>1, <3>2, <3>3, <3>4 DEF Next
    <2>4. QED
      BY <2>1, <2>2, <2>3, CallScales
  <1>2. Init => IInv
    BY InitInv
  <1>3. IInv /\ [Next]_vars => IInv'
    BY StepInv
  <1>4. QED
    BY <1>1, <1>2, <1>3, PTL DEF Spec, LeavesScaling, Scales

-----------------------------------------------------------------------------
(* Lists of environments *)

\* How many entries do not have the name, and where the k-th of them stands.
Rest(envs, n) == {i \in DOMAIN envs : envs[i].name # n}
LeftOf(envs, n) == Cardinality(Rest(envs, n))
Nth(envs, n, k) ==
    CHOOSE i \in Rest(envs, n) : Cardinality({j \in Rest(envs, n) : j <= i}) = k

LEMMA NthIs ==
    ASSUME NEW S, NEW envs \in Seq(S), NEW n
    PROVE  /\ LeftOf(envs, n) \in Nat
           /\ Others(envs, n) = [k \in 1..LeftOf(envs, n) |-> envs[Nth(envs, n, k)]]
           /\ \A k \in 1..LeftOf(envs, n) :
                 /\ Nth(envs, n, k) \in DOMAIN envs /\ envs[Nth(envs, n, k)].name # n
                 /\ Cardinality({j \in Rest(envs, n) : j <= Nth(envs, n, k)}) = k
<1> DEFINE kept == Rest(envs, n)
<1>1. Len(envs) \in Nat /\ DOMAIN envs = 1..Len(envs)
  OBVIOUS
<1>2. kept \in SUBSET (1..Len(envs))
  BY <1>1 DEF Rest
<1>3. LeftOf(envs, n) = Cardinality(kept)
  BY DEF LeftOf
<1> HIDE DEF kept
<1>4. Cardinality(kept) \in Nat
  <2>1. IsFiniteSet(1..Len(envs))
    BY <1>1, FS_Interval
  <2>2. IsFiniteSet(kept)
    BY <1>2, <2>1, FS_Subset
  <2> QED
    BY <2>2, FS_CardinalityType
<1>5. ASSUME NEW k \in 1..Cardinality(kept)
      PROVE  Nth(envs, n, k) \in kept /\ Cardinality({j \in kept : j <= Nth(envs, n, k)}) = k
  <2>1. Nth(envs, n, k) = CHOOSE i \in kept : Cardinality({j \in kept : j <= i}) = k
    BY DEF Nth, kept
  <2>2. \E i \in kept : Cardinality({j \in kept : j <= i}) = k
    BY <1>1, <1>2, Ranked
  <2> QED
    BY <2>1, <2>2
<1>6. Others(envs, n) = [k \in 1..LeftOf(envs, n) |-> envs[Nth(envs, n, k)]]
  BY DEF Others, Only, LeftOf, Nth, Rest
<1>7. \A k \in 1..LeftOf(envs, n) : Nth(envs, n, k) \in kept /\ Cardinality({j \in kept : j <= Nth(envs, n, k)}) = k
  BY <1>3, <1>5
<1> QED
  BY <1>3, <1>4, <1>6, <1>7 DEF kept, Rest

\* Lists that have the same entries in the same places, but for those of the name, have the
\* same others.
LEMMA SameOthers ==
    ASSUME NEW S, NEW envs \in Seq(S), NEW new \in Seq(S), NEW n,
           \A i : (i \in DOMAIN envs /\ envs[i].name # n) <=> (i \in DOMAIN new /\ new[i].name # n),
           \A i \in DOMAIN envs : envs[i].name # n => new[i] = envs[i]
    PROVE  Others(new, n) = Others(envs, n)
<1>1. Rest(new, n) = Rest(envs, n)
  BY DEF Rest
<1>2. LeftOf(new, n) = LeftOf(envs, n)
  BY <1>1, Zenon DEF LeftOf
<1>3. ASSUME NEW k PROVE Nth(new, n, k) = Nth(envs, n, k)
  BY <1>1, Zenon DEF Nth
<1>4. Others(new, n) = [k \in 1..LeftOf(envs, n) |-> new[Nth(envs, n, k)]]
  BY <1>2, <1>3, NthIs
<1>5. Others(envs, n) = [k \in 1..LeftOf(envs, n) |-> envs[Nth(envs, n, k)]]
  BY NthIs
<1>6. ASSUME NEW k \in 1..LeftOf(envs, n) PROVE new[Nth(envs, n, k)] = envs[Nth(envs, n, k)]
  <2> DEFINE p == Nth(envs, n, k)
  <2>1. p \in DOMAIN envs /\ envs[p].name # n
    BY NthIs
  <2> HIDE DEF p
  <2> QED
    BY <2>1 DEF p
<1> QED
  BY <1>4, <1>5, <1>6

\* What is left is a list without the name, and has a name twice only if the list had.
LEMMA OthersAre ==
    ASSUME NEW S, NEW envs \in Seq(S), NEW n
    PROVE  /\ Others(envs, n) \in Seq(S)
           /\ \A k \in DOMAIN Others(envs, n) : Others(envs, n)[k].name # n
           /\ \A m : Twice(Others(envs, n), m) => Twice(envs, m)
           /\ Others(Others(envs, n), n) = Others(envs, n)
<1> DEFINE m  == LeftOf(envs, n)
           nth(k) == Nth(envs, n, k)
           F  == [k \in 1..m |-> envs[nth(k)]]
           kept == Rest(envs, n)
<1>1. m \in Nat /\ Others(envs, n) = F
  BY NthIs
<1>2. ASSUME NEW k \in 1..m
      PROVE  nth(k) \in DOMAIN envs /\ envs[nth(k)].name # n /\ Cardinality({j \in kept : j <= nth(k)}) = k
  BY NthIs
<1> HIDE DEF m, nth, kept
<1>3. ASSUME NEW k \in 1..m PROVE envs[nth(k)] \in S
  <2> DEFINE i == nth(k)
  <2>1. i \in DOMAIN envs
    BY <1>2
  <2> HIDE DEF i
  <2> QED
    BY <2>1 DEF i
<1>4. F \in Seq(S) /\ DOMAIN F = 1..m /\ Len(F) = m
  BY <1>1, <1>3
<1>5. \A k \in 1..m : F[k] = envs[nth(k)]
  OBVIOUS
<1> HIDE DEF F
<1>6. \A k \in DOMAIN F : F[k].name # n
  BY <1>2, <1>4, <1>5
<1>7. ASSUME NEW m2, Twice(F, m2) PROVE Twice(envs, m2)
  <2>1. PICK k \in 1..m, l \in 1..m : k # l /\ F[k].name = m2 /\ F[l].name = m2
    BY <1>4, <1>7 DEF Twice
  <2>2. /\ nth(k) \in DOMAIN envs /\ nth(l) \in DOMAIN envs
        /\ envs[nth(k)].name = m2 /\ envs[nth(l)].name = m2
    BY <1>2, <1>5, <2>1
  <2>3. /\ Cardinality({j \in kept : j <= nth(k)}) = k
        /\ Cardinality({j \in kept : j <= nth(l)}) = l
    BY <1>2
  <2>4. nth(k) # nth(l)
    BY <2>1, <2>3
  <2> QED
    BY <2>2, <2>4 DEF Twice
<1>8. Others(F, n) = F
  <2>1. Rest(F, n) = 1..m
    BY <1>4, <1>6 DEF Rest
  <2>2. Cardinality(1..m) = m
    BY <1>1, FS_Interval
  <2>3. LeftOf(F, n) = m
    BY <2>1, <2>2 DEF LeftOf
  <2>4. ASSUME NEW k \in 1..m PROVE Nth(F, n, k) = k
    <3> DEFINE p == Nth(F, n, k)
    <3>1. p \in DOMAIN F /\ Cardinality({j \in Rest(F, n) : j <= p}) = k
      BY <1>4, <2>3, NthIs
    <3> HIDE DEF p
    <3>2. p \in 1..m /\ {j \in Rest(F, n) : j <= p} = 1..p
      BY <1>1, <1>4, <2>1, <3>1
    <3>3. Cardinality(1..p) = p
      BY <1>1, <3>2, FS_Interval
    <3> QED
      BY <3>1, <3>2, <3>3 DEF p
  <2>5. Others(F, n) = [k \in 1..m |-> F[Nth(F, n, k)]]
    BY <1>4, <2>3, NthIs
  <2>6. Others(F, n) = [k \in 1..m |-> F[k]]
    BY <2>4, <2>5
  <2>7. F = [k \in 1..m |-> F[k]]
    BY <1>4
  <2> QED
    BY <2>6, <2>7
<1> QED
  BY <1>1, <1>4, <1>6, <1>7, <1>8

\* A change sets what it names, and never the name.
LEMMA SetIs ==
    ASSUME NEW e \in Entry, NEW c, IsChange(c)
    PROVE  /\ Set(e, c) \in Entry
           /\ Set(e, c).name = e.name
           /\ \A f \in Settings \ DOMAIN c : Set(e, c)[f] = e[f]
<1>1. /\ e.name \in Names /\ e.branch \in Branches \cup {Absent} /\ e.auto \in BOOLEAN
      /\ DOMAIN e = {"name", "branch", "auto"}
  BY DEF Entry
<1>2. DOMAIN Set(e, c) = {"name", "branch", "auto"}
  BY <1>1 DEF Set
<1>3. Set(e, c) = [name |-> Set(e, c).name, branch |-> Set(e, c).branch, auto |-> Set(e, c).auto]
  BY <1>2 DEF Set
<1>4. Set(e, c).name = e.name
  BY <1>1 DEF Set, IsChange, Settings
<1>5. Set(e, c).branch \in Branches \cup {Absent}
  BY <1>1 DEF Set, IsChange
<1>6. Set(e, c).auto \in BOOLEAN
  BY <1>1 DEF Set, IsChange
<1>7. \A f \in Settings \ DOMAIN c : Set(e, c)[f] = e[f]
  BY <1>1 DEF Set, Settings
<1>8. Set(e, c) \in Entry
  BY <1>1, <1>3, <1>4, <1>5, <1>6 DEF Entry
<1> QED
  BY <1>4, <1>7, <1>8

\* A project stays one when a handler or the operator has changed a part of it.
LEMMA ProjectIs ==
    ASSUME NEW p \in VestaProject
    PROVE  /\ DOMAIN p = {"envs", "team", "own", "label", "count"} /\ p.envs \in Seq(Entry)
           /\ \A new \in Seq(Entry) : [p EXCEPT !.envs = new] \in VestaProject
           /\ \A c \in 0..Cardinality(Names) : [p EXCEPT !.count = c] \in VestaProject
           /\ Labelled("project", p) \in VestaProject /\ ProjectLabelled(Labelled("project", p))
           /\ Labelled("project", p) = p => ProjectLabelled(p)
<1> DEFINE S == Seq(Entry)
           T == Teams \cup {Absent}
           N == 0..Cardinality(Names)
<1>1. VestaProject = [envs : S, team : T, own : BOOLEAN, label : T, count : N]
  BY DEF VestaProject
<1> HIDE DEF S, T, N
<1>2. DOMAIN p = {"envs", "team", "own", "label", "count"} /\ p.envs \in S /\ p.team \in T
  BY <1>1
<1>3. /\ \A new \in S : [p EXCEPT !.envs = new] \in VestaProject
      /\ \A c \in N : [p EXCEPT !.count = c] \in VestaProject
  BY <1>1
<1> DEFINE y == Labelled("project", p)
<1>4. y = [p EXCEPT !.own = TRUE, !.label = IF p.team = Absent THEN @ ELSE p.team]
  BY DEF Labelled
<1> HIDE DEF y
<1>5. y \in VestaProject
  BY <1>1, <1>4
<1>6. y.own = TRUE /\ y.team = p.team /\ (p.team # Absent => y.label = p.team)
  BY <1>2, <1>4
<1> QED
  BY <1>2, <1>3, <1>5, <1>6 DEF S, T, N, y, ProjectLabelled

\* And so does a VestaEnvironment.
LEMMA EnvironmentIs ==
    ASSUME NEW e \in VestaEnvironment
    PROVE  /\ DOMAIN e = {"project", "branch", "auto", "label", "count"} /\ e.project \in Projects
           /\ \A c \in 0..Cardinality(Apps) : [e EXCEPT !.count = c] \in VestaEnvironment
           /\ \A c : IsChange(c) => Set(e, c) \in VestaEnvironment
           /\ Labelled("environment", e) \in VestaEnvironment
           /\ EnvironmentLabelled(Labelled("environment", e))
           /\ Labelled("environment", e) = e => EnvironmentLabelled(e)
<1> DEFINE B == Branches \cup {Absent}
           N == 0..Cardinality(Apps)
           P == Projects
<1>1. VestaEnvironment = [project : P, branch : B, auto : BOOLEAN, label : P \cup {Absent}, count : N]
  BY DEF VestaEnvironment
<1> HIDE DEF B, N, P
<1>2. /\ DOMAIN e = {"project", "branch", "auto", "label", "count"} /\ e.project \in P
      /\ e.branch \in B /\ e.auto \in BOOLEAN /\ e.label \in P \cup {Absent} /\ e.count \in N
  BY <1>1
<1>3. \A c \in N : [e EXCEPT !.count = c] \in VestaEnvironment
  BY <1>1
<1>4. ASSUME NEW c, IsChange(c) PROVE Set(e, c) \in VestaEnvironment
  <2> DEFINE y == Set(e, c)
  <2>1. DOMAIN y = DOMAIN e /\ \A f \in DOMAIN e : y[f] = IF f \in DOMAIN c THEN c[f] ELSE e[f]
    BY DEF Set
  <2>2. y = [f \in DOMAIN e |-> IF f \in DOMAIN c THEN c[f] ELSE e[f]]
    BY DEF Set
  <2> HIDE DEF y
  <2>3. y.project = e.project /\ y.label = e.label /\ y.count = e.count
    BY <1>2, <1>4, <2>1 DEF IsChange, Settings
  <2>4. y.branch \in B /\ y.auto \in BOOLEAN
    BY <1>2, <1>4, <2>1 DEF IsChange, B
  <2>5. y = [project |-> y.project, branch |-> y.branch, auto |-> y.auto, label |-> y.label, count |-> y.count]
    BY <1>2, <2>1, <2>2
  <2>6. y \in VestaEnvironment
    BY <1>1, <1>2, <2>3, <2>4, <2>5
  <2> QED
    BY <2>6 DEF y
<1> DEFINE y == Labelled("environment", e)
<1>5. y = [e EXCEPT !.label = e.project]
  BY DEF Labelled
<1> HIDE DEF y
<1>6. y \in VestaEnvironment
  BY <1>1, <1>5
<1>7. y.label = e.project /\ y.project = e.project
  BY <1>2, <1>5
<1> QED
  BY <1>2, <1>3, <1>4, <1>6, <1>7 DEF N, P, y, EnvironmentLabelled

\* The keys an update of the project has are set, and no others.
LEMMA BodyIs ==
    ASSUME NEW p \in VestaProject, NEW b, IsBody(b)
    PROVE  /\ Set(p, b) \in VestaProject
           /\ Set(p, b).envs = IF "envs" \in DOMAIN b THEN b.envs ELSE p.envs
           /\ Set(p, b).team = IF "team" \in DOMAIN b THEN b.team ELSE p.team
           /\ Set(p, b).label = p.label
<1> DEFINE S == Seq(Entry)
           T == Teams \cup {Absent}
           N == 0..Cardinality(Names)
           y == Set(p, b)
<1>1. VestaProject = [envs : S, team : T, own : BOOLEAN, label : T, count : N]
  BY DEF VestaProject
<1>2. y = [f \in DOMAIN p |-> IF f \in DOMAIN b THEN b[f] ELSE p[f]]
  BY DEF Set
<1>3. DOMAIN b \subseteq {"envs", "team"} /\ ("envs" \in DOMAIN b => b.envs \in S) /\ ("team" \in DOMAIN b => b.team \in T)
  BY DEF IsBody
<1> HIDE DEF S, T, N, y
<1>4. /\ DOMAIN p = {"envs", "team", "own", "label", "count"} /\ p.envs \in S /\ p.team \in T
      /\ p.own \in BOOLEAN /\ p.label \in T /\ p.count \in N
  BY <1>1
<1>5. /\ DOMAIN y = {"envs", "team", "own", "label", "count"}
      /\ y.envs = (IF "envs" \in DOMAIN b THEN b.envs ELSE p.envs)
      /\ y.team = (IF "team" \in DOMAIN b THEN b.team ELSE p.team)
      /\ y.own = p.own /\ y.label = p.label /\ y.count = p.count
  BY <1>2, <1>3, <1>4
<1>6. y = [envs |-> y.envs, team |-> y.team, own |-> y.own, label |-> y.label, count |-> y.count]
  BY <1>2, <1>5
<1>7. y \in VestaProject
  BY <1>1, <1>3, <1>4, <1>5, <1>6
<1> QED
  BY <1>5, <1>7 DEF y

\* A list that has a name has a first entry by it.
LEMMA FirstIs ==
    ASSUME NEW S, NEW envs \in Seq(S), NEW n \in NameSet(envs)
    PROVE  /\ PlaceOf(envs, n) \in DOMAIN envs /\ envs[PlaceOf(envs, n)].name = n
           /\ \A j \in 1..(PlaceOf(envs, n) - 1) : envs[j].name # n
           /\ EntryOf(envs, n) \in S
<1> DEFINE T == {i \in DOMAIN envs : envs[i].name = n}
           k == Min(T)
<1>1. Len(envs) \in Nat /\ DOMAIN envs = 1..Len(envs)
  OBVIOUS
<1>2. T \in SUBSET Nat /\ T # {}
  BY <1>1 DEF NameSet
<1>3. k \in T /\ \A y \in T : k <= y
  <2> HIDE DEF T
  <2> QED
    BY <1>2, MinOfNats
<1> HIDE DEF k
<1>4. k \in DOMAIN envs /\ envs[k].name = n /\ \A j \in 1..(k - 1) : envs[j].name # n
  <2>1. ASSUME NEW j \in 1..(k - 1) PROVE j \in DOMAIN envs /\ ~(k <= j)
    BY <1>1, <1>3
  <2> QED
    BY <1>3, <2>1
<1>5. /\ PlaceOf(envs, n) \in DOMAIN envs /\ envs[PlaceOf(envs, n)].name = n
      /\ \A j \in 1..(PlaceOf(envs, n) - 1) : envs[j].name # n
  BY <1>4 DEF PlaceOf
<1>6. EntryOf(envs, n) \in S
  BY <1>5 DEF EntryOf
<1> QED
  BY <1>5, <1>6

\* And no other.
LEMMA FirstOnly ==
    ASSUME NEW S, NEW envs \in Seq(S), NEW n, NEW k \in DOMAIN envs, envs[k].name = n,
           \A j \in 1..(k - 1) : envs[j].name # n
    PROVE  PlaceOf(envs, n) = k
<1>1. n \in NameSet(envs)
  BY DEF NameSet
<1> DEFINE l == PlaceOf(envs, n)
<1>2. l \in DOMAIN envs /\ envs[l].name = n /\ \A j \in 1..(l - 1) : envs[j].name # n
  BY <1>1, FirstIs
<1>3. k \in Nat \ {0} /\ l \in Nat \ {0}
  BY <1>2
<1> HIDE DEF l
<1>4. ~(k < l) /\ ~(l < k)
  BY <1>2, <1>3
<1> QED
  BY <1>3, <1>4 DEF l

\* An entry with a new name is added.
LEMMA AppendIs ==
    ASSUME NEW envs \in Seq(Entry), NEW e \in Entry, e.name \notin NameSet(envs)
    PROVE  /\ Append(envs, e) \in Seq(Entry)
           /\ \A m : Twice(Append(envs, e), m) => Twice(envs, m)
           /\ Others(Append(envs, e), e.name) = Others(envs, e.name)
<1> DEFINE new == Append(envs, e)
           S   == Entry
<1> HIDE DEF S
<1>0. envs \in Seq(S) /\ e \in S
  BY DEF S
<1>1. /\ Len(envs) \in Nat /\ DOMAIN envs = 1..Len(envs)
      /\ new \in Seq(S) /\ DOMAIN new = 1..(Len(envs) + 1)
      /\ (\A i \in 1..Len(envs) : new[i] = envs[i]) /\ new[Len(envs) + 1] = e
  BY <1>0
<1>2. \A i \in DOMAIN envs : envs[i].name # e.name
  BY DEF NameSet
<1> HIDE DEF new
<1>3. ASSUME NEW m, Twice(new, m) PROVE Twice(envs, m)
  <2>1. PICK i \in 1..(Len(envs) + 1), j \in 1..(Len(envs) + 1) :
          i # j /\ new[i].name = m /\ new[j].name = m
    BY <1>1, <1>3 DEF Twice
  <2>2. CASE i \in DOMAIN envs /\ j \in DOMAIN envs
    BY <1>1, <2>1, <2>2 DEF Twice
  <2>3. CASE i = Len(envs) + 1 /\ j \in DOMAIN envs
    BY <1>1, <1>2, <2>1, <2>3
  <2>4. CASE i \in DOMAIN envs /\ j = Len(envs) + 1
    BY <1>1, <1>2, <2>1, <2>4
  <2> QED
    BY <1>1, <2>1, <2>2, <2>3, <2>4
<1>4. \A i : (i \in DOMAIN envs /\ envs[i].name # e.name) <=> (i \in DOMAIN new /\ new[i].name # e.name)
  <2> SUFFICES ASSUME NEW i
               PROVE  (i \in DOMAIN envs /\ envs[i].name # e.name) <=> (i \in DOMAIN new /\ new[i].name # e.name)
    OBVIOUS
  <2>1. CASE i \in DOMAIN envs
    BY <1>1, <2>1
  <2>2. CASE i = Len(envs) + 1
    BY <1>1, <2>2
  <2>3. i \in DOMAIN new => i \in DOMAIN envs \/ i = Len(envs) + 1
    BY <1>1
  <2> QED
    BY <2>1, <2>2, <2>3
<1>5. Others(new, e.name) = Others(envs, e.name)
  BY <1>0, <1>1, <1>4, SameOthers
<1> QED
  BY <1>1, <1>3, <1>5 DEF S, new

\* The first entry of the name is changed.
Updated(envs, n, c) == [envs EXCEPT ![PlaceOf(envs, n)] = Set(@, c)]

LEMMA UpdateIs ==
    ASSUME NEW envs \in Seq(Entry), NEW n \in NameSet(envs), NEW c, IsChange(c)
    PROVE  /\ Updated(envs, n, c) \in Seq(Entry)
           /\ \A m : Twice(Updated(envs, n, c), m) => Twice(envs, m)
           /\ Others(Updated(envs, n, c), n) = Others(envs, n)
           /\ \A f \in Settings \ DOMAIN c : EntryOf(envs, n)[f] = EntryOf(Updated(envs, n, c), n)[f]
<1> DEFINE new == Updated(envs, n, c)
           k   == PlaceOf(envs, n)
           S   == Entry
<1>0. new = [envs EXCEPT ![k] = Set(envs[k], c)]
  BY DEF Updated
<1> HIDE DEF new, k, S
<1>1. envs \in Seq(S)
  BY DEF S
<1>2. k \in DOMAIN envs /\ envs[k].name = n /\ \A j \in 1..(k - 1) : envs[j].name # n
  BY <1>1, FirstIs DEF k
<1>3. Len(envs) \in Nat /\ DOMAIN envs = 1..Len(envs) /\ DOMAIN new = 1..Len(envs) /\ k \in 1..Len(envs)
  BY <1>0, <1>1, <1>2
<1>4. /\ envs[k] \in Entry /\ Set(envs[k], c) \in Entry /\ Set(envs[k], c).name = n
      /\ \A f \in Settings \ DOMAIN c : Set(envs[k], c)[f] = envs[k][f]
  <2>1. envs[k] \in Entry
    BY <1>1, <1>2 DEF S
  <2> QED
    BY <1>2, <2>1, SetIs
<1>5. ASSUME NEW i \in DOMAIN envs
      PROVE  /\ new[i] \in S /\ new[i].name = envs[i].name
             /\ envs[i].name # n => new[i] = envs[i]
  BY <1>0, <1>1, <1>2, <1>3, <1>4 DEF S
<1>6. new \in Seq(S)
  <2>1. new = [i \in 1..Len(envs) |-> new[i]]
    BY <1>0, <1>3
  <2> QED
    BY <1>3, <1>5, <2>1
<1>7. ASSUME NEW m, Twice(new, m) PROVE Twice(envs, m)
  BY <1>3, <1>5, <1>7 DEF Twice
<1>8. Others(new, n) = Others(envs, n)
  <2>1. \A i : (i \in DOMAIN envs /\ envs[i].name # n) <=> (i \in DOMAIN new /\ new[i].name # n)
    BY <1>3, <1>5
  <2>2. \A i \in DOMAIN envs : envs[i].name # n => new[i] = envs[i]
    BY <1>5
  <2> QED
    BY <1>1, <1>6, <2>1, <2>2, SameOthers
<1>9. EntryOf(new, n) = Set(envs[k], c)
  <2>1. new[k] = Set(envs[k], c) /\ new[k].name = n /\ k \in DOMAIN new
    BY <1>0, <1>2, <1>3, <1>4
  <2>2. ASSUME NEW j \in 1..(k - 1) PROVE new[j].name # n
    BY <1>2, <1>3, <1>5
  <2>3. PlaceOf(new, n) = k
    BY <1>6, <2>1, <2>2, FirstOnly
  <2> QED
    BY <2>1, <2>3 DEF EntryOf
<1>10. EntryOf(envs, n) = envs[k]
  BY DEF EntryOf, k
<1> QED
  BY <1>4, <1>6, <1>7, <1>8, <1>9, <1>10 DEF new, S

\* An update of the project gives it the list.
ListGiven(in, envs) == in.op = "updateProject" /\ "envs" \in DOMAIN in.body /\ envs = in.body.envs

\* A request about an environment leaves the entries of the others, and of the entry it
\* updates the settings it does not name.
OnlyItsOwn(r, old, new) ==
    /\ In(r).op \in {"create", "clone", "update", "delete"}
    /\ Others(new, In(r).name) = Others(old, In(r).name)
    /\ In(r).op = "update" => May(r, EntryOf(old, In(r).name), EntryOf(new, In(r).name))

TeamGiven(in, old, new) ==
    /\ in.op = "updateProject" /\ "team" \in DOMAIN in.body
    /\ new.team = in.body.team /\ new.label = old.label
    /\ "envs" \in DOMAIN in.body \/ new.envs = old.envs

\* What a handler writes differs in what it was asked for, and has a name twice only when
\* what it has read does, or the list it was given.
LEMMA NewSpecIs ==
    ASSUME NEW r \in Requests, IsProject(req[r].held),
           IsAsked(In(r)), In(r).op \in Edits, ~Refused(r, req[r].held.envs)
    PROVE  /\ IsProject(NewSpec(r))
           /\ \A m : Twice(NewSpec(r).envs, m) =>
                       Twice(req[r].held.envs, m) \/ ListGiven(In(r), NewSpec(r).envs)
           /\ NewSpec(r).envs # req[r].held.envs =>
                 ListGiven(In(r), NewSpec(r).envs) \/ OnlyItsOwn(r, req[r].held.envs, NewSpec(r).envs)
           /\ NewSpec(r).team # req[r].held.team => TeamGiven(In(r), req[r].held, NewSpec(r))
<1> DEFINE in   == In(r)
           p    == req[r].held
           envs == p.envs
           x    == NewSpec(r)
           n    == in.name
           S    == Entry
<1>1. /\ DOMAIN p = {"envs", "team", "own", "label", "count"}
      /\ envs \in Seq(S) /\ p \in VestaProject
  BY ProjectIs DEF IsProject
<1>2. in.op \in {"updateProject", "create", "clone", "update", "delete"}
  BY DEF Edits
<1> HIDE DEF S
<1>3. ASSUME NEW new, new \in Seq(S), \A m : Twice(new, m) => Twice(envs, m), x = [p EXCEPT !.envs = new],
             OnlyItsOwn(r, envs, new)
      PROVE  /\ IsProject(x)
             /\ \A m : Twice(x.envs, m) => Twice(envs, m)
             /\ OnlyItsOwn(r, envs, x.envs)
             /\ x.team = p.team
  <2> HIDE DEF x, p
  <2>1. x.envs = new /\ x.team = p.team
    BY <1>1, <1>3
  <2>2. x \in VestaProject
    BY <1>1, <1>3, ProjectIs DEF S
  <2> QED
    BY <1>3, <2>1, <2>2 DEF IsProject
<1>4. ASSUME IsProject(x), \A m : Twice(x.envs, m) => Twice(envs, m),
             OnlyItsOwn(r, envs, x.envs), x.team = p.team
      PROVE  /\ IsProject(x)
             /\ \A m : Twice(x.envs, m) => Twice(envs, m) \/ ListGiven(in, x.envs)
             /\ x.envs # envs => ListGiven(in, x.envs) \/ OnlyItsOwn(r, envs, x.envs)
             /\ x.team # p.team => TeamGiven(in, p, x)
  <2> HIDE DEF x, p, in
  <2> QED
    BY <1>4
<1>5. CASE in.op = "updateProject"
  <2>1. x = Set(p, in.body) /\ IsBody(in.body)
    BY <1>5 DEF NewSpec, IsAsked
  <2> HIDE DEF x, p, in
  <2>2. /\ x \in VestaProject /\ x.label = p.label
        /\ x.envs = (IF "envs" \in DOMAIN in.body THEN in.body.envs ELSE p.envs)
        /\ x.team = (IF "team" \in DOMAIN in.body THEN in.body.team ELSE p.team)
    BY <1>1, <2>1, BodyIs
  <2>3. x.envs = envs \/ ListGiven(in, x.envs)
    BY <1>5, <2>2 DEF ListGiven
  <2>4. x.team # p.team => TeamGiven(in, p, x)
    BY <1>5, <2>2 DEF TeamGiven
  <2> QED
    BY <2>2, <2>3, <2>4 DEF IsProject, x, p, in
<1>6. CASE in.op = "create"
  <2> DEFINE e0 == [name |-> n, branch |-> Absent, auto |-> FALSE]
             e  == Set(e0, in.change)
             y  == Append(envs, e)
  <2>1. x = [p EXCEPT !.envs = y]
    BY <1>1, <1>6 DEF NewSpec
  <2>2. n \notin NameSet(envs) /\ n \in Names /\ IsChange(in.change)
    BY <1>6 DEF Refused, IsAsked
  <2>3. e0 \in Entry /\ e0.name = n
    BY <2>2 DEF Entry
  <2> HIDE DEF e0
  <2>4. e \in Entry /\ e.name = n
    BY <2>2, <2>3, SetIs
  <2> HIDE DEF e, x, n, in, envs
  <2>5. y \in Seq(S) /\ (\A m : Twice(y, m) => Twice(envs, m)) /\ Others(y, n) = Others(envs, n)
    BY <1>1, <2>2, <2>4, AppendIs DEF S
  <2> HIDE DEF y
  <2>6. OnlyItsOwn(r, envs, y)
    BY <1>6, <2>5 DEF OnlyItsOwn, n, in
  <2> QED
    BY <1>3, <1>4, <2>1, <2>5, <2>6 DEF x, in, envs
<1>7. CASE in.op = "clone"
  <2> DEFINE e0 == EntryOf(envs, in.source)
             e1 == [e0 EXCEPT !.name = n]
             e  == Set(e1, in.change)
             y  == Append(envs, e)
  <2>1. x = [p EXCEPT !.envs = y]
    BY <1>1, <1>7 DEF NewSpec
  <2>2. /\ n \notin NameSet(envs) /\ in.source \in NameSet(envs)
        /\ n \in Names /\ IsChange(in.change)
    BY <1>7 DEF Refused, IsAsked
  <2>3. e0 \in Entry
    <3> HIDE DEF envs, in
    <3> QED
      BY <1>1, <2>2, FirstIs DEF S
  <2> HIDE DEF e0
  <2>4. e1 \in Entry /\ e1.name = n
    BY <2>2, <2>3 DEF Entry
  <2> HIDE DEF e1
  <2>5. e \in Entry /\ e.name = n
    BY <2>2, <2>4, SetIs
  <2> HIDE DEF e, x, n, in, envs
  <2>6. y \in Seq(S) /\ (\A m : Twice(y, m) => Twice(envs, m)) /\ Others(y, n) = Others(envs, n)
    BY <1>1, <2>2, <2>5, AppendIs DEF S
  <2> HIDE DEF y
  <2>7. OnlyItsOwn(r, envs, y)
    BY <1>7, <2>6 DEF OnlyItsOwn, n, in
  <2> QED
    BY <1>3, <1>4, <2>1, <2>6, <2>7 DEF x, in, envs
<1>8. CASE in.op = "update"
  <2> DEFINE y == Updated(envs, n, in.change)
  <2>1. x = [p EXCEPT !.envs = y]
    BY <1>1, <1>8 DEF NewSpec, Updated
  <2>2. n \in NameSet(envs) /\ IsChange(in.change)
    BY <1>8 DEF Refused, IsAsked
  <2> HIDE DEF x, n, envs, in
  <2>3. /\ y \in Seq(S) /\ (\A m : Twice(y, m) => Twice(envs, m)) /\ Others(y, n) = Others(envs, n)
        /\ \A f \in Settings \ DOMAIN in.change : EntryOf(envs, n)[f] = EntryOf(y, n)[f]
    BY <1>1, <2>2, UpdateIs DEF S
  <2> HIDE DEF y
  <2>4. May(r, EntryOf(envs, n), EntryOf(y, n))
    BY <2>3 DEF May, in
  <2>5. OnlyItsOwn(r, envs, y)
    BY <1>8, <2>3, <2>4 DEF OnlyItsOwn, n, in
  <2> QED
    BY <1>3, <1>4, <2>1, <2>3, <2>5 DEF x, in, envs
<1>9. CASE in.op = "delete"
  <2> DEFINE y == Others(envs, n)
  <2>1. x = [p EXCEPT !.envs = y]
    BY <1>1, <1>9 DEF NewSpec
  <2> HIDE DEF x, n, envs, in
  <2>2. y \in Seq(S) /\ (\A m : Twice(y, m) => Twice(envs, m)) /\ Others(y, n) = y
    BY <1>1, OthersAre
  <2>3. OnlyItsOwn(r, envs, y)
    BY <1>9, <2>2 DEF OnlyItsOwn, n, in
  <2> HIDE DEF y
  <2> QED
    BY <1>3, <1>4, <2>1, <2>2, <2>3 DEF x, in, envs
<1> QED
  BY <1>2, <1>5, <1>6, <1>7, <1>8, <1>9

-----------------------------------------------------------------------------
(* What is stored, what is asked for and what is read *)

LEMMA ListedAreFinite ==
    ASSUME NEW S, NEW s \in Seq(S)
    PROVE  IsFiniteSet({s[i] : i \in DOMAIN s})
<1>1. Len(s) \in Nat /\ DOMAIN s = 1..Len(s)
  OBVIOUS
<1>2. IsFiniteSet(DOMAIN s)
  BY <1>1, FS_Interval
<1> DEFINE T == {s[i] : i \in DOMAIN s}
           D == DOMAIN s
           f == [i \in D |-> s[i]]
<1>3. f \in Surjection(D, T)
  BY DEF Surjection
<1> HIDE DEF f, T, D
<1>4. IsFiniteSet(T)
  BY <1>2, <1>3, FS_Surjection DEF D
<1> QED
  BY <1>4 DEF T

\* There are finitely many environments and applications.
LEMMA NamesAreFinite ==
    /\ IsFiniteSet(Names) /\ Cardinality(Names) \in Nat
    /\ IsFiniteSet(Apps) /\ Cardinality(Apps) \in Nat
<1>1. IsFiniteSet(Names)
  <2>1. NameOrder \in Seq(Names)
    BY EnvironmentsAssumption
  <2> DEFINE S == Names
  <2>2. NameOrder \in Seq(S)
    BY <2>1
  <2> HIDE DEF S
  <2>3. IsFiniteSet({NameOrder[i] : i \in DOMAIN NameOrder})
    BY <2>2, ListedAreFinite
  <2> QED
    BY <2>3 DEF Names
<1>2. IsFiniteSet(Apps)
  <2>1. AppOrder \in Seq(Apps)
    BY EnvironmentsAssumption
  <2> DEFINE S == Apps
  <2>2. AppOrder \in Seq(S)
    BY <2>1
  <2> HIDE DEF S
  <2>3. IsFiniteSet({AppOrder[i] : i \in DOMAIN AppOrder})
    BY <2>2, ListedAreFinite
  <2> QED
    BY <2>3 DEF Apps
<1> QED
  BY <1>1, <1>2, FS_CardinalityType

EnvFields == {"input", "at", "held", "todo", "fresh", "ok"}

IsResource(o, x) == IF o[1] = "project" THEN IsProject(x) ELSE IsEnvironment(x)

\* What is stored has a place.
EnvFrames ==
    /\ DOMAIN projects = Projects /\ DOMAIN crs = Names
    /\ DOMAIN req = Requests /\ DOMAIN work = Controllers

\* Every object is as one of its kind is.
Shaped == \A o \in Resources : Stored(o) = Absent \/ IsResource(o, Stored(o))

\* What is held of an object is what is stored, as long as nobody has written it.
Held(x, o) == o \in x.fresh => x.held = Stored(o) /\ IsResource(o, x.held)

Declined(in, envs) ==
    \/ in.op \in {"create", "clone"} /\ in.name \in NameSet(envs)
    \/ in.op = "clone" /\ in.source \notin NameSet(envs)
    \/ in.op \in {"update", "delete"} /\ in.name \notin NameSet(envs)

\* A request is where its handler may be.
Placed(x) ==
    /\ DOMAIN x = EnvFields
    /\ IsAsked(x.input)
    /\ x.at \in {"get", "put"} => x.input.op \in Edits
    /\ x.at \in {"make", "find", "change"} => x.input.op \in {"create", "update"}
    /\ x.at = "drop" => x.input.op = "delete"
    /\ x.at = "new" => x.input.op = "createProject"

Resting(x) == Placed(x) /\ x.at \notin {"put", "change"}

AskedHolds(x) ==
    /\ Placed(x)
    /\ x.at = "put" =>
          /\ Held(x, <<"project", x.input.project>>)
          /\ <<"project", x.input.project>> \in x.fresh => ~Declined(x.input, x.held.envs)
    /\ x.at = "change" => Held(x, <<"environment", x.input.name>>)

RequestsHold == \A r \in Requests : AskedHolds(req[r])

\* What the operator has read is what is stored, unless somebody has written it since.
LooksAt(k) ==
    work[k] # Absent =>
       /\ DOMAIN work[k] = {"name", "seen", "fresh", "at"} /\ work[k].fresh \in BOOLEAN
       /\ work[k].fresh /\ <<k, work[k].name>> \in Resources =>
             /\ work[k].seen = Stored(<<k, work[k].name>>)
             /\ IsResource(<<k, work[k].name>>, work[k].seen)

EnvInv == EnvFrames /\ Shaped /\ RequestsHold /\ \A k \in Controllers : LooksAt(k)

LEMMA DeclinedIs ==
    ASSUME NEW r, NEW envs, req[r].input.op \in Edits
    PROVE  Refused(r, envs) <=> Declined(req[r].input, envs)
<1> DEFINE edit == req[r].input.op
<1>1. edit \in {"updateProject", "create", "clone", "update", "delete"}
  BY DEF Edits
<1>2. CASE edit = "updateProject"
  BY <1>2 DEF Refused, Declined, In
<1>3. CASE edit = "create"
  BY <1>3 DEF Refused, Declined, In
<1>4. CASE edit = "clone"
  BY <1>4 DEF Refused, Declined, In
<1>5. CASE edit = "update"
  BY <1>5 DEF Refused, Declined, In
<1>6. CASE edit = "delete"
  BY <1>6 DEF Refused, Declined, In
<1> QED
  BY <1>1, <1>2, <1>3, <1>4, <1>5, <1>6

LEMMA EnvInitially ==
    ASSUME InitEnvironments
    PROVE  EnvInv
<1>1. PICK start \in Starts :
         /\ projects = [p \in Projects |-> start.projects[p]]
         /\ crs      = [n \in Names |-> start.crs[n]]
         /\ req   = [r \in Requests |-> Asks(start.asked[r])]
  BY DEF InitEnvironments
<1>2. Possible(start)
  BY StartsAssumption
<1>3. work = [k \in Controllers |-> Absent]
  BY DEF InitEnvironments
<1>4. EnvFrames
  BY <1>1, <1>3 DEF EnvFrames
<1>5. Shaped
  <2>1. ASSUME NEW p \in Projects PROVE projects[p] = Absent \/ IsProject(projects[p])
    BY <1>1, <1>2 DEF Possible
  <2>2. ASSUME NEW n \in Names PROVE crs[n] = Absent \/ IsEnvironment(crs[n])
    BY <1>1, <1>2 DEF Possible
  <2> QED
    BY <2>1, <2>2 DEF Shaped, IsResource, Resources, Stored
<1>6. ASSUME NEW r \in Requests PROVE AskedHolds(req[r])
  <2>1. req[r] = Asks(start.asked[r]) /\ IsAsked(start.asked[r])
    BY <1>1, <1>2 DEF Possible
  <2>2. DOMAIN req[r] = EnvFields /\ req[r].input = start.asked[r] /\ req[r].at = "idle"
    BY <2>1 DEF Asks, EnvFields
  <2> QED
    BY <2>1, <2>2 DEF AskedHolds, Placed
<1>7. \A k \in Controllers : LooksAt(k)
  BY <1>3 DEF LooksAt
<1> QED
  BY <1>4, <1>5, <1>6, <1>7 DEF EnvInv, RequestsHold

\* A request that has read x goes on knowing what it knew of the objects nobody has written.
LEMMA StillHolds ==
    ASSUME NEW x, AskedHolds(x), NEW y,
           DOMAIN y = EnvFields, y.input = x.input, y.at = x.at, y.held = x.held, y.fresh \subseteq x.fresh,
           \A p \in Resources : p \in y.fresh => Stored(p)' = Stored(p)
    PROVE  AskedHolds(y)'
<1>1. Placed(y)'
  BY DEF AskedHolds, Placed
<1>2. x.input.project \in Projects /\ (x.at = "change" => x.input.name \in Names)
  BY DEF AskedHolds, Placed, IsAsked
<1>3. <<"project", x.input.project>> \in Resources
  BY <1>2 DEF Resources
<1>4. x.at = "change" => <<"environment", x.input.name>> \in Resources
  BY <1>2 DEF Resources
<1>5. ASSUME NEW p \in Resources, Held(x, p) PROVE Held(y, p)'
  BY <1>5 DEF Held
<1>6. (x.at = "put" => Held(y, <<"project", x.input.project>>)')
  BY <1>3, <1>5 DEF AskedHolds
<1>7. (x.at = "change" => Held(y, <<"environment", x.input.name>>)')
  BY <1>4, <1>5 DEF AskedHolds
<1> QED
  BY <1>1, <1>6, <1>7 DEF AskedHolds

\* A step of a request that writes nothing.
LEMMA EnvBecomes ==
    ASSUME EnvInv, NEW r \in Requests, NEW x, Becomes(r, x), AskedHolds(x), UNCHANGED work,
           DOMAIN projects' = Projects, DOMAIN crs' = Names,
           \A p \in Resources : Stored(p)' = Stored(p)
    PROVE  EnvInv'
<1>1. DOMAIN req' = Requests /\ req'[r] = x /\ \A q \in Requests : q # r => req'[q] = req[q]
  BY DEF EnvInv, EnvFrames, Becomes
<1>2. EnvFrames'
  BY <1>1 DEF EnvInv, EnvFrames, Projects, Names, Controllers
<1>3. Shaped'
  <2>1. Resources' = Resources
    OBVIOUS
  <2> QED
    BY <2>1 DEF EnvInv, Shaped
<1>4. ASSUME NEW q \in Requests PROVE AskedHolds(req[q])'
  <2>1. PICK y : y = req'[q]
    OBVIOUS
  <2>2. AskedHolds(y) /\ DOMAIN y = EnvFields
    BY <1>1, <2>1 DEF EnvInv, RequestsHold, AskedHolds, Placed
  <2>3. AskedHolds(y)'
    BY <2>2, StillHolds
  <2> QED
    BY <2>1, <2>3 DEF AskedHolds, Held
<1>5. ASSUME NEW k \in Controllers PROVE LooksAt(k)'
  <2>1. LooksAt(k)
    BY DEF EnvInv
  <2> QED
    BY <2>1 DEF LooksAt
<1> QED
  BY <1>2, <1>3, <1>4, <1>5 DEF EnvInv, RequestsHold

\* A step of a request, or of the operator, that writes o, and nothing else.
LEMMA WrittenFrames ==
    ASSUME EnvInv, NEW o \in Resources,
           DOMAIN projects' = Projects, DOMAIN crs' = Names,
           \A p \in Resources : p # o => Stored(p)' = Stored(p),
           Stored(o)' = Absent \/ IsResource(o, Stored(o)'),
           DOMAIN req' = Requests, \A q \in Requests : AskedHolds(req[q])',
           DOMAIN work' = Controllers, \A k \in Controllers : LooksAt(k)'
    PROVE  EnvInv'
<1>1. EnvFrames'
  BY DEF EnvFrames, Projects, Names, Controllers
<1>2. ASSUME NEW p \in Resources PROVE (Stored(p) = Absent \/ IsResource(p, Stored(p)))'
  <2>1. CASE p = o
    BY <2>1
  <2>2. CASE p # o
    BY <2>2 DEF EnvInv, Shaped
  <2> QED
    BY <2>1, <2>2
<1>3. Shaped'
  <2>1. Resources' = Resources
    OBVIOUS
  <2> QED
    BY <1>2, <2>1 DEF Shaped
<1> QED
  BY <1>1, <1>3 DEF EnvInv, RequestsHold, Controllers

LEMMA EnvWrites ==
    ASSUME EnvInv, NEW r \in Requests, NEW x, NEW o \in Resources, Writes(r, x, o), Resting(x),
           DOMAIN projects' = Projects, DOMAIN crs' = Names,
           \A p \in Resources : p # o => Stored(p)' = Stored(p),
           Stored(o)' = Absent \/ IsResource(o, Stored(o)')
    PROVE  EnvInv'
<1>1. DOMAIN req' = Requests /\ \A q \in Requests :
         req'[q] = [(IF q = r THEN x ELSE req[q]) EXCEPT !.fresh = @ \ {o}]
  BY DEF Writes
<1>2. AskedHolds(x)
  BY DEF Resting, AskedHolds
<1>3. ASSUME NEW q \in Requests PROVE AskedHolds(req[q])'
  <2> DEFINE y == IF q = r THEN x ELSE req[q]
  <2>1. AskedHolds(y)
    BY <1>2 DEF EnvInv, RequestsHold
  <2>2. req'[q] = [y EXCEPT !.fresh = @ \ {o}]
    BY <1>1
  <2> HIDE DEF y
  <2>3. PICK z : z = req'[q]
    OBVIOUS
  <2>4. /\ DOMAIN z = EnvFields /\ z.input = y.input /\ z.at = y.at /\ z.held = y.held
        /\ z.fresh = y.fresh \ {o}
    BY <2>1, <2>2, <2>3 DEF AskedHolds, Placed, EnvFields
  <2>5. AskedHolds(z)'
    BY <2>1, <2>4, StillHolds
  <2> QED
    BY <2>3, <2>5 DEF AskedHolds, Held
<1>4. DOMAIN work' = Controllers /\ \A k \in Controllers :
         work'[k] = IF k = o[1] /\ work[k] # Absent
                    THEN [work[k] EXCEPT !.fresh = @ /\ work[k].name # o[2]] ELSE work[k]
  BY DEF Writes, Changed
<1>5. ASSUME NEW k \in Controllers PROVE LooksAt(k)'
  <2>0. LooksAt(k)
    BY DEF EnvInv
  <2>1. CASE work[k] = Absent
    BY <1>4, <2>1 DEF LooksAt
  <2>2. CASE work[k] # Absent /\ k = o[1]
    <3>1. work'[k] = [work[k] EXCEPT !.fresh = @ /\ work[k].name # o[2]]
      BY <1>4, <2>2
    <3>2. /\ DOMAIN work'[k] = {"name", "seen", "fresh", "at"}
          /\ work'[k].name = work[k].name /\ work'[k].seen = work[k].seen
          /\ work'[k].fresh = (work[k].fresh /\ work[k].name # o[2])
      BY <2>0, <2>2, <3>1 DEF LooksAt
    <3>3. work[k].name # o[2] => <<k, work[k].name>> # o
      OBVIOUS
    <3> QED
      BY <2>0, <2>2, <3>2, <3>3 DEF LooksAt
  <2>3. CASE work[k] # Absent /\ k # o[1]
    <3>1. work'[k] = work[k]
      BY <1>4, <2>3
    <3>2. <<k, work[k].name>> # o
      BY <2>3
    <3> QED
      BY <2>0, <2>3, <3>1, <3>2 DEF LooksAt
  <2> QED
    BY <2>1, <2>2, <2>3
<1> QED
  BY <1>1, <1>3, <1>4, <1>5, WrittenFrames

\* A step of the operator that writes nothing: it leaves off, goes on, or takes up an object.
LEMMA EnvOperates ==
    ASSUME EnvInv, UNCHANGED <<projects, crs, req>>, DOMAIN work' = Controllers,
           \A k \in Controllers : LooksAt(k)'
    PROVE  EnvInv'
<1>1. \A o : Stored(o)' = Stored(o)
  BY DEF Stored
<1>2. EnvFrames'
  BY DEF EnvInv, EnvFrames, Projects, Names, Controllers
<1>3. Shaped'
  <2>1. Resources' = Resources
    OBVIOUS
  <2> QED
    BY <1>1, <2>1 DEF EnvInv, Shaped
<1>4. ASSUME NEW q \in Requests PROVE AskedHolds(req[q])'
  <2>1. AskedHolds(req[q])
    BY DEF EnvInv, RequestsHold
  <2> QED
    BY <1>1, <2>1 DEF AskedHolds, Held
<1> QED
  BY <1>2, <1>3, <1>4 DEF EnvInv, RequestsHold, Controllers

LEMMA EnvTurns ==
    ASSUME EnvInv, NEW k \in Controllers, NEW place, UNCHANGED <<projects, crs, req>>,
           \/ work' = [work EXCEPT ![k] = Absent]
           \/ GoesOn(k, place) /\ work[k] # Absent
    PROVE  EnvInv'
<1>1. DOMAIN work = Controllers
  BY DEF EnvInv, EnvFrames
<1>2. DOMAIN work' = Controllers
  BY <1>1 DEF GoesOn
<1>3. \A o : Stored(o)' = Stored(o)
  BY DEF Stored
<1>4. ASSUME NEW j \in Controllers PROVE LooksAt(j)'
  <2>0. LooksAt(j)
    BY DEF EnvInv
  <2>1. CASE work'[j] = Absent
    BY <2>1 DEF LooksAt
  <2>2. CASE work'[j] = work[j]
    BY <1>3, <2>0, <2>2 DEF LooksAt
  <2>3. CASE work'[j] = [work[j] EXCEPT !.at = place] /\ work[j] # Absent
    <3>1. /\ DOMAIN work'[j] = {"name", "seen", "fresh", "at"} /\ work'[j].name = work[j].name
          /\ work'[j].seen = work[j].seen /\ work'[j].fresh = work[j].fresh
      BY <2>0, <2>3 DEF LooksAt
    <3> QED
      BY <1>3, <2>0, <2>3, <3>1 DEF LooksAt
  <2> QED
    BY <1>1, <2>1, <2>2, <2>3 DEF GoesOn
<1> QED
  BY <1>2, <1>4, EnvOperates

LEMMA EnvTakes == ASSUME EnvInv, NEW k \in Controllers, Take(k) PROVE EnvInv'
<1> DEFINE n == Head(queue[k])
<1>1. /\ UNCHANGED <<projects, crs, req>>
      /\ work' = [work EXCEPT ![k] = IF Stored(<<k, n>>) = Absent THEN Absent
                     ELSE [name |-> n, seen |-> Stored(<<k, n>>), fresh |-> TRUE, at |-> "label"]]
  BY DEF Take
<1> HIDE DEF n
<1>2. DOMAIN work = Controllers
  BY DEF EnvInv, EnvFrames
<1>3. DOMAIN work' = Controllers
  BY <1>1, <1>2
<1>4. \A o : Stored(o)' = Stored(o)
  BY <1>1 DEF Stored
<1>5. ASSUME NEW j \in Controllers PROVE LooksAt(j)'
  <2>1. CASE work'[j] = Absent
    BY <2>1 DEF LooksAt
  <2>2. CASE work'[j] = work[j]
    BY <1>4, <2>2 DEF LooksAt, EnvInv
  <2>3. CASE /\ j = k /\ Stored(<<k, n>>) # Absent
             /\ work'[j] = [name |-> n, seen |-> Stored(<<k, n>>), fresh |-> TRUE, at |-> "label"]
    <3>1. <<k, n>> \in Resources => IsResource(<<k, n>>, Stored(<<k, n>>))
      BY <2>3 DEF EnvInv, Shaped
    <3>2. /\ DOMAIN work'[j] = {"name", "seen", "fresh", "at"} /\ work'[j].name = n
          /\ work'[j].seen = Stored(<<k, n>>) /\ work'[j].fresh = TRUE
      BY <2>3
    <3> QED
      BY <1>4, <2>3, <3>1, <3>2 DEF LooksAt
  <2> QED
    BY <1>1, <1>2, <2>1, <2>2, <2>3
<1> QED
  BY <1>1, <1>3, <1>5, EnvOperates

LEMMA EnvRestarts == ASSUME EnvInv, OperatorRestarts PROVE EnvInv'
<1>1. UNCHANGED <<projects, crs, req>> /\ work' = [k \in Controllers |-> Absent]
  BY DEF OperatorRestarts
<1>2. DOMAIN work' = Controllers /\ \A k \in Controllers : LooksAt(k)'
  BY <1>1 DEF LooksAt
<1> QED
  BY <1>1, <1>2, EnvOperates

\* The operator writes x over what it has read of an object.
LEMMA EnvRewrites ==
    ASSUME EnvInv, NEW k \in Controllers, NEW x, NEW place, Rewrites(k, x, place), work[k] # Absent,
           work[k].fresh, <<k, work[k].name>> \in Resources => IsResource(<<k, work[k].name>>, x)
    PROVE  EnvInv'
<1>0. PICK n : n = work[k].name
  OBVIOUS
<1> DEFINE o == <<k, n>>
<1>1. Object(k) = o
  BY <1>0 DEF Object
<1>2. /\ DOMAIN projects = Projects /\ DOMAIN crs = Names /\ DOMAIN req = Requests
      /\ DOMAIN work = Controllers
  BY DEF EnvInv, EnvFrames
<1>3. /\ work' = [work EXCEPT ![k] = IF place = Absent THEN Absent ELSE [@ EXCEPT !.seen = x, !.at = place]]
      /\ req' = [q \in Requests |-> [req[q] EXCEPT !.fresh = @ \ {o}]]
  BY <1>1 DEF Rewrites
<1>4. DOMAIN projects' = Projects /\ DOMAIN crs' = Names
  BY <1>2 DEF Rewrites
<1>5. ASSUME NEW p \in Resources, p # o PROVE Stored(p)' = Stored(p)
  <2>1. CASE p[1] = "project"
    <3>1. p \in {"project"} \X Projects
      BY <2>1 DEF Resources
    <3>2. k = "project" => p[2] # n
      BY <1>5, <3>1
    <3> QED
      BY <1>0, <1>2, <2>1, <3>1, <3>2 DEF Rewrites, Stored
  <2>2. CASE p[1] # "project"
    <3>1. p \in {"environment"} \X Names
      BY <2>2 DEF Resources
    <3>2. k # "project" => p[2] # n
      BY <1>5, <3>1 DEF Controllers
    <3> QED
      BY <1>0, <1>2, <2>2, <3>1, <3>2 DEF Rewrites, Stored
  <2> QED
    BY <2>1, <2>2
<1>6. o \in Resources => Stored(o)' = x
  <2>1. ASSUME o \in Resources
        PROVE  IF k = "project" THEN n \in Projects ELSE n \in Names
    BY <2>1 DEF Resources
  <2> QED
    BY <1>0, <1>2, <2>1 DEF Rewrites, Stored
<1> HIDE DEF o
<1>7. ASSUME NEW q \in Requests PROVE AskedHolds(req[q])'
  <2> DEFINE y == req[q]
  <2>1. AskedHolds(y)
    BY DEF EnvInv, RequestsHold
  <2>2. req'[q] = [y EXCEPT !.fresh = @ \ {o}]
    BY <1>3
  <2> HIDE DEF y
  <2>3. PICK z : z = req'[q]
    OBVIOUS
  <2>4. /\ DOMAIN z = EnvFields /\ z.input = y.input /\ z.at = y.at /\ z.held = y.held
        /\ z.fresh = y.fresh \ {o}
    BY <2>1, <2>2, <2>3 DEF AskedHolds, Placed, EnvFields
  <2>5. AskedHolds(z)'
    BY <1>5, <2>1, <2>4, StillHolds
  <2> QED
    BY <2>3, <2>5 DEF AskedHolds, Held
<1>8. DOMAIN work' = Controllers
  BY <1>2, <1>3
<1>9. ASSUME NEW j \in Controllers PROVE LooksAt(j)'
  <2>1. CASE work'[j] = Absent
    BY <2>1 DEF LooksAt
  <2>2. CASE j # k /\ work'[j] = work[j]
    <3>1. <<j, work[j].name>> # o
      BY <1>0, <2>2 DEF o
    <3> QED
      BY <1>5, <2>2, <3>1 DEF LooksAt, EnvInv
  <2>3. CASE j = k /\ work'[j] = [work[j] EXCEPT !.seen = x, !.at = place]
    <3>1. /\ DOMAIN work'[j] = {"name", "seen", "fresh", "at"} /\ work'[j].name = work[j].name
          /\ work'[j].seen = x /\ work'[j].fresh = work[j].fresh /\ work[j].fresh \in BOOLEAN
      BY <2>3 DEF LooksAt, EnvInv
    <3> QED
      BY <1>0, <1>6, <2>3, <3>1 DEF LooksAt, o
  <2> QED
    BY <1>2, <1>3, <2>1, <2>2, <2>3
<1>10. CASE o \in Resources
  <2>1. Stored(o)' = Absent \/ IsResource(o, Stored(o)')
    BY <1>0, <1>6, <1>10 DEF o
  <2>2. DOMAIN req' = Requests
    BY <1>3
  <2> QED
    BY <1>4, <1>5, <1>7, <1>8, <1>9, <1>10, <2>1, <2>2, WrittenFrames
<1>11. CASE o \notin Resources
  <2>1. \A p \in Resources : p # o
    BY <1>11
  <2>2. DOMAIN req' = Requests
    BY <1>3
  <2>3. \A p \in Resources : Stored(p)' = Stored(p)
    BY <1>5, <2>1
  <2>4. EnvFrames'
    BY <1>4, <1>8, <2>2 DEF EnvFrames, Projects, Names, Controllers
  <2>5. Shaped'
    <3>1. Resources' = Resources
      OBVIOUS
    <3> QED
      BY <2>3, <3>1 DEF EnvInv, Shaped
  <2> QED
    BY <1>7, <1>9, <2>4, <2>5 DEF EnvInv, RequestsHold, Controllers
<1> QED
  BY <1>10, <1>11

\* A request that has ended, or goes on after its write, holds nothing it could write.
LEMMA EnvRests ==
    ASSUME EnvInv, NEW r \in Requests
    PROVE  /\ Placed(req[r])
           /\ \A ok : Resting(Ended(r, ok))
           /\ req[r].at = "put" => Resting(AfterPut(r))
           /\ TheProject(r) \in Resources /\ req[r].input.project \in Projects
<1> DEFINE y == req[r]
<1>1. AskedHolds(y)
  BY DEF EnvInv, RequestsHold
<1>2. DOMAIN y = EnvFields /\ Placed(y)
  BY <1>1 DEF AskedHolds, Placed
<1> HIDE DEF y
<1>3. ASSUME NEW ok PROVE Resting(Ended(r, ok))
  <2> DEFINE z == Ended(r, ok)
  <2>1. z = [y EXCEPT !.at = "done", !.held = Absent, !.todo = <<>>, !.fresh = {}, !.ok = ok]
    BY DEF Ended, y
  <2> HIDE DEF z
  <2>2. DOMAIN z = EnvFields /\ z.at = "done" /\ z.input = y.input
    BY <1>2, <2>1 DEF EnvFields
  <2> QED
    BY <1>2, <2>2 DEF Placed, Resting, z
<1>4. ASSUME y.at = "put" PROVE Resting(AfterPut(r))
  <2> DEFINE z == AfterPut(r)
             edit == y.input.op
  <2>1. edit \in {"updateProject", "create", "clone", "update", "delete"}
    BY <1>2, <1>4 DEF Placed, Edits
  <2>2. In(r).op = edit
    BY DEF In, y
  <2> HIDE DEF z, edit
  <2>3. ASSUME edit = "updateProject" PROVE Resting(z)
    BY <1>3, <2>2, <2>3 DEF AfterPut, z
  <2>4. ASSUME DOMAIN z = EnvFields, z.input = y.input, z.at \notin {"get", "put", "change", "new"},
               z.at \in {"make", "find"} => edit \in {"create", "update"}, z.at = "drop" => edit = "delete"
        PROVE  Resting(z)
    BY <1>2, <2>4 DEF Placed, Resting, edit
  <2>5. ASSUME edit = "create" PROVE Resting(z)
    <3>1. z = [y EXCEPT !.at = "make", !.held = Absent]
      BY <2>2, <2>5 DEF AfterPut, z, y
    <3>2. DOMAIN z = EnvFields /\ z.input = y.input /\ z.at = "make"
      BY <1>2, <3>1 DEF EnvFields
    <3> QED
      BY <2>4, <2>5, <3>2
  <2>6. ASSUME edit = "update" PROVE Resting(z)
    <3>1. z = [y EXCEPT !.at = "find", !.held = Absent]
      BY <2>2, <2>6 DEF AfterPut, z, y
    <3>2. DOMAIN z = EnvFields /\ z.input = y.input /\ z.at = "find"
      BY <1>2, <3>1 DEF EnvFields
    <3> QED
      BY <2>4, <2>6, <3>2
  <2>7. ASSUME edit = "delete" PROVE Resting(z)
    <3>1. z = [y EXCEPT !.at = "drop", !.held = Absent]
      BY <2>2, <2>7 DEF AfterPut, z, y
    <3>2. DOMAIN z = EnvFields /\ z.input = y.input /\ z.at = "drop"
      BY <1>2, <3>1 DEF EnvFields
    <3> QED
      BY <2>4, <2>7, <3>2
  <2>8. ASSUME edit = "clone" PROVE Resting(z)
    <3>1. z = [y EXCEPT !.at = "list", !.held = Absent]
      BY <2>2, <2>8 DEF AfterPut, z, y
    <3>2. DOMAIN z = EnvFields /\ z.input = y.input /\ z.at = "list"
      BY <1>2, <3>1 DEF EnvFields
    <3> QED
      BY <2>4, <2>8, <3>2
  <2> QED
    BY <2>1, <2>3, <2>5, <2>6, <2>7, <2>8 DEF z
<1>5. TheProject(r) \in Resources /\ y.input.project \in Projects
  BY <1>2 DEF TheProject, In, Resources, Placed, IsAsked, y
<1> QED
  BY <1>2, <1>3, <1>4, <1>5 DEF y

LEMMA ProjectWritten ==
    ASSUME EnvInv, NEW r \in Requests, NEW x, NEW p \in Projects, NEW new,
           Writes(r, x, <<"project", p>>), Resting(x), UNCHANGED crs,
           projects' = [projects EXCEPT ![p] = new], new = Absent \/ IsProject(new)
    PROVE  EnvInv'
<1> DEFINE o == <<"project", p>>
<1>1. o \in Resources
  BY DEF Resources
<1>2. DOMAIN projects = Projects /\ DOMAIN crs = Names
  BY DEF EnvInv, EnvFrames
<1>3. DOMAIN projects' = Projects /\ DOMAIN crs' = Names
  BY <1>2
<1>4. ASSUME NEW q \in Resources, q # o PROVE Stored(q)' = Stored(q)
  <2>1. CASE q[1] = "project"
    <3>1. q \in {"project"} \X Projects
      BY <2>1 DEF Resources
    <3>2. q[2] # p
      BY <1>4, <3>1
    <3> QED
      BY <1>2, <3>1, <3>2 DEF Stored
  <2>2. CASE q[1] # "project"
    BY <2>2 DEF Stored
  <2> QED
    BY <2>1, <2>2
<1>5. Stored(o)' = Absent \/ IsResource(o, Stored(o)')
  BY <1>2 DEF Stored, IsResource
<1> HIDE DEF o
<1> QED
  BY <1>1, <1>3, <1>4, <1>5, EnvWrites DEF o

LEMMA ObjectWritten ==
    ASSUME EnvInv, NEW r \in Requests, NEW x, NEW n \in Names, NEW new,
           Writes(r, x, <<"environment", n>>), Resting(x), UNCHANGED projects,
           crs' = [crs EXCEPT ![n] = new], new = Absent \/ IsEnvironment(new)
    PROVE  EnvInv'
<1> DEFINE o == <<"environment", n>>
<1>1. o \in Resources
  BY DEF Resources
<1>2. DOMAIN projects = Projects /\ DOMAIN crs = Names
  BY DEF EnvInv, EnvFrames
<1>3. DOMAIN projects' = Projects /\ DOMAIN crs' = Names
  BY <1>2
<1>4. ASSUME NEW q \in Resources, q # o PROVE Stored(q)' = Stored(q)
  <2>1. CASE q[1] # "project"
    <3>1. q \in {"environment"} \X Names
      BY <2>1 DEF Resources
    <3>2. q[2] # n
      BY <1>4, <3>1
    <3> QED
      BY <1>2, <3>1, <3>2 DEF Stored
  <2>2. CASE q[1] = "project"
    BY <2>2 DEF Stored
  <2> QED
    BY <2>1, <2>2
<1>5. Stored(o)' = Absent \/ IsResource(o, Stored(o)')
  BY <1>2 DEF Stored, IsResource
<1> HIDE DEF o
<1> QED
  BY <1>1, <1>3, <1>4, <1>5, EnvWrites DEF o

\* A step of a request that reads.
LEMMA EnvReads ==
    ASSUME EnvInv, NEW r \in Requests, NEW x, Becomes(r, x), AskedHolds(x),
           UNCHANGED <<projects, crs, work>>
    PROVE  EnvInv'
<1>1. DOMAIN projects' = Projects /\ DOMAIN crs' = Names
  BY DEF EnvInv, EnvFrames
<1>2. \A p \in Resources : Stored(p)' = Stored(p)
  BY DEF Stored
<1> QED
  BY <1>1, <1>2, EnvBecomes

\* A step of a request that only goes on.
LEMMA EnvGoesOn ==
    ASSUME EnvInv, NEW r \in Requests, NEW x, Becomes(r, x), Resting(x),
           UNCHANGED <<projects, crs, work>>
    PROVE  EnvInv'
<1>1. AskedHolds(x)
  BY DEF Resting, AskedHolds
<1> QED
  BY <1>1, EnvReads

LEMMA EnvBegins == ASSUME EnvInv, NEW r \in Requests, Begin(r) PROVE EnvInv'
<1> DEFINE y    == req[r]
           edit == y.input.op
           place == CASE edit = "createProject" -> "new"
                      [] edit = "deleteProject" -> "end"
                      [] OTHER                -> "get"
           x == [y EXCEPT !.at = place]
<1>1. Becomes(r, x) /\ UNCHANGED <<projects, crs, work>>
  BY DEF Begin, In
<1>2. Placed(y)
  BY EnvRests
<1>3. edit \in Edits \cup {"createProject", "deleteProject"}
  BY <1>2 DEF Placed, IsAsked
<1>4. \/ place = "new" /\ edit = "createProject"
      \/ place = "end"
      \/ place = "get" /\ edit \in Edits
  BY <1>3
<1> HIDE DEF place, y
<1>5. DOMAIN x = EnvFields /\ x.at = place /\ x.input = y.input
  BY <1>2 DEF Placed, EnvFields
<1> HIDE DEF x
<1>6. Resting(x)
  BY <1>2, <1>4, <1>5 DEF Resting, Placed
<1> QED
  BY <1>1, <1>6, EnvGoesOn

LEMMA EnvCreatesProject == ASSUME EnvInv, NEW r \in Requests, CreateProject(r) PROVE EnvInv'
<1> DEFINE new == [envs |-> <<>>, team |-> In(r).team, own |-> FALSE, label |-> Absent, count |-> 0]
           p   == req[r].input.project
<1>1. In(r).project = p /\ TheProject(r) = <<"project", p>>
  BY DEF In, TheProject
<1>2. p \in Projects /\ Resting(Ended(r, TRUE)) /\ Resting(Ended(r, FALSE))
  BY EnvRests
<1>3. Reached(r, "new") => IsProject(new)
  <2> SUFFICES ASSUME Reached(r, "new") PROVE IsProject(new)
    OBVIOUS
  <2>1. Placed(req[r]) /\ req[r].at = "new"
    BY EnvRests DEF Reached
  <2>2. In(r).team \in Teams \cup {Absent}
    BY <2>1 DEF Placed, IsAsked, In
  <2>3. 0 \in 0..Cardinality(Names)
    BY NamesAreFinite
  <2> DEFINE S == Seq(Entry)
  <2>4. <<>> \in S /\ DOMAIN <<>> = {}
    OBVIOUS
  <2>5. VestaProject = [envs : S, team : Teams \cup {Absent}, own : BOOLEAN,
                        label : Teams \cup {Absent}, count : 0..Cardinality(Names)]
    BY DEF VestaProject
  <2> HIDE DEF S
  <2>6. new \in VestaProject /\ new.envs = <<>>
    BY <2>2, <2>3, <2>4, <2>5
  <2> QED
    BY <2>6 DEF IsProject
<1>4. /\ UNCHANGED crs
      /\ \/ projects' = [projects EXCEPT ![p] = new] /\ Writes(r, Ended(r, TRUE), <<"project", p>>)
         \/ Becomes(r, Ended(r, FALSE)) /\ UNCHANGED <<projects, work>>
  BY <1>1 DEF CreateProject
<1>5. Reached(r, "new")
  BY DEF CreateProject
<1> HIDE DEF new, p
<1> QED
  BY <1>2, <1>3, <1>4, <1>5, ProjectWritten, EnvGoesOn

LEMMA EnvDeletesProject == ASSUME EnvInv, NEW r \in Requests, DeleteProject(r) PROVE EnvInv'
<1> DEFINE p == req[r].input.project
<1>1. In(r).project = p /\ TheProject(r) = <<"project", p>>
  BY DEF In, TheProject
<1>2. p \in Projects /\ Resting(Ended(r, TRUE)) /\ Resting(Ended(r, FALSE))
  BY EnvRests
<1>3. /\ UNCHANGED crs
      /\ \/ projects' = [projects EXCEPT ![p] = Absent] /\ Writes(r, Ended(r, TRUE), <<"project", p>>)
         \/ Becomes(r, Ended(r, FALSE)) /\ UNCHANGED <<projects, work>>
  BY <1>1 DEF DeleteProject
<1> HIDE DEF p
<1> QED
  BY <1>2, <1>3, ProjectWritten, EnvGoesOn

LEMMA EnvGetsProject == ASSUME EnvInv, NEW r \in Requests, GetProject(r) PROVE EnvInv'
<1> DEFINE y == req[r]
           o == <<"project", y.input.project>>
           p == projects[y.input.project]
           x == [y EXCEPT !.at = "put", !.held = p, !.fresh = {o}]
<1>1. /\ UNCHANGED <<projects, crs, work>> /\ y.at = "get"
      /\ Becomes(r, IF p = Absent THEN Ended(r, FALSE)
                        ELSE IF Refused(r, p.envs) THEN Ended(r, FALSE) ELSE x)
  BY DEF GetProject, In, TheProject, Reached
<1>2. Placed(y) /\ y.input.project \in Projects /\ Resting(Ended(r, FALSE))
  BY EnvRests
<1>3. y.input.op \in Edits
  BY <1>1, <1>2 DEF Placed
<1>4. CASE p = Absent \/ Refused(r, p.envs)
  <2>1. Becomes(r, Ended(r, FALSE))
    BY <1>1, <1>4
  <2> QED
    BY <1>1, <1>2, <2>1, EnvGoesOn
<1>5. CASE p # Absent /\ ~Refused(r, p.envs)
  <2>1. Becomes(r, x)
    BY <1>1, <1>5
  <2>2. ~Declined(y.input, p.envs)
    BY <1>3, <1>5, DeclinedIs
  <2>3. o \in Resources /\ Stored(o) = p
    BY <1>2 DEF Resources, Stored
  <2>4. IsResource(o, p)
    BY <1>5, <2>3 DEF EnvInv, Shaped
  <2> HIDE DEF y, p
  <2>5. DOMAIN x = EnvFields /\ x.at = "put" /\ x.input = y.input /\ x.held = p
    BY <1>2 DEF Placed, EnvFields
  <2> HIDE DEF x
  <2>6. AskedHolds(x)
    BY <1>2, <1>3, <2>2, <2>3, <2>4, <2>5 DEF AskedHolds, Placed, Held
  <2> QED
    BY <1>1, <2>1, <2>6, EnvReads
<1> QED
  BY <1>4, <1>5

\* What a request writes of its project is what it has made of the project as it is stored.
LEMMA PutReads ==
    ASSUME EnvInv, NEW r \in Requests, Reached(r, "put"), Accepted(r, TheProject(r))
    PROVE  /\ req[r].held = projects[req[r].input.project]
           /\ IsProject(req[r].held)
           /\ IsAsked(req[r].input) /\ req[r].input.op \in Edits
           /\ ~Refused(r, req[r].held.envs)
<1> DEFINE y == req[r]
           o == <<"project", y.input.project>>
<1>1. y.at = "put" /\ o \in y.fresh
  BY DEF Reached, Accepted, TheProject, In
<1>2. AskedHolds(y)
  BY DEF EnvInv, RequestsHold
<1>3. Placed(y) /\ y.input.op \in Edits /\ IsAsked(y.input)
  BY <1>1, <1>2 DEF AskedHolds, Placed
<1>4. Held(y, o) /\ ~Declined(y.input, y.held.envs)
  BY <1>1, <1>2 DEF AskedHolds
<1>5. y.held = projects[y.input.project] /\ IsProject(y.held)
  BY <1>1, <1>4 DEF Held, IsResource, Stored
<1>6. ~Refused(r, y.held.envs)
  BY <1>3, <1>4, DeclinedIs
<1> QED
  BY <1>3, <1>5, <1>6

LEMMA EnvPutsProject == ASSUME EnvInv, NEW r \in Requests, PutProject(r) PROVE EnvInv'
<1> DEFINE p   == req[r].input.project
           new == NewSpec(r)
           x   == AfterPut(r)
<1>1. In(r).project = p /\ TheProject(r) = <<"project", p>> /\ Reached(r, "put")
  BY DEF In, TheProject, PutProject
<1>2. p \in Projects /\ Resting(x) /\ Resting(Ended(r, FALSE))
  BY <1>1, EnvRests DEF Reached
<1>3. /\ UNCHANGED crs
      /\ \/ /\ Accepted(r, <<"project", p>>)
            /\ projects' = [projects EXCEPT ![p] = new]
            /\ \/ new = projects[p] /\ Becomes(r, x) /\ UNCHANGED work
               \/ Writes(r, x, <<"project", p>>)
         \/ Becomes(r, Ended(r, FALSE)) /\ UNCHANGED <<projects, work>>
  BY <1>1 DEF PutProject
<1>4. Accepted(r, <<"project", p>>) => IsProject(new)
  BY <1>1, PutReads, NewSpecIs DEF In
<1>5. DOMAIN projects = Projects
  BY DEF EnvInv, EnvFrames
<1> HIDE DEF p, new, x
<1>6. CASE Accepted(r, <<"project", p>>) /\ projects' = [projects EXCEPT ![p] = new]
           /\ new = projects[p] /\ Becomes(r, x) /\ UNCHANGED work
  <2>1. \A q \in Resources : Stored(q)' = Stored(q)
    BY <1>3, <1>5, <1>6 DEF Stored, Resources
  <2>2. DOMAIN projects' = Projects /\ DOMAIN crs' = Names
    BY <1>3, <1>5, <1>6 DEF EnvInv, EnvFrames
  <2>3. AskedHolds(x)
    BY <1>2 DEF Resting, AskedHolds
  <2> QED
    BY <1>6, <2>1, <2>2, <2>3, EnvBecomes
<1>7. CASE Accepted(r, <<"project", p>>) /\ projects' = [projects EXCEPT ![p] = new]
           /\ Writes(r, x, <<"project", p>>)
  BY <1>2, <1>3, <1>4, <1>7, ProjectWritten
<1>8. CASE Becomes(r, Ended(r, FALSE)) /\ UNCHANGED <<projects, work>>
  BY <1>2, <1>3, <1>8, EnvGoesOn
<1> QED
  BY <1>3, <1>6, <1>7, <1>8

LEMMA EnvCreatesCR == ASSUME EnvInv, NEW r \in Requests, CreateCR(r) PROVE EnvInv'
<1> DEFINE y   == req[r]
           n   == y.input.name
           x0  == [project |-> In(r).project, branch |-> Absent, auto |-> FALSE,
                   label |-> In(r).project, count |-> 0]
           new == Set(x0, In(r).change)
<1>1. In(r).name = n /\ TheCR(r) = <<"environment", n>> /\ y.at = "make"
  BY DEF In, TheCR, CreateCR, Reached
<1>2. Placed(y) /\ Resting(Ended(r, TRUE))
  BY EnvRests
<1>3. n \in Names /\ In(r).project \in Projects /\ IsChange(In(r).change)
  BY <1>1, <1>2 DEF Placed, IsAsked, In
<1>4. IsEnvironment(new)
  <2>1. 0 \in 0..Cardinality(Apps)
    BY NamesAreFinite
  <2>2. x0 \in VestaEnvironment
    BY <1>3, <2>1 DEF VestaEnvironment
  <2> HIDE DEF x0
  <2> QED
    BY <1>3, <2>2, EnvironmentIs DEF IsEnvironment
<1>5. /\ UNCHANGED projects
      /\ \/ crs' = [crs EXCEPT ![n] = new] /\ Writes(r, Ended(r, TRUE), <<"environment", n>>)
         \/ Becomes(r, Ended(r, TRUE)) /\ UNCHANGED <<crs, work>>
  BY <1>1 DEF CreateCR
<1> HIDE DEF n, new
<1> QED
  BY <1>2, <1>3, <1>4, <1>5, ObjectWritten, EnvGoesOn

LEMMA EnvDeletesCR == ASSUME EnvInv, NEW r \in Requests, DeleteCR(r) PROVE EnvInv'
<1> DEFINE n == req[r].input.name
<1>1. In(r).name = n /\ TheCR(r) = <<"environment", n>>
  BY DEF In, TheCR
<1>2. Placed(req[r]) /\ Resting(Ended(r, TRUE))
  BY EnvRests
<1>3. n \in Names
  BY <1>2 DEF Placed, IsAsked, DeleteCR, Reached
<1>4. /\ UNCHANGED projects
      /\ \/ crs' = [crs EXCEPT ![n] = Absent] /\ Writes(r, Ended(r, TRUE), <<"environment", n>>)
         \/ Becomes(r, Ended(r, TRUE)) /\ UNCHANGED <<crs, work>>
  BY <1>1 DEF DeleteCR
<1> HIDE DEF n
<1> QED
  BY <1>2, <1>3, <1>4, ObjectWritten, EnvGoesOn

LEMMA EnvGetsCR == ASSUME EnvInv, NEW r \in Requests, GetCR(r) PROVE EnvInv'
<1> DEFINE y == req[r]
           n == y.input.name
           o == <<"environment", n>>
           c == crs[n]
           m == [y EXCEPT !.at = "make"]
           x == [y EXCEPT !.at = "change", !.held = c, !.fresh = {o}]
<1>1. /\ UNCHANGED <<projects, crs, work>> /\ y.at = "find"
      /\ \/ c = Absent /\ Becomes(r, m)
         \/ c # Absent /\ Becomes(r, x)
  BY DEF GetCR, In, TheCR, Reached
<1>2. Placed(y)
  BY EnvRests
<1>3. y.input.op \in {"create", "update"} /\ n \in Names
  BY <1>1, <1>2 DEF Placed, IsAsked
<1>4. o \in Resources /\ Stored(o) = c
  BY <1>3 DEF Resources, Stored
<1>5. c # Absent => IsResource(o, c)
  BY <1>4 DEF EnvInv, Shaped
<1> HIDE DEF y, c
<1>6. DOMAIN m = EnvFields /\ m.at = "make" /\ m.input = y.input
  BY <1>2 DEF Placed, EnvFields
<1>7. DOMAIN x = EnvFields /\ x.at = "change" /\ x.input = y.input /\ x.held = c
  BY <1>2 DEF Placed, EnvFields
<1> HIDE DEF x, m
<1>8. Resting(m)
  BY <1>2, <1>3, <1>6 DEF Placed, Resting
<1>9. c # Absent => AskedHolds(x)
  BY <1>2, <1>3, <1>4, <1>5, <1>7 DEF Placed, AskedHolds, Held
<1> QED
  BY <1>1, <1>8, <1>9, EnvReads, EnvGoesOn

\* What a request writes of a VestaEnvironment is the one that is stored, changed.
LEMMA ChangeReads ==
    ASSUME EnvInv, NEW r \in Requests, Reached(r, "change")
    PROVE  /\ IsChange(req[r].input.change) /\ req[r].input.name \in Names
           /\ Accepted(r, TheCR(r)) =>
                 req[r].held = crs[req[r].input.name] /\ IsEnvironment(req[r].held)
<1> DEFINE y == req[r]
           o == <<"environment", y.input.name>>
<1>1. y.at = "change" /\ (Accepted(r, TheCR(r)) => o \in y.fresh)
  BY DEF Reached, Accepted, TheCR, In
<1>2. AskedHolds(y)
  BY DEF EnvInv, RequestsHold
<1>3. IsChange(y.input.change) /\ y.input.name \in Names
  BY <1>1, <1>2 DEF AskedHolds, Placed, IsAsked
<1>4. Held(y, o)
  BY <1>1, <1>2 DEF AskedHolds
<1>5. o \in y.fresh => y.held = crs[y.input.name] /\ IsEnvironment(y.held)
  BY <1>4 DEF Held, IsResource, Stored
<1> QED
  BY <1>1, <1>3, <1>5

LEMMA EnvPutsCR == ASSUME EnvInv, NEW r \in Requests, PutCR(r) PROVE EnvInv'
<1> DEFINE n   == req[r].input.name
           new == Set(req[r].held, In(r).change)
           x   == Ended(r, TRUE)
           o   == <<"environment", n>>
<1>1. In(r).name = n /\ TheCR(r) = o /\ Reached(r, "change")
  BY DEF In, TheCR, PutCR
<1>2. n \in Names /\ Resting(x)
  BY <1>1, ChangeReads, EnvRests
<1>3. /\ UNCHANGED projects
      /\ \/ /\ Accepted(r, o)
            /\ crs' = [crs EXCEPT ![n] = new]
            /\ \/ new = crs[n] /\ Becomes(r, x) /\ UNCHANGED work
               \/ Writes(r, x, o)
         \/ Becomes(r, x) /\ UNCHANGED <<crs, work>>
  BY <1>1 DEF PutCR
<1>4. Accepted(r, o) => IsEnvironment(new)
  BY <1>1, ChangeReads, EnvironmentIs DEF IsEnvironment, In
<1>5. DOMAIN crs = Names
  BY DEF EnvInv, EnvFrames
<1> HIDE DEF n, new, x
<1>6. CASE crs' = [crs EXCEPT ![n] = new] /\ new = crs[n] /\ Becomes(r, x) /\ UNCHANGED work
  <2>1. \A q \in Resources : Stored(q)' = Stored(q)
    BY <1>3, <1>5, <1>6 DEF Stored, Resources
  <2>2. DOMAIN projects' = Projects /\ DOMAIN crs' = Names
    BY <1>3, <1>5, <1>6 DEF EnvInv, EnvFrames
  <2>3. AskedHolds(x)
    BY <1>2 DEF Resting, AskedHolds
  <2> QED
    BY <1>6, <2>1, <2>2, <2>3, EnvBecomes
<1>7. CASE Accepted(r, o) /\ crs' = [crs EXCEPT ![n] = new] /\ Writes(r, x, o)
  BY <1>2, <1>3, <1>4, <1>7, ObjectWritten
<1>8. CASE Becomes(r, x) /\ UNCHANGED <<crs, work>>
  BY <1>2, <1>3, <1>8, EnvGoesOn
<1> QED
  BY <1>3, <1>6, <1>7, <1>8

LEMMA EnvListsApps == ASSUME EnvInv, NEW r \in Requests, ListApps(r) PROVE EnvInv'
<1> DEFINE y == req[r]
<1>1. UNCHANGED <<projects, crs, work>>
  BY DEF ListApps
<1>2. PICK found : Becomes(r, IF found = <<>> THEN Ended(r, TRUE)
                                  ELSE [y EXCEPT !.at = "patch", !.todo = found, !.held = apps])
  BY DEF ListApps
<1> DEFINE x == [y EXCEPT !.at = "patch", !.todo = found, !.held = apps]
<1>3. Placed(y) /\ Resting(Ended(r, TRUE))
  BY EnvRests
<1> HIDE DEF y
<1>4. DOMAIN x = EnvFields /\ x.at = "patch" /\ x.input = y.input
  BY <1>3 DEF Placed, EnvFields
<1>5. Becomes(r, Ended(r, TRUE)) \/ Becomes(r, x)
  BY <1>2
<1> HIDE DEF x
<1>6. Resting(x)
  BY <1>3, <1>4 DEF Placed, Resting
<1> QED
  BY <1>1, <1>3, <1>5, <1>6, EnvGoesOn

LEMMA EnvPatchesApp == ASSUME EnvInv, NEW r \in Requests, PatchApp(r) PROVE EnvInv'
<1> DEFINE y    == req[r]
           rest == Tail(y.todo)
           x    == [y EXCEPT !.todo = rest]
<1>1. UNCHANGED <<projects, crs, work>> /\ y.at = "patch"
  BY DEF PatchApp, Reached
<1>2. Becomes(r, Ended(r, TRUE)) \/ Becomes(r, x)
  BY DEF PatchApp
<1>3. Placed(y) /\ Resting(Ended(r, TRUE))
  BY EnvRests
<1> HIDE DEF y, rest
<1>4. DOMAIN x = EnvFields /\ x.at = y.at /\ x.input = y.input
  BY <1>3 DEF Placed, EnvFields
<1> HIDE DEF x
<1>6. Resting(x)
  BY <1>1, <1>3, <1>4 DEF Placed, Resting
<1> QED
  BY <1>1, <1>2, <1>3, <1>6, EnvGoesOn

\* What the operator counts: environments, or applications.
Counts(k) == IF k = "project" THEN 0..Cardinality(Names) ELSE 0..Cardinality(Apps)

LEMMA CountedIs == ASSUME NEW k \in Controllers, NEW x PROVE Counted(k, x) \in Counts(k)
<1> DEFINE A == {n \in Names : crs[n] # Absent /\ crs[n].label = work[k].name}
           B == {a \in Apps : Home[a] = x.project /\ (apps[a] = <<>> \/ HasEnv(apps[a], work[k].name))}
<1>1. A \subseteq Names /\ B \subseteq Apps
  OBVIOUS
<1>2. Counted(k, x) = IF k = "project" THEN Cardinality(A) ELSE Cardinality(B)
  BY DEF Counted
<1> HIDE DEF A, B
<1>3. Cardinality(A) <= Cardinality(Names) /\ Cardinality(B) <= Cardinality(Apps)
  BY <1>1, NamesAreFinite, FS_Subset
<1>4. Cardinality(A) \in Nat /\ Cardinality(B) \in Nat
  BY <1>1, NamesAreFinite, FS_Subset, FS_CardinalityType
<1> QED
  BY <1>2, <1>3, <1>4, NamesAreFinite DEF Counts

\* What the operator writes of an object: its labels and its count, and nothing else.
LEMMA OperatorWrites ==
    ASSUME NEW k \in Controllers, NEW n, NEW x, IsResource(<<k, n>>, x), NEW y,
           y = Labelled(k, x) \/ \E c \in Counts(k) : y = [x EXCEPT !.count = c]
    PROVE  /\ IsResource(<<k, n>>, y)
           /\ k = "project" => y.envs = x.envs /\ y.team = x.team
           /\ k # "project" => y.project = x.project /\ y.branch = x.branch /\ y.auto = x.auto
<1>1. CASE k = "project"
  <2>1. x \in VestaProject /\ DOMAIN x = {"envs", "team", "own", "label", "count"} /\ IsProject(x)
    BY <1>1, ProjectIs DEF IsResource, IsProject
  <2>2. y.envs = x.envs /\ y.team = x.team
    BY <1>1, <2>1 DEF Labelled
  <2>3. y \in VestaProject
    BY <1>1, <2>1, ProjectIs DEF Counts
  <2> QED
    BY <1>1, <2>1, <2>2, <2>3 DEF IsResource, IsProject
<1>2. CASE k # "project"
  <2>1. x \in VestaEnvironment /\ DOMAIN x = {"project", "branch", "auto", "label", "count"}
    BY <1>2, EnvironmentIs DEF IsResource, IsEnvironment
  <2>2. y.project = x.project /\ y.branch = x.branch /\ y.auto = x.auto
    BY <1>2, <2>1 DEF Labelled
  <2>3. y \in VestaEnvironment
    BY <1>2, <2>1, EnvironmentIs DEF Counts, Controllers
  <2> QED
    BY <1>2, <2>2, <2>3 DEF IsResource, IsEnvironment
<1> QED
  BY <1>1, <1>2

\* Every step of the operator writes nothing, or one object so, as it is stored.
LEMMA OperatorTurns ==
    ASSUME EnvInv, NEW k \in Controllers, Label(k) \/ Status(k) \/ OperatorFails(k)
    PROVE  \/ \E place : /\ UNCHANGED <<projects, crs, req>>
                         /\ work' = [work EXCEPT ![k] = Absent] \/ (GoesOn(k, place) /\ work[k] # Absent)
           \/ \E place, y : /\ Rewrites(k, y, place) /\ work[k] # Absent /\ work[k].fresh
                            /\ \/ y = Labelled(k, work[k].seen)
                               \/ \E c \in Counts(k) : y = [work[k].seen EXCEPT !.count = c]
<1>1. CASE Label(k)
  BY <1>1 DEF Label, Working, Again
<1>2. CASE Status(k)
  BY <1>2, CountedIs DEF Status, Working, Again
<1>3. CASE OperatorFails(k)
  BY <1>3 DEF OperatorFails, Again
<1> QED
  BY <1>1, <1>2, <1>3

LEMMA OperatorKeeps ==
    ASSUME EnvInv, NEW k \in Controllers, Label(k) \/ Status(k) \/ OperatorFails(k)
    PROVE  EnvInv'
<1>1. CASE \E place : /\ UNCHANGED <<projects, crs, req>>
                      /\ work' = [work EXCEPT ![k] = Absent] \/ (GoesOn(k, place) /\ work[k] # Absent)
  BY <1>1, EnvTurns
<1>2. ASSUME NEW place, NEW y, Rewrites(k, y, place), work[k] # Absent, work[k].fresh,
             y = Labelled(k, work[k].seen) \/ \E c \in Counts(k) : y = [work[k].seen EXCEPT !.count = c]
      PROVE  EnvInv'
  <2> DEFINE o == <<k, work[k].name>>
  <2>1. o \in Resources => IsResource(o, work[k].seen)
    BY <1>2 DEF EnvInv, LooksAt
  <2>2. o \in Resources => IsResource(o, y)
    BY <1>2, <2>1, OperatorWrites
  <2> QED
    BY <1>2, <2>2, EnvRewrites
<1> QED
  BY <1>1, <1>2, OperatorTurns

LEMMA EnvNext == ASSUME EnvInv, [NextEnvironments]_environmentVars PROVE EnvInv'
<1>1. CASE UNCHANGED environmentVars
  <2>1. UNCHANGED <<projects, crs, req, work>>
    BY <1>1 DEF environmentVars
  <2>2. DOMAIN work' = Controllers
    BY <2>1 DEF EnvInv, EnvFrames
  <2>3. \A k \in Controllers : LooksAt(k)'
    BY <2>1 DEF EnvInv, LooksAt, Stored
  <2> QED
    BY <2>1, <2>2, <2>3, EnvOperates
<1>2. ASSUME NEW r \in Requests, Begin(r) \/ Step(r) PROVE EnvInv'
  BY <1>2, EnvBegins, EnvCreatesProject, EnvDeletesProject, EnvGetsProject, EnvPutsProject,
     EnvCreatesCR, EnvGetsCR, EnvPutsCR, EnvDeletesCR, EnvListsApps, EnvPatchesApp DEF Step
<1>3. ASSUME NEW k \in Controllers, Reconcile(k) \/ OperatorFails(k) PROVE EnvInv'
  BY <1>3, EnvTakes, OperatorKeeps DEF Reconcile
<1>4. CASE EnsureNamespace
  <2>1. /\ UNCHANGED <<projects, crs, req>> /\ GoesOn("environment", "status")
        /\ work["environment"] # Absent /\ "environment" \in Controllers
    BY <1>4 DEF EnsureNamespace, Working, Controllers
  <2> QED
    BY <2>1, EnvTurns
<1>5. CASE OperatorRestarts
  BY <1>5, EnvRestarts
<1> QED
  BY <1>1, <1>2, <1>3, <1>4, <1>5 DEF NextEnvironments

-----------------------------------------------------------------------------
(* Nothing that was written is undone *)

EditsAreKept == /\ \A p \in Projects : EntriesKept(p) /\ TeamKept(p)
         /\ \A n \in Names : ObjectKept(n)

LEMMA UnwrittenKept == ASSUME UNCHANGED <<projects, crs>> PROVE EditsAreKept
  BY DEF EditsAreKept, EntriesKept, TeamKept, ObjectKept

\* A step that makes a project, or takes one away.
LEMMA NewProjectKept ==
    ASSUME EnvInv, NEW p \in Projects, NEW x, projects' = [projects EXCEPT ![p] = x],
           projects[p] = Absent \/ x = Absent, UNCHANGED crs
    PROVE  EditsAreKept
<1>1. DOMAIN projects = Projects
  BY DEF EnvInv, EnvFrames
<1>2. ASSUME NEW q \in Projects
      PROVE  projects'[q] = projects[q] \/ projects[q] = Absent \/ projects'[q] = Absent
  BY <1>1
<1>3. \A q \in Projects : EntriesKept(q) /\ TeamKept(q)
  BY <1>2 DEF EntriesKept, TeamKept
<1>4. \A n \in Names : ObjectKept(n)
  BY DEF ObjectKept
<1> QED
  BY <1>3, <1>4 DEF EditsAreKept

\* A step that makes a VestaEnvironment, or takes one away.
LEMMA NewObjectKept ==
    ASSUME EnvInv, NEW n \in Names, NEW x, crs' = [crs EXCEPT ![n] = x],
           crs[n] = Absent \/ x = Absent, UNCHANGED projects
    PROVE  EditsAreKept
<1>1. DOMAIN crs = Names
  BY DEF EnvInv, EnvFrames
<1>2. ASSUME NEW m \in Names
      PROVE  crs'[m] = crs[m] \/ crs[m] = Absent \/ crs'[m] = Absent
  BY <1>1
<1>3. \A q \in Projects : EntriesKept(q) /\ TeamKept(q)
  BY DEF EntriesKept, TeamKept
<1>4. \A m \in Names : ObjectKept(m)
  BY <1>2 DEF ObjectKept
<1> QED
  BY <1>3, <1>4 DEF EditsAreKept

\* What an update of a project writes, and where it leaves the request.
LEMMA ProjectPut ==
    ASSUME EnvInv, NEW r \in Requests, PutProject(r)
    PROVE  /\ In(r).project \in Projects /\ DOMAIN projects = Projects
           /\ Reached(r, "put") /\ req'[r].at # "put" /\ In(r)' = In(r)
           /\ In(r).op = "updateProject" /\ ~UNCHANGED projects => req'[r].at = "done" /\ req'[r].ok
           /\ UNCHANGED crs
           /\ \/ UNCHANGED projects
              \/ /\ projects' = [projects EXCEPT ![In(r).project] = NewSpec(r)]
                 /\ req[r].held = projects[In(r).project] /\ IsProject(req[r].held)
                 /\ IsAsked(In(r)) /\ In(r).op \in Edits /\ ~Refused(r, req[r].held.envs)
<1> DEFINE x == AfterPut(r)
           y == Ended(r, FALSE)
<1>1. /\ DOMAIN projects = Projects /\ DOMAIN req = Requests /\ In(r).project \in Projects
      /\ In(r) = req[r].input /\ TheProject(r) = <<"project", In(r).project>> /\ Reached(r, "put")
  BY EnvRests DEF EnvInv, EnvFrames, In, TheProject, PutProject
<1>2. Resting(x) /\ Resting(y) /\ Resting(Ended(r, TRUE))
  BY <1>1, EnvRests DEF Reached
<1>3. \/ UNCHANGED projects
      \/ Accepted(r, TheProject(r)) /\ projects' = [projects EXCEPT ![In(r).project] = NewSpec(r)]
  BY DEF PutProject
<1>4. \/ req'[r] = x \/ req'[r] = [x EXCEPT !.fresh = @ \ {TheProject(r)}]
      \/ req'[r] = y /\ UNCHANGED projects
  BY <1>1 DEF PutProject, Becomes, Writes
<1>5. DOMAIN req[r] = EnvFields
  BY EnvRests DEF Placed
<1>6. /\ DOMAIN x = EnvFields /\ x.at # "put" /\ DOMAIN y = EnvFields /\ y.at # "put"
  BY <1>2 DEF Resting, Placed
<1>7. In(r).op = "updateProject" => x = Ended(r, TRUE)
  BY DEF AfterPut
<1>8. DOMAIN Ended(r, TRUE) = EnvFields /\ Ended(r, TRUE).at = "done" /\ Ended(r, TRUE).ok = TRUE
  BY <1>5 DEF Ended, EnvFields
<1>9. x.input = req[r].input /\ y.input = req[r].input
  <2>1. In(r).op \in Edits
    BY <1>1, EnvRests DEF Placed, Reached
  <2> QED
    BY <1>5, <2>1 DEF AfterPut, Ended, EnvFields, Edits
<1> HIDE DEF x, y
<1>10. req'[r].at # "put" /\ req'[r].input = req[r].input
  BY <1>4, <1>6, <1>9 DEF EnvFields
<1>11. In(r).op = "updateProject" /\ ~UNCHANGED projects => req'[r].at = "done" /\ req'[r].ok
  BY <1>4, <1>7, <1>8 DEF EnvFields
<1> QED
  BY <1>1, <1>3, <1>10, <1>11, PutReads DEF In, PutProject

LEMMA PutProjectKept == ASSUME EnvInv, NEW r \in Requests, PutProject(r) PROVE EditsAreKept
<1> DEFINE p   == In(r).project
           old == req[r].held
           new == NewSpec(r)
<1>1. CASE UNCHANGED projects
  BY <1>1, ProjectPut, UnwrittenKept
<1>2. CASE ~UNCHANGED projects
  <2>1. /\ p \in Projects /\ old = projects[p] /\ WritesProject(r, p)
        /\ projects' = [projects EXCEPT ![p] = new] /\ DOMAIN projects = Projects
    BY <1>2, ProjectPut DEF WritesProject
  <2>2. /\ new.envs # old.envs => ListGiven(In(r), new.envs) \/ OnlyItsOwn(r, old.envs, new.envs)
        /\ new.team # old.team => TeamGiven(In(r), old, new)
    BY <1>2, ProjectPut, NewSpecIs
  <2>3. projects'[p] = new /\ \A q \in Projects : q # p => projects'[q] = projects[q]
    BY <2>1
  <2> HIDE DEF old, new, p
  <2>4. ASSUME NEW q \in Projects PROVE EntriesKept(q) /\ TeamKept(q)
    <3>1. CASE q # p
      BY <2>3, <3>1 DEF EntriesKept, TeamKept
    <3>2. CASE q = p
      <4>1. TeamKept(q)
        BY <2>1, <2>2, <2>3, <3>2 DEF TeamKept, TeamGiven
      <4>2. EntriesKept(q)
        BY <2>1, <2>2, <2>3, <3>2 DEF EntriesKept, ListGiven, OnlyItsOwn
      <4> QED
        BY <4>1, <4>2
    <3> QED
      BY <3>1, <3>2
  <2>5. \A m \in Names : ObjectKept(m)
    BY ProjectPut DEF ObjectKept
  <2> QED
    BY <2>4, <2>5 DEF EditsAreKept
<1> QED
  BY <1>1, <1>2

LEMMA PutCRKept == ASSUME EnvInv, NEW r \in Requests, PutCR(r) PROVE EditsAreKept
<1> DEFINE n   == req[r].input.name
           c   == req[r].input.change
           old == req[r].held
           new == Set(old, c)
<1>1. /\ In(r).name = n /\ In(r).change = c /\ In(r) = req[r].input
      /\ TheCR(r) = <<"environment", n>> /\ Reached(r, "change")
  BY DEF In, TheCR, PutCR
<1>2. DOMAIN crs = Names /\ DOMAIN req = Requests /\ n \in Names /\ IsChange(c)
  BY <1>1, ChangeReads DEF EnvInv, EnvFrames
<1>3. CASE UNCHANGED crs
  BY <1>3, UnwrittenKept DEF PutCR
<1>4. CASE Accepted(r, <<"environment", n>>) /\ crs' = [crs EXCEPT ![n] = new]
  <2>1. old = crs[n] /\ IsEnvironment(old)
    BY <1>1, <1>4, ChangeReads
  <2>2. \A f \in {"project", "branch", "auto", "label", "count"} \ DOMAIN c : new[f] = old[f]
    BY <2>1, EnvironmentIs DEF Set, IsEnvironment
  <2>3. req'[r].at # "change"
    <3> DEFINE x == Ended(r, TRUE)
    <3>1. Resting(x)
      BY EnvRests
    <3>2. req'[r] = x \/ req'[r] = [x EXCEPT !.fresh = @ \ {TheCR(r)}]
      BY <1>2 DEF PutCR, Becomes, Writes
    <3> HIDE DEF x
    <3>3. DOMAIN x = EnvFields /\ x.at # "change"
      BY <3>1 DEF Resting, Placed
    <3> QED
      BY <3>2, <3>3 DEF EnvFields
  <2>4. crs'[n] = new /\ \A m \in Names : m # n => crs'[m] = crs[m]
    BY <1>2, <1>4
  <2> HIDE DEF old, new, n
  <2>5. May(r, old, new)
    BY <1>1, <2>2 DEF May, Settings
  <2>6. \A f \in {"project", "label", "count"} : new[f] = old[f]
    BY <1>2, <2>2 DEF IsChange, Settings
  <2>7. ASSUME NEW m \in Names PROVE ObjectKept(m)
    <3>1. CASE m # n
      BY <2>4, <3>1 DEF ObjectKept
    <3>2. CASE m = n
      BY <1>1, <2>1, <2>3, <2>4, <2>5, <2>6, <3>2 DEF ObjectKept
    <3> QED
      BY <3>1, <3>2
  <2>8. \A q \in Projects : EntriesKept(q) /\ TeamKept(q)
    BY DEF EntriesKept, TeamKept, PutCR
  <2> QED
    BY <2>7, <2>8 DEF EditsAreKept
<1> QED
  BY <1>1, <1>3, <1>4 DEF PutCR

LEMMA OperatorKept ==
    ASSUME EnvInv, NEW k \in Controllers, Label(k) \/ Status(k) \/ OperatorFails(k)
    PROVE  EditsAreKept
<1>1. DOMAIN projects = Projects /\ DOMAIN crs = Names
  BY DEF EnvInv, EnvFrames
<1>2. CASE UNCHANGED <<projects, crs>>
  BY <1>2, UnwrittenKept
<1>3. ASSUME NEW place, NEW y, Rewrites(k, y, place), work[k] # Absent, work[k].fresh,
             y = Labelled(k, work[k].seen) \/ \E c \in Counts(k) : y = [work[k].seen EXCEPT !.count = c]
      PROVE  EditsAreKept
  <2> DEFINE n == work[k].name
             x == work[k].seen
  <2>1. <<k, n>> \in Resources => x = Stored(<<k, n>>) /\ IsResource(<<k, n>>, x)
    BY <1>3 DEF EnvInv, LooksAt
  <2> HIDE DEF n, x
  <2>2. CASE k = "project"
    <3>1. projects' = [projects EXCEPT ![n] = y] /\ UNCHANGED crs
      BY <1>3, <2>2 DEF Rewrites, n
    <3>2. ASSUME NEW q \in Projects
          PROVE  \/ projects'[q] = projects[q]
                 \/ projects'[q].envs = projects[q].envs /\ projects'[q].team = projects[q].team
      <4>1. CASE q # n
        BY <1>1, <3>1, <4>1
      <4>2. CASE q = n
        <5>1. x = projects[q] /\ IsResource(<<k, n>>, x)
          BY <2>1, <2>2, <4>2 DEF Resources, Stored
        <5>2. y.envs = x.envs /\ y.team = x.team
          BY <1>3, <2>2, <5>1, OperatorWrites DEF x
        <5>3. projects'[q] = y
          BY <1>1, <3>1, <4>2
        <5> QED
          BY <5>1, <5>2, <5>3
      <4> QED
        BY <4>1, <4>2
    <3>3. \A q \in Projects : EntriesKept(q) /\ TeamKept(q)
      BY <3>2 DEF EntriesKept, TeamKept
    <3>4. \A m \in Names : ObjectKept(m)
      BY <3>1 DEF ObjectKept
    <3> QED
      BY <3>3, <3>4 DEF EditsAreKept
  <2>3. CASE k # "project"
    <3>1. crs' = [crs EXCEPT ![n] = y] /\ UNCHANGED projects /\ k = "environment"
      BY <1>3, <2>3 DEF Rewrites, Controllers, n
    <3>2. ASSUME NEW q \in Names
          PROVE  \/ crs'[q] = crs[q]
                 \/ \A f \in {"project", "branch", "auto"} : crs'[q][f] = crs[q][f]
      <4>1. CASE q # n
        BY <1>1, <3>1, <4>1
      <4>2. CASE q = n
        <5>1. x = crs[q] /\ IsResource(<<k, n>>, x)
          BY <2>1, <3>1, <4>2 DEF Resources, Stored
        <5>2. y.project = x.project /\ y.branch = x.branch /\ y.auto = x.auto
          BY <1>3, <2>3, <5>1, OperatorWrites DEF x
        <5>3. crs'[q] = y
          BY <1>1, <3>1, <4>2
        <5> QED
          BY <5>1, <5>2, <5>3
      <4> QED
        BY <4>1, <4>2
    <3>3. \A q \in Projects : EntriesKept(q) /\ TeamKept(q)
      BY <3>1 DEF EntriesKept, TeamKept
    <3>4. \A m \in Names : ObjectKept(m)
      BY <3>2 DEF ObjectKept
    <3> QED
      BY <3>3, <3>4 DEF EditsAreKept
  <2> QED
    BY <2>2, <2>3
<1> QED
  BY <1>2, <1>3, OperatorTurns

LEMMA StepKept == ASSUME EnvInv, NEW r \in Requests, Begin(r) \/ Step(r) PROVE EditsAreKept
<1> DEFINE p == req[r].input.project
           n == req[r].input.name
<1>1. p \in Projects /\ Placed(req[r]) /\ In(r).project = p /\ In(r).name = n
  BY EnvRests DEF In
<1>2. CASE CreateProject(r) \/ DeleteProject(r)
  <2>1. \/ UNCHANGED <<projects, crs>>
        \/ \E x : /\ projects' = [projects EXCEPT ![p] = x] /\ UNCHANGED crs
                  /\ projects[p] = Absent \/ x = Absent
    BY <1>1, <1>2 DEF CreateProject, DeleteProject
  <2> HIDE DEF p
  <2> QED
    BY <1>1, <2>1, NewProjectKept, UnwrittenKept
<1>3. CASE CreateCR(r) \/ DeleteCR(r)
  <2>1. \/ UNCHANGED <<projects, crs>>
        \/ \E x : /\ crs' = [crs EXCEPT ![n] = x] /\ UNCHANGED projects
                  /\ crs[n] = Absent \/ x = Absent
    BY <1>1, <1>3 DEF CreateCR, DeleteCR
  <2>2. n \in Names
    BY <1>1, <1>3 DEF Placed, IsAsked, CreateCR, DeleteCR, Reached
  <2> HIDE DEF n
  <2> QED
    BY <2>1, <2>2, NewObjectKept, UnwrittenKept
<1>4. CASE Begin(r) \/ GetProject(r) \/ GetCR(r) \/ ListApps(r) \/ PatchApp(r)
  <2>1. UNCHANGED <<projects, crs>>
    BY <1>4 DEF Begin, GetProject, GetCR, ListApps, PatchApp
  <2> QED
    BY <2>1, UnwrittenKept
<1> QED
  BY <1>2, <1>3, <1>4, PutProjectKept, PutCRKept DEF Step

\* No write of a handler or of the operator puts back what its writer has read over what came
\* since: a step changes the entry or the object its own request names and no other entry, but
\* for an update of the project that has a list, which replaces every entry by it; labels and
\* counts are the operator's (UpdateProject, UpdateEnvironment, the Reconcile methods).
THEOREM EditsHold == SpecEnvironments => EditsKept
<1>1. InitEnvironments => EnvInv
  BY EnvInitially
<1>2. EnvInv /\ [NextEnvironments]_environmentVars => EnvInv'
  BY EnvNext
<1>3. EnvInv /\ [NextEnvironments]_environmentVars => [EditsAreKept]_environmentVars
  <2> SUFFICES ASSUME EnvInv, NextEnvironments PROVE EditsAreKept
    OBVIOUS
  <2>1. CASE \E r \in Requests : Begin(r) \/ Step(r)
    BY <2>1, StepKept
  <2>2. ASSUME NEW k \in Controllers, Reconcile(k) \/ OperatorFails(k) PROVE EditsAreKept
    <3>1. CASE Take(k)
      BY <3>1, UnwrittenKept DEF Take
    <3> QED
      BY <2>2, <3>1, OperatorKept DEF Reconcile
  <2>3. CASE EnsureNamespace \/ OperatorRestarts
    BY <2>3, UnwrittenKept DEF EnsureNamespace, OperatorRestarts
  <2> QED
    BY <2>1, <2>2, <2>3 DEF NextEnvironments
<1> QED
  BY <1>1, <1>2, <1>3, PTL DEF SpecEnvironments, EditsKept, EditsAreKept

-----------------------------------------------------------------------------
(* Names are listed twice only where they were given twice *)

\* A request that has ended stays so.
LEMMA EndedStays ==
    ASSUME EnvInv, [NextEnvironments]_environmentVars, NEW r \in Requests, Reached(r, "done")
    PROVE  Reached(r, "done")' /\ In(r)' = In(r) /\ req'[r].ok = req[r].ok
<1>1. /\ DOMAIN req = Requests /\ DOMAIN req[r] = EnvFields /\ req[r].at = "done"
  BY EnvRests DEF EnvInv, EnvFrames, Placed, Reached
<1> DEFINE Stays == req'[r] = req[r] \/ \E F : req'[r] = [req[r] EXCEPT !.fresh = F]
<1>2. Stays => req'[r].at = "done" /\ req'[r].input = req[r].input /\ req'[r].ok = req[r].ok
  BY <1>1 DEF EnvFields
<1>3. ASSUME NEW q \in Requests, Begin(q) \/ Step(q) PROVE Stays
  <2>1. q # r
    BY <1>1, <1>3 DEF Begin, Step, CreateProject, DeleteProject, GetProject, PutProject, CreateCR, GetCR,
       PutCR, DeleteCR, ListApps, PatchApp, Reached
  <2>2. \E x, o : Becomes(q, x) \/ Writes(q, x, o)
    BY <1>3 DEF Begin, Step, CreateProject, DeleteProject, GetProject, PutProject, CreateCR, GetCR,
       PutCR, DeleteCR, ListApps, PatchApp
  <2>3. PICK x, o : Becomes(q, x) \/ Writes(q, x, o)
    BY <2>2
  <2>4. CASE Becomes(q, x)
    BY <1>1, <2>1, <2>4 DEF Becomes
  <2>5. CASE Writes(q, x, o)
    <3>1. req'[r] = [req[r] EXCEPT !.fresh = @ \ {o}]
      BY <2>1, <2>5 DEF Writes
    <3> QED
      BY <3>1
  <2> QED
    BY <2>3, <2>4, <2>5
<1>4. ASSUME NEW k \in Controllers, Reconcile(k) \/ OperatorFails(k) PROVE Stays
  <2>1. CASE Take(k)
    BY <2>1 DEF Take
  <2>2. CASE UNCHANGED req
    BY <2>2
  <2>3. ASSUME NEW place, NEW y, Rewrites(k, y, place) PROVE Stays
    <3>1. req'[r] = [req[r] EXCEPT !.fresh = @ \ {Object(k)}]
      BY <2>3 DEF Rewrites
    <3> QED
      BY <3>1
  <2> QED
    BY <1>4, <2>1, <2>2, <2>3, OperatorTurns DEF Reconcile
<1>5. ASSUME EnsureNamespace \/ OperatorRestarts \/ UNCHANGED environmentVars PROVE Stays
  <2>1. UNCHANGED req
    BY <1>5 DEF EnsureNamespace, OperatorRestarts, environmentVars
  <2> QED
    BY <2>1
<1> HIDE DEF Stays
<1>6. Stays
  BY <1>3, <1>4, <1>5 DEF NextEnvironments
<1> QED
  BY <1>1, <1>2, <1>6 DEF Reached, In

\* And so does what it gave its project.
LEMMA DoubledStays ==
    ASSUME EnvInv, [NextEnvironments]_environmentVars, NEW p, NEW n, Doubled(p, n)
    PROVE  Doubled(p, n)'
<1>1. PICK r \in Requests :
        /\ Reached(r, "done") /\ req[r].ok
        /\ In(r).op = "updateProject" /\ In(r).project = p
        /\ "envs" \in DOMAIN In(r).body /\ Twice(In(r).body.envs, n)
  BY DEF Doubled
<1>2. Reached(r, "done")' /\ In(r)' = In(r) /\ req'[r].ok = req[r].ok
  BY <1>1, EndedStays
<1>3. Twice(In(r).body.envs, n)'
  BY <1>1, <1>2 DEF Twice
<1> QED
  BY <1>1, <1>2, <1>3 DEF Doubled

\* A step that changes the list of a project has a request behind it that writes the project.
LEMMA ListStep ==
    ASSUME EnvInv, [NextEnvironments]_environmentVars, NEW p \in Projects, projects'[p] # Absent
    PROVE  \/ projects[p] # Absent /\ projects'[p].envs = projects[p].envs
           \/ projects'[p].envs = <<>>
           \/ \E r \in Requests : PutProject(r) /\ In(r).project = p /\ ~UNCHANGED projects
<1>1. DOMAIN projects = Projects
  BY DEF EnvInv, EnvFrames
<1>2. CASE UNCHANGED projects
  BY <1>2
<1>3. ASSUME NEW r \in Requests, Begin(r) \/ Step(r), ~UNCHANGED projects
      PROVE  \/ projects[p] # Absent /\ projects'[p].envs = projects[p].envs
             \/ projects'[p].envs = <<>>
             \/ PutProject(r) /\ In(r).project = p
  <2>1. CASE CreateProject(r) \/ DeleteProject(r)
    <3>1. In(r).project \in Projects
      BY EnvRests DEF In
    <3>2. \/ projects' = [projects EXCEPT ![In(r).project] = Absent]
          \/ \E x : x.envs = <<>> /\ projects' = [projects EXCEPT ![In(r).project] = x]
      BY <1>3, <2>1 DEF CreateProject, DeleteProject
    <3> QED
      BY <1>1, <3>1, <3>2
  <2>2. CASE PutProject(r)
    <3>1. projects' = [projects EXCEPT ![In(r).project] = NewSpec(r)]
      BY <1>3, <2>2, ProjectPut
    <3> QED
      BY <1>1, <2>2, <3>1
  <2> QED
    BY <1>3, <2>1, <2>2 DEF Begin, Step, GetProject, CreateCR, GetCR, PutCR, DeleteCR, ListApps, PatchApp
<1>4. ASSUME NEW k \in Controllers, Reconcile(k) \/ OperatorFails(k), ~UNCHANGED projects
      PROVE  projects[p] # Absent /\ projects'[p].envs = projects[p].envs
  <2>1. Label(k) \/ Status(k) \/ OperatorFails(k)
    BY <1>4 DEF Reconcile, Take
  <2>2. PICK place, y : /\ Rewrites(k, y, place) /\ work[k] # Absent /\ work[k].fresh
                        /\ \/ y = Labelled(k, work[k].seen)
                           \/ \E c \in Counts(k) : y = [work[k].seen EXCEPT !.count = c]
    BY <1>4, <2>1, OperatorTurns
  <2> DEFINE n == work[k].name
             x == work[k].seen
  <2>3. k = "project" /\ projects' = [projects EXCEPT ![n] = y]
    BY <1>4, <2>2 DEF Rewrites
  <2>4. CASE p = n
    <3>1. <<k, n>> \in Resources /\ Stored(<<k, n>>) = projects[p]
      BY <2>3, <2>4 DEF Resources, Stored
    <3>2. x = projects[p] /\ IsResource(<<k, n>>, x)
      BY <2>2, <3>1 DEF EnvInv, LooksAt
    <3>3. y.envs = x.envs
      BY <2>2, <2>3, <3>2, OperatorWrites
    <3>4. projects'[p] = y
      BY <1>1, <2>3, <2>4
    <3>5. projects[p] # Absent
      <4>1. projects[p] \in VestaProject
        BY <2>3, <3>2 DEF IsResource, IsProject
      <4> QED
        BY <4>1, EnvironmentsAssumption
    <3> QED
      BY <3>2, <3>3, <3>4, <3>5
  <2>5. CASE p # n
    BY <1>1, <2>3, <2>5
  <2> QED
    BY <2>4, <2>5
<1>5. CASE EnsureNamespace \/ OperatorRestarts \/ UNCHANGED environmentVars
  BY <1>2, <1>5 DEF EnsureNamespace, OperatorRestarts, environmentVars
<1> QED
  BY <1>2, <1>3, <1>4, <1>5 DEF NextEnvironments

LEMMA UniqueStep ==
    ASSUME EnvInv, EnvsUnique, [NextEnvironments]_environmentVars
    PROVE  EnvsUnique'
<1> SUFFICES ASSUME NEW p \in Projects, NEW n \in Names,
                    projects'[p] # Absent, Twice(projects'[p].envs, n)
             PROVE  Doubled(p, n)'
  BY DEF EnvsUnique, Twice
<1>1. CASE projects[p] # Absent /\ projects'[p].envs = projects[p].envs
  <2>1. Doubled(p, n)
    BY <1>1 DEF EnvsUnique
  <2> QED
    BY <2>1, DoubledStays
<1>2. CASE projects'[p].envs = <<>>
  BY <1>2 DEF Twice
<1>3. ASSUME NEW r \in Requests, PutProject(r), In(r).project = p, ~UNCHANGED projects
      PROVE  Doubled(p, n)'
  <2>1. /\ DOMAIN projects = Projects
        /\ projects' = [projects EXCEPT ![p] = NewSpec(r)] /\ req[r].held = projects[p]
    BY <1>3, ProjectPut
  <2>2. Twice(NewSpec(r).envs, n)
    BY <2>1
  <2>3. Twice(projects[p].envs, n) \/ ListGiven(In(r), NewSpec(r).envs)
    <3>1. Twice(req[r].held.envs, n) \/ ListGiven(In(r), NewSpec(r).envs)
      BY <1>3, <2>2, ProjectPut, NewSpecIs
    <3> QED
      BY <2>1, <3>1
  <2>4. CASE Twice(projects[p].envs, n)
    <3>1. projects[p] # Absent
      <4>1. req[r].held \in VestaProject
        BY <1>3, ProjectPut DEF IsProject
      <4> QED
        BY <2>1, <4>1, EnvironmentsAssumption
    <3>2. Doubled(p, n)
      BY <2>4, <3>1 DEF EnvsUnique
    <3> QED
      BY <3>2, DoubledStays
  <2>5. CASE ListGiven(In(r), NewSpec(r).envs)
    <3>1. /\ In(r).op = "updateProject" /\ "envs" \in DOMAIN In(r).body
          /\ Twice(In(r).body.envs, n)
      BY <2>2, <2>5 DEF ListGiven
    <3>2. req'[r].at = "done" /\ req'[r].ok /\ In(r)' = In(r)
      BY <1>3, <3>1, ProjectPut
    <3>3. Twice(In(r).body.envs, n)'
      BY <3>1, <3>2 DEF Twice
    <3> QED
      BY <1>3, <3>1, <3>2, <3>3 DEF Doubled, Reached
  <2> QED
    BY <2>3, <2>4, <2>5
<1> QED
  BY <1>1, <1>2, <1>3, ListStep

\* However creates, clones, updates and removals of environments overlap and the API server
\* fails, two environments of a project have one name only where an update of the project
\* gave it a list with the name twice (CreateEnvironment, CloneEnvironment, UpdateProject).
THEOREM EnvironmentsAreUnique == SpecEnvironments => []EnvsUnique
<1>1. InitEnvironments => EnvInv
  BY EnvInitially
<1>2. InitEnvironments => EnvsUnique
  <2> SUFFICES ASSUME InitEnvironments, NEW p \in Projects, NEW n \in Names, projects[p] # Absent
               PROVE  ~Twice(projects[p].envs, n)
    BY DEF EnvsUnique
  <2>1. PICK start \in Starts : projects = [q \in Projects |-> start.projects[q]]
    BY DEF InitEnvironments
  <2> QED
    BY <2>1, StartsAssumption DEF Possible
<1>3. EnvInv /\ [NextEnvironments]_environmentVars => EnvInv'
  BY EnvNext
<1>4. EnvInv /\ EnvsUnique /\ [NextEnvironments]_environmentVars => EnvsUnique'
  BY UniqueStep
<1> QED
  BY <1>1, <1>2, <1>3, <1>4, PTL DEF SpecEnvironments

-----------------------------------------------------------------------------
(* Types of projects and environments, and what the operator has seen of them *)

Rank(S, i) == Cardinality({j \in S : j <= i})

\* No two places of a finite set of numbers are the k-th.
LEMMA RanksDiffer ==
    ASSUME NEW n \in Nat, NEW S \in SUBSET (1..n), NEW i \in S, NEW l \in S,
           Rank(S, i) = Rank(S, l)
    PROVE  i = l
<1>1. ASSUME NEW p \in S, NEW q \in S, p < q,
             Rank(S, p) = Rank(S, q)
      PROVE  FALSE
  <2> DEFINE P == {j \in S : j <= p}
             Q == {j \in S : j <= q}
  <2>1. p \in Nat /\ q \in Nat /\ \A j \in S : j \in Nat
    OBVIOUS
  <2>2. P \in SUBSET Q /\ q \in Q /\ q \notin P
    <3>1. \A j \in S : j <= p => j <= q
      BY <1>1, <2>1
    <3>2. q <= q /\ ~(q <= p)
      BY <1>1, <2>1
    <3> QED
      BY <3>1, <3>2
  <2>3. IsFiniteSet(Q)
    <3>1. IsFiniteSet(1..n)
      BY FS_Interval
    <3>2. Q \in SUBSET (1..n)
      OBVIOUS
    <3> HIDE DEF Q
    <3> QED
      BY <3>1, <3>2, FS_Subset
  <2>4. Cardinality(P) = Cardinality(Q)
    BY <1>1 DEF Rank
  <2> HIDE DEF P, Q
  <2> QED
    BY <2>2, <2>3, <2>4, FS_Subset
<1>2. i \in Nat /\ l \in Nat
  OBVIOUS
<1>3. i < l \/ l < i \/ i = l
  BY <1>2
<1> QED
  BY <1>1, <1>3

\* What is listed stands at the places that are kept, each of them once.
LEMMA OnlyIs ==
    ASSUME NEW S, NEW s \in Seq(S), NEW kept \in SUBSET DOMAIN s
    PROVE  /\ Only(s, kept) \in Seq(S)
           /\ \A i \in kept : \E k \in DOMAIN Only(s, kept) : Only(s, kept)[k] = s[i]
           /\ Once(s) => Once(Only(s, kept))
<1> DEFINE m == Cardinality(kept)
           rank(i) == Cardinality({j \in kept : j <= i})
           nth(k) == CHOOSE i \in kept : rank(i) = k
           F == [k \in 1..m |-> s[nth(k)]]
           n == Len(s)
<1>1. Only(s, kept) = F
  BY DEF Only
<1>2. n \in Nat /\ DOMAIN s = 1..n
  OBVIOUS
<1>3. kept \in SUBSET (1..n)
  BY <1>2
<1> HIDE DEF n
<1>4. IsFiniteSet(kept) /\ m \in Nat
  <2>1. IsFiniteSet(1..n)
    BY <1>2, FS_Interval
  <2>2. IsFiniteSet(kept)
    BY <1>3, <2>1, FS_Subset
  <2> QED
    BY <2>2, FS_CardinalityType
<1>5. ASSUME NEW k \in 1..m PROVE nth(k) \in kept /\ rank(nth(k)) = k
  <2>1. \E i \in kept : rank(i) = k
    BY <1>2, <1>3, Ranked
  <2> HIDE DEF rank
  <2> QED
    BY <2>1
<1>0. ASSUME NEW i \in kept, NEW l \in kept, rank(i) = rank(l) PROVE i = l
  <2>1. Rank(kept, i) = Rank(kept, l)
    BY <1>0 DEF Rank
  <2> HIDE DEF rank, m
  <2> QED
    BY <1>2, <1>3, <2>1, RanksDiffer
<1>6. ASSUME NEW i \in kept PROVE rank(i) \in 1..m /\ nth(rank(i)) = i
  <2> DEFINE U == {j \in kept : j <= i}
  <2>1. i \in Nat
    BY <1>3
  <2>2. U \in SUBSET kept /\ i \in U
    BY <2>1
  <2> HIDE DEF U
  <2>3. IsFiniteSet(U) /\ Cardinality(U) <= m /\ Cardinality(U) \in Nat
    BY <1>4, <2>2, FS_Subset, FS_CardinalityType
  <2>4. Cardinality(U) # 0
    BY <2>2, <2>3, FS_EmptySet
  <2>5. Cardinality(U) \in 1..m
    BY <1>4, <2>3, <2>4
  <2>6. rank(i) \in 1..m
    BY <2>5 DEF U
  <2> DEFINE l == nth(rank(i))
  <2>7. l \in kept /\ rank(l) = rank(i)
    BY <1>5, <2>6
  <2> HIDE DEF l
  <2> HIDE DEF rank, m
  <2>8. l = i
    BY <1>0, <2>7
  <2> QED
    BY <2>6, <2>8 DEF l
<1> HIDE DEF rank, nth
<1>7. ASSUME NEW k \in 1..m PROVE nth(k) \in DOMAIN s /\ s[nth(k)] \in S
  <2> DEFINE i == nth(k)
  <2>1. i \in DOMAIN s
    BY <1>5
  <2> HIDE DEF i
  <2> QED
    BY <2>1 DEF i
<1>8. F \in Seq(S) /\ DOMAIN F = 1..m /\ \A k \in 1..m : F[k] = s[nth(k)]
  BY <1>4, <1>7
<1> HIDE DEF F, m
<1>9. \A i \in kept : \E k \in DOMAIN F : F[k] = s[i]
  BY <1>6, <1>8
<1>10. ASSUME Once(s), NEW k \in DOMAIN F, NEW l \in DOMAIN F, F[k] = F[l] PROVE k = l
  <2>1. nth(k) = nth(l)
    BY <1>7, <1>8, <1>10 DEF Once
  <2> QED
    BY <1>5, <1>8, <2>1
<1> QED
  BY <1>1, <1>8, <1>9, <1>10 DEF Once

QueuesOK(q) ==
    /\ DOMAIN q = Controllers
    /\ \A k \in Controllers : q[k] \in Seq(NamesOf(k)) /\ Once(q[k])

QueuedIn(q, o) == \E i \in DOMAIN q[o[1]] : q[o[1]][i] = o[2]

LEMMA ResourcesAre ==
    /\ \A o \in Resources : o[1] \in Controllers /\ o[2] \in NamesOf(o[1]) /\ o = <<o[1], o[2]>>
    /\ \A k \in Controllers : \A n \in NamesOf(k) : <<k, n>> \in Resources
  BY DEF Resources, Controllers, NamesOf

\* What is queued stays so, once, and so does what is added.
LEMMA EnqueueIs ==
    ASSUME NEW q, QueuesOK(q), NEW o \in Resources
    PROVE  /\ QueuesOK(Enqueue(q, o)) /\ QueuedIn(Enqueue(q, o), o)
           /\ \A p \in Resources : QueuedIn(q, p) => QueuedIn(Enqueue(q, o), p)
<1>1. CASE QueuedIn(q, o)
  <2>1. Enqueue(q, o) = q
    BY <1>1 DEF Enqueue, QueuedIn
  <2> QED
    BY <1>1, <2>1
<1>2. CASE ~QueuedIn(q, o)
  <2> DEFINE k == o[1]
             n == o[2]
             S == NamesOf(k)
             s == q[k]
             t == Append(s, n)
             z == Enqueue(q, o)
  <2>1. z = [q EXCEPT ![k] = t]
    BY <1>2 DEF Enqueue, QueuedIn
  <2>2. k \in Controllers /\ n \in S
    BY ResourcesAre
  <2>3. s \in Seq(S) /\ Once(s) /\ \A i \in DOMAIN s : s[i] # n
    BY <1>2, <2>2 DEF QueuesOK, QueuedIn
  <2>4. DOMAIN z = Controllers /\ z[k] = t /\ \A j \in Controllers : j # k => z[j] = q[j]
    BY <2>1, <2>2 DEF QueuesOK
  <2> HIDE DEF S, s, z
  <2>5. /\ t \in Seq(S) /\ DOMAIN s = 1..Len(s) /\ Len(s) \in Nat /\ DOMAIN t = 1..(Len(s) + 1)
        /\ \A i \in 1..Len(s) : t[i] = s[i]
        /\ t[Len(s) + 1] = n
    BY <2>2, <2>3
  <2> HIDE DEF t, n
  <2>6. Once(t)
    <3> SUFFICES ASSUME NEW i \in 1..(Len(s) + 1), NEW j \in 1..(Len(s) + 1), t[i] = t[j] PROVE i = j
      BY <2>5 DEF Once
    <3>1. CASE i \in DOMAIN s /\ j \in DOMAIN s
      BY <2>3, <2>5, <3>1 DEF Once
    <3>2. CASE i = Len(s) + 1 /\ j \in DOMAIN s
      BY <2>3, <2>5, <3>2
    <3>3. CASE i \in DOMAIN s /\ j = Len(s) + 1
      BY <2>3, <2>5, <3>3
    <3> QED
      BY <2>5, <3>1, <3>2, <3>3
  <2>7. QueuesOK(z)
    BY <2>4, <2>5, <2>6 DEF QueuesOK, S
  <2>8. Len(s) + 1 \in DOMAIN t
    BY <2>5
  <2>9. QueuedIn(z, o)
    BY <2>4, <2>5, <2>8 DEF QueuedIn, n
  <2>10. ASSUME NEW p \in Resources, QueuedIn(q, p) PROVE QueuedIn(z, p)
    <3>0. p[1] \in Controllers
      BY ResourcesAre
    <3>1. CASE p[1] # k
      BY <2>4, <2>10, <3>0, <3>1 DEF QueuedIn
    <3>2. CASE p[1] = k
      <4>1. PICK i \in DOMAIN s : s[i] = p[2]
        BY <2>10, <3>2 DEF QueuedIn, s
      <4>2. i \in DOMAIN t /\ t[i] = p[2]
        BY <2>5, <4>1
      <4> QED
        BY <2>4, <3>2, <4>2 DEF QueuedIn
    <3> QED
      BY <3>1, <3>2
  <2> QED
    BY <2>7, <2>9, <2>10 DEF z
<1> QED
  BY <1>1, <1>2

AppsTyped == apps \in [Apps -> Seq(Names)] /\ namespaces \subseteq Projects \X Names

\* Only a clone goes on to the applications.
AskedTyped(x) == RequestOK(x) /\ (x.at \in {"list", "patch"} => x.input.op = "clone")

SeenSettled(k, x) == IF k = "project" THEN ProjectLabelled(x) ELSE EnvironmentLabelled(x)

\* What a controller has in hand carries the labels it has read or written, from the step
\* that is about them on, and an environment has the namespace.
InHand(k) ==
    work[k] # Absent =>
       /\ work[k] \in Work(k)
       /\ work[k].at = "namespace" => k = "environment"
       /\ work[k].at # "label" => SeenSettled(k, work[k].seen)
       /\ work[k].at = "status" /\ k = "environment" =>
             <<work[k].seen.project, work[k].name>> \in namespaces

EnvTypes ==
    /\ EnvInv /\ AppsTyped /\ QueuesOK(queue) /\ NoneOverlooked
    /\ \A r \in Requests : AskedTyped(req[r])
    /\ \A k \in Controllers : InHand(k)

LEMMA HeldAtIs ==
    /\ HeldAt("put") = VestaProject /\ HeldAt("change") = VestaEnvironment
    /\ HeldAt("patch") = [Apps -> Seq(Names)]
    /\ \A place : place \notin {"put", "change", "patch"} => HeldAt(place) = {Absent}
  BY DEF HeldAt

LEMMA StoredIs ==
    ASSUME EnvInv
    PROVE  /\ \A p \in Projects : projects[p] # Absent => projects[p] \in VestaProject
           /\ \A n \in Names : crs[n] # Absent => crs[n] \in VestaEnvironment
<1>1. ASSUME NEW p \in Projects, projects[p] # Absent PROVE projects[p] \in VestaProject
  <2>1. <<"project", p>> \in Resources /\ Stored(<<"project", p>>) = projects[p]
    BY DEF Resources, Stored
  <2> QED
    BY <1>1, <2>1 DEF EnvInv, Shaped, IsResource, IsProject
<1>2. ASSUME NEW n \in Names, crs[n] # Absent PROVE crs[n] \in VestaEnvironment
  <2>1. <<"environment", n>> \in Resources /\ Stored(<<"environment", n>>) = crs[n]
    BY DEF Resources, Stored
  <2> QED
    BY <1>2, <2>1 DEF EnvInv, Shaped, IsResource, IsEnvironment
<1> QED
  BY <1>1, <1>2

\* A request goes on to a place where there is nothing to list.
LEMMA MovedIs ==
    ASSUME NEW y, AskedTyped(y), NEW x, DOMAIN x = EnvFields,
           x.input = y.input, x.todo = y.todo, x.ok = y.ok,
           x.at \in Places \ {"patch"}, x.held \in HeldAt(x.at), x.fresh \subseteq Resources,
           x.at = "list" => y.input.op = "clone"
    PROVE  AskedTyped(x)
  BY DEF AskedTyped, RequestOK, EnvFields

LEMMA EndedTyped ==
    ASSUME EnvTypes, NEW r \in Requests
    PROVE  AskedTyped(req[r]) /\ \A ok \in BOOLEAN : AskedTyped(Ended(r, ok))
<1> DEFINE y == req[r]
<1>1. AskedTyped(y)
  BY DEF EnvTypes
<1>2. ASSUME NEW ok \in BOOLEAN PROVE AskedTyped(Ended(r, ok))
  <2> DEFINE x == Ended(r, ok)
  <2>1. x = [y EXCEPT !.at = "done", !.held = Absent, !.todo = <<>>, !.fresh = {}, !.ok = ok]
    BY DEF Ended
  <2> HIDE DEF x, y
  <2>2. DOMAIN y = {"input", "at", "held", "todo", "fresh", "ok"} /\ IsAsked(y.input)
    BY <1>1 DEF AskedTyped, RequestOK
  <2>3. /\ DOMAIN x = DOMAIN y /\ x.input = y.input /\ x.at = "done" /\ x.held = Absent
        /\ x.todo = <<>> /\ x.fresh = {} /\ x.ok = ok
    BY <2>1, <2>2
  <2>4. x.held \in HeldAt(x.at) /\ x.at \in Places
    BY <2>3, HeldAtIs DEF Places
  <2>5. <<>> \in Seq(Apps)
    OBVIOUS
  <2> QED
    BY <2>2, <2>3, <2>4, <2>5 DEF AskedTyped, RequestOK, x
<1> QED
  BY <1>1, <1>2

\* What is neither written nor left undone is not overlooked.
LEMMA StillSeen ==
    ASSUME NoneOverlooked, namespaces \subseteq namespaces',
           \A o \in Resources : Stored(o)' # Absent =>
               \/ Awaits(o)'
               \/ Stored(o)' = Stored(o) /\ (Awaits(o) => Settled(o)')
    PROVE  NoneOverlooked'
<1>1. ASSUME NEW o \in Resources, Stored(o)' # Absent PROVE Awaits(o)' \/ Settled(o)'
  <2>1. CASE Awaits(o)'
    BY <2>1
  <2>2. CASE Stored(o)' = Stored(o) /\ (Awaits(o) => Settled(o)')
    <3>1. Awaits(o) \/ Settled(o)
      BY <1>1, <2>2 DEF NoneOverlooked
    <3>2. Settled(o) => Settled(o)'
      BY <2>2 DEF Settled, Stored
    <3> QED
      BY <2>2, <3>1, <3>2
  <2> QED
    BY <1>1, <2>1, <2>2
<1>2. Resources' = Resources
  OBVIOUS
<1> QED
  BY <1>1, <1>2 DEF NoneOverlooked

LEMMA TypesInitially == ASSUME InitEnvironments PROVE EnvTypes
<1>1. PICK start \in Starts :
         /\ projects = [p \in Projects |-> start.projects[p]]
         /\ crs      = [n \in Names |-> start.crs[n]]
         /\ apps = start.apps /\ queue = start.queue
         /\ req   = [r \in Requests |-> Asks(start.asked[r])]
  BY DEF InitEnvironments
<1>2. Possible(start)
  BY StartsAssumption
<1>3. EnvInv
  BY EnvInitially
<1>4. namespaces = {<<crs[n].project, n>> : n \in {n \in Names : crs[n] # Absent}}
  BY DEF InitEnvironments
<1>5. work = [k \in Controllers |-> Absent]
  BY DEF InitEnvironments
<1>6. AppsTyped
  <2>1. apps \in [Apps -> Seq(Names)]
    BY <1>1, <1>2 DEF Possible
  <2>2. \A n \in Names : crs[n] # Absent => crs[n].project \in Projects
    BY <1>3, StoredIs, EnvironmentIs
  <2> QED
    BY <1>4, <2>1, <2>2 DEF AppsTyped
<1>7. QueuesOK(queue)
  BY <1>1, <1>2 DEF QueuesOK, Possible
<1>8. ASSUME NEW r \in Requests PROVE AskedTyped(req[r])
  <2> DEFINE y == req[r]
  <2>1. y = Asks(start.asked[r]) /\ IsAsked(start.asked[r])
    BY <1>1, <1>2 DEF Possible
  <2> HIDE DEF y
  <2>2. /\ DOMAIN y = {"input", "at", "held", "todo", "fresh", "ok"} /\ y.input = start.asked[r]
        /\ y.at = "idle" /\ y.held = Absent /\ y.todo = <<>> /\ y.fresh = {} /\ y.ok = FALSE
    BY <2>1 DEF Asks
  <2>3. y.held \in HeldAt(y.at) /\ y.at \in Places
    BY <2>2, HeldAtIs DEF Places
  <2>4. <<>> \in Seq(Apps)
    OBVIOUS
  <2> QED
    BY <2>1, <2>2, <2>3, <2>4 DEF AskedTyped, RequestOK, y
<1>9. \A k \in Controllers : InHand(k)
  BY <1>5 DEF InHand
<1>10. NoneOverlooked
  <2>1. ASSUME NEW p \in Projects, projects[p] # Absent
        PROVE  Awaits(<<"project", p>>) \/ Settled(<<"project", p>>)
    BY <1>1, <1>2, <2>1 DEF Possible, Awaits, Settled
  <2>2. ASSUME NEW n \in Names, crs[n] # Absent
        PROVE  Awaits(<<"environment", n>>) \/ Settled(<<"environment", n>>)
    BY <1>1, <1>2, <1>4, <2>2 DEF Possible, Awaits, Settled
  <2> QED
    BY <2>1, <2>2 DEF NoneOverlooked, Resources, Stored
<1> QED
  BY <1>3, <1>6, <1>7, <1>8, <1>9, <1>10 DEF EnvTypes

\* A step of a request that writes no object.
LEMMA TypesBecome ==
    ASSUME EnvTypes, EnvInv', NEW r \in Requests, NEW x, Becomes(r, x), AskedTyped(x), AppsTyped',
           \A o \in Resources : Stored(o)' = Stored(o), UNCHANGED <<namespaces, queue, work>>
    PROVE  EnvTypes'
<1>1. ASSUME NEW q \in Requests PROVE AskedTyped(req[q])'
  <2>1. req'[q] = IF q = r THEN x ELSE req[q]
    BY DEF EnvTypes, EnvInv, EnvFrames, Becomes
  <2>2. AskedTyped(req'[q])
    BY <2>1 DEF EnvTypes
  <2>3. AskedTyped(req[q])' <=> AskedTyped(req'[q])
    BY DEF AskedTyped, RequestOK
  <2> QED
    BY <2>2, <2>3
<1>2. QueuesOK(queue)'
  BY DEF EnvTypes, QueuesOK
<1>3. \A k \in Controllers : InHand(k)'
  BY DEF EnvTypes, InHand
<1>4. \A o : Awaits(o) => Awaits(o)'
  BY DEF Awaits
<1>5. NoneOverlooked'
  BY <1>4, StillSeen DEF EnvTypes
<1> QED
  BY <1>1, <1>2, <1>3, <1>5 DEF EnvTypes, Controllers

\* A step of a request that writes one.
LEMMA TypesWrite ==
    ASSUME EnvTypes, EnvInv', NEW r \in Requests, NEW x, NEW o \in Resources, Writes(r, x, o),
           AskedTyped(x), \A p \in Resources : p # o => Stored(p)' = Stored(p),
           UNCHANGED <<apps, namespaces>>
    PROVE  EnvTypes'
<1>1. /\ req' = [q \in Requests |-> [(IF q = r THEN x ELSE req[q]) EXCEPT !.fresh = @ \ {o}]]
      /\ queue' = Enqueue(queue, o)
      /\ work'  = [k \in Controllers |->
                   IF k = o[1] /\ work[k] # Absent
                   THEN [work[k] EXCEPT !.fresh = @ /\ work[k].name # o[2]] ELSE work[k]]
  BY DEF Writes, Changed
<1>2. ASSUME NEW q \in Requests PROVE AskedTyped(req[q])'
  <2> DEFINE y == IF q = r THEN x ELSE req[q]
             z == req'[q]
  <2>1. AskedTyped(y)
    BY DEF EnvTypes
  <2>2. z = [y EXCEPT !.fresh = @ \ {o}]
    BY <1>1
  <2> HIDE DEF y, z
  <2>3. AskedTyped(z)
    BY <2>1, <2>2 DEF AskedTyped, RequestOK
  <2>4. AskedTyped(req[q])' <=> AskedTyped(z)
    BY DEF AskedTyped, RequestOK, z
  <2> QED
    BY <2>3, <2>4
<1>3. /\ QueuesOK(queue') /\ QueuedIn(queue', o)
      /\ \A p \in Resources : QueuedIn(queue, p) => QueuedIn(queue', p)
  BY <1>1, EnqueueIs DEF EnvTypes
<1>4. ASSUME NEW k \in Controllers, work[k] # Absent
      PROVE  /\ work'[k] \in Work(k) /\ work'[k] # Absent
             /\ work'[k].name = work[k].name /\ work'[k].seen = work[k].seen /\ work'[k].at = work[k].at
  <2>1. work[k] \in Work(k)
    BY <1>4 DEF EnvTypes, InHand
  <2>2. \/ work'[k] = work[k]
        \/ work'[k] = [work[k] EXCEPT !.fresh = @ /\ work[k].name # o[2]]
    BY <1>1
  <2> DEFINE S == IF k = "project" THEN VestaProject ELSE VestaEnvironment
             N == NamesOf(k)
             B == BOOLEAN
             w == work[k]
             v == work'[k]
             b == w.fresh /\ w.name # o[2]
  <2>3. Work(k) = [name : N, seen : S, fresh : B, at : {"label", "namespace", "status"}] /\ b \in B
    BY DEF Work
  <2>4. w \in Work(k) /\ (v = w \/ v = [w EXCEPT !.fresh = b])
    BY <2>1, <2>2
  <2> HIDE DEF S, N, B, w, v, b
  <2>5. v \in Work(k) /\ v.name = w.name /\ v.seen = w.seen /\ v.at = w.at
    BY <2>3, <2>4
  <2>6. v # Absent
    BY <2>5, EnvironmentsAssumption
  <2> QED
    BY <2>5, <2>6 DEF w, v
<1>5. ASSUME NEW k \in Controllers PROVE InHand(k)'
  <2>1. CASE work[k] = Absent
    BY <1>1, <2>1 DEF InHand
  <2>2. CASE work[k] # Absent
    BY <1>4, <2>2 DEF EnvTypes, InHand, SeenSettled
  <2> QED
    BY <2>1, <2>2
<1>6. ASSUME NEW p \in Resources, Awaits(p) PROVE Awaits(p)'
  <2>1. CASE QueuedIn(queue, p)
    BY <1>3, <2>1 DEF Awaits, QueuedIn
  <2>2. CASE work[p[1]] # Absent /\ work[p[1]].name = p[2]
    BY <1>4, <2>2, ResourcesAre DEF Awaits
  <2> QED
    BY <1>6, <2>1, <2>2 DEF Awaits, QueuedIn
<1>7. Awaits(o)'
  BY <1>3 DEF Awaits, QueuedIn
<1>8. NoneOverlooked'
  BY <1>6, <1>7, StillSeen DEF EnvTypes
<1>9. AppsTyped' /\ QueuesOK(queue)'
  BY <1>3 DEF EnvTypes, AppsTyped, QueuesOK
<1> QED
  BY <1>2, <1>5, <1>8, <1>9 DEF EnvTypes, Controllers

\* A step of a request that reads, or goes on.
LEMMA TypesRead ==
    ASSUME EnvTypes, EnvInv', NEW r \in Requests, NEW x, Becomes(r, x), AskedTyped(x),
           UNCHANGED <<projects, crs, apps, namespaces, queue, work>>
    PROVE  EnvTypes'
<1>1. \A o \in Resources : Stored(o)' = Stored(o)
  BY DEF Stored
<1>2. AppsTyped'
  BY DEF EnvTypes, AppsTyped
<1> QED
  BY <1>1, <1>2, TypesBecome

\* A step that puts something else in the place of a project, or of a VestaEnvironment.
LEMMA OneIsWritten ==
    ASSUME EnvInv
    PROVE  /\ \A p \in Projects : \A x :
                 projects' = [projects EXCEPT ![p] = x] /\ UNCHANGED crs =>
                 \A q \in Resources : q # <<"project", p>> => Stored(q)' = Stored(q)
           /\ \A n \in Names : \A x :
                 crs' = [crs EXCEPT ![n] = x] /\ UNCHANGED projects =>
                 \A q \in Resources : q # <<"environment", n>> => Stored(q)' = Stored(q)
<1>1. DOMAIN projects = Projects /\ DOMAIN crs = Names
  BY DEF EnvInv, EnvFrames
<1>2. \A q \in Resources : \/ q[1] = "project" /\ q[2] \in Projects /\ q = <<"project", q[2]>>
                           \/ q[1] = "environment" /\ q[2] \in Names /\ q = <<"environment", q[2]>>
  BY DEF Resources
<1>3. ASSUME NEW p \in Projects, NEW x, projects' = [projects EXCEPT ![p] = x], UNCHANGED crs,
             NEW q \in Resources, q # <<"project", p>>
      PROVE  Stored(q)' = Stored(q)
  <2>1. CASE q[1] = "project"
    <3>1. q[2] \in Projects /\ q[2] # p
      BY <1>2, <1>3, <2>1
    <3> QED
      BY <1>1, <1>3, <2>1, <3>1 DEF Stored
  <2>2. CASE q[1] # "project"
    BY <1>3, <2>2 DEF Stored
  <2> QED
    BY <2>1, <2>2
<1>4. ASSUME NEW n \in Names, NEW x, crs' = [crs EXCEPT ![n] = x], UNCHANGED projects,
             NEW q \in Resources, q # <<"environment", n>>
      PROVE  Stored(q)' = Stored(q)
  <2>1. CASE q[1] # "project"
    <3>1. q[2] \in Names /\ q[2] # n
      BY <1>2, <1>4, <2>1
    <3> QED
      BY <1>1, <1>4, <2>1, <3>1 DEF Stored
  <2>2. CASE q[1] = "project"
    BY <1>4, <2>2 DEF Stored
  <2> QED
    BY <2>1, <2>2
<1> QED
  BY <1>3, <1>4

\* Where a request is, and what it is about.
LEMMA AskedIs ==
    ASSUME EnvTypes, NEW r \in Requests
    PROVE  /\ DOMAIN req[r] = EnvFields /\ RequestOK(req[r]) /\ Placed(req[r])
           /\ In(r).project \in Projects /\ TheProject(r) = <<"project", In(r).project>>
           /\ TheProject(r) \in Resources
           /\ req[r].at \in {"make", "find", "change", "drop", "list", "patch"} =>
                 /\ In(r).name \in Names
                 /\ TheCR(r) = <<"environment", In(r).name>> /\ TheCR(r) \in Resources
<1>1. RequestOK(req[r]) /\ (req[r].at \in {"list", "patch"} => req[r].input.op = "clone")
  BY DEF EnvTypes, AskedTyped
<1>2. Placed(req[r])
  BY EnvRests DEF EnvTypes
<1>3. In(r) = req[r].input /\ IsAsked(In(r))
  BY <1>1 DEF In, RequestOK
<1>4. In(r).project \in Projects
  BY <1>3 DEF IsAsked
<1>5. req[r].at \in {"make", "find", "change", "drop", "list", "patch"} => In(r).name \in Names
  BY <1>1, <1>2, <1>3 DEF IsAsked, Placed
<1> QED
  BY <1>1, <1>2, <1>4, <1>5 DEF Placed, TheProject, TheCR, Resources

LEMMA TypesBegin == ASSUME EnvTypes, EnvInv', NEW r \in Requests, Begin(r) PROVE EnvTypes'
<1> DEFINE y == req[r]
           place == CASE In(r).op = "createProject" -> "new"
                      [] In(r).op = "deleteProject" -> "end"
                      [] OTHER                      -> "get"
           x == [y EXCEPT !.at = place]
<1>1. Becomes(r, x) /\ UNCHANGED <<projects, crs, apps, namespaces, queue, work>> /\ y.at = "idle"
  BY DEF Begin, Reached
<1>2. place \in {"new", "end", "get"}
  OBVIOUS
<1>3. AskedTyped(y) /\ DOMAIN y = EnvFields /\ RequestOK(y)
  BY AskedIs, EndedTyped
<1> HIDE DEF place, y
<1>4. /\ DOMAIN x = EnvFields /\ x.input = y.input /\ x.todo = y.todo /\ x.ok = y.ok
      /\ x.at = place /\ x.held = y.held /\ x.fresh = y.fresh
  BY <1>3 DEF EnvFields
<1>5. x.held \in HeldAt(x.at) /\ x.at \in Places \ {"patch", "list"} /\ x.fresh \subseteq Resources
  BY <1>1, <1>2, <1>3, <1>4, HeldAtIs DEF RequestOK, Places
<1> HIDE DEF x
<1>6. AskedTyped(x)
  BY <1>3, <1>4, <1>5, MovedIs
<1> QED
  BY <1>1, <1>6, TypesRead

LEMMA TypesOfProjects ==
    ASSUME EnvTypes, EnvInv', NEW r \in Requests, CreateProject(r) \/ DeleteProject(r)
    PROVE  EnvTypes'
<1>1. /\ UNCHANGED <<crs, apps, namespaces>>
      /\ \/ (\E x : projects' = [projects EXCEPT ![In(r).project] = x]) /\ Writes(r, Ended(r, TRUE), TheProject(r))
         \/ Becomes(r, Ended(r, FALSE)) /\ UNCHANGED <<projects, queue, work>>
  BY DEF CreateProject, DeleteProject
<1>2. AskedTyped(Ended(r, TRUE)) /\ AskedTyped(Ended(r, FALSE))
  BY EndedTyped
<1>3. CASE (\E x : projects' = [projects EXCEPT ![In(r).project] = x]) /\ Writes(r, Ended(r, TRUE), TheProject(r))
  <2>1. \A q \in Resources : q # TheProject(r) => Stored(q)' = Stored(q)
    BY <1>1, <1>3, AskedIs, OneIsWritten DEF EnvTypes
  <2> QED
    BY <1>1, <1>2, <1>3, <2>1, AskedIs, TypesWrite
<1>4. CASE Becomes(r, Ended(r, FALSE)) /\ UNCHANGED <<projects, queue, work>>
  BY <1>1, <1>2, <1>4, TypesRead
<1> QED
  BY <1>1, <1>3, <1>4

LEMMA TypesGetProject == ASSUME EnvTypes, EnvInv', NEW r \in Requests, GetProject(r) PROVE EnvTypes'
<1> DEFINE y == req[r]
           p == projects[In(r).project]
           x == [y EXCEPT !.at = "put", !.held = p, !.fresh = {TheProject(r)}]
<1>1. /\ UNCHANGED <<projects, crs, apps, namespaces, queue, work>>
      /\ Becomes(r, Ended(r, FALSE)) \/ (p # Absent /\ Becomes(r, x))
  BY DEF GetProject
<1>2. AskedTyped(Ended(r, FALSE)) /\ AskedTyped(y) /\ DOMAIN y = EnvFields
  BY EndedTyped, AskedIs
<1>3. p # Absent => p \in VestaProject
  BY AskedIs, StoredIs DEF EnvTypes
<1> HIDE DEF y, p
<1>4. /\ DOMAIN x = EnvFields /\ x.input = y.input /\ x.todo = y.todo /\ x.ok = y.ok
      /\ x.at = "put" /\ x.held = p /\ x.fresh = {TheProject(r)}
  BY <1>2 DEF EnvFields
<1> HIDE DEF x
<1>5. p # Absent => AskedTyped(x)
  BY <1>2, <1>3, <1>4, AskedIs, HeldAtIs, MovedIs DEF Places
<1> QED
  BY <1>1, <1>2, <1>5, TypesRead

LEMMA AfterPutTyped ==
    ASSUME EnvTypes, NEW r \in Requests, Reached(r, "put")
    PROVE  AskedTyped(AfterPut(r))
<1> DEFINE y == req[r]
           x == AfterPut(r)
<1>1. AskedTyped(y) /\ DOMAIN y = EnvFields /\ RequestOK(y) /\ Placed(y) /\ y.at = "put"
  BY EndedTyped, AskedIs DEF Reached
<1>2. In(r) = y.input /\ In(r).op \in {"updateProject", "create", "clone", "update", "delete"}
  BY <1>1 DEF In, Placed, Edits
<1>3. CASE In(r).op = "updateProject"
  BY <1>3, EndedTyped DEF AfterPut
<1>4. CASE In(r).op # "updateProject"
  <2>1. PICK place \in {"make", "find", "drop", "list"} :
           /\ x = [y EXCEPT !.at = place, !.held = Absent]
           /\ place = "list" => In(r).op = "clone"
    BY <1>2, <1>4 DEF AfterPut
  <2> HIDE DEF x, y
  <2>2. /\ DOMAIN x = EnvFields /\ x.input = y.input /\ x.todo = y.todo /\ x.ok = y.ok
        /\ x.at = place /\ x.held = Absent /\ x.fresh = y.fresh
    BY <1>1, <2>1 DEF EnvFields
  <2>3. x.held \in HeldAt(x.at) /\ x.at \in Places \ {"patch"} /\ x.fresh \subseteq Resources
    BY <1>1, <2>2, HeldAtIs DEF RequestOK, Places
  <2>4. x.at = "list" => y.input.op = "clone"
    BY <1>2, <2>1, <2>2
  <2>5. AskedTyped(x)
    BY <1>1, <2>2, <2>3, <2>4, MovedIs
  <2> QED
    BY <2>5 DEF x
<1> QED
  BY <1>3, <1>4

LEMMA TypesPutProject == ASSUME EnvTypes, EnvInv', NEW r \in Requests, PutProject(r) PROVE EnvTypes'
<1> DEFINE x == AfterPut(r)
           p == In(r).project
<1>1. /\ UNCHANGED <<crs, apps, namespaces>> /\ Reached(r, "put")
      /\ \/ /\ projects' = [projects EXCEPT ![p] = NewSpec(r)]
            /\ \/ NewSpec(r) = projects[p] /\ Becomes(r, x) /\ UNCHANGED <<queue, work>>
               \/ Writes(r, x, TheProject(r))
         \/ Becomes(r, Ended(r, FALSE)) /\ UNCHANGED <<projects, queue, work>>
  BY DEF PutProject
<1>2. AskedTyped(Ended(r, FALSE)) /\ AskedTyped(x)
  BY <1>1, EndedTyped, AfterPutTyped
<1> HIDE DEF x
<1>3. CASE projects' = [projects EXCEPT ![p] = NewSpec(r)] /\ Writes(r, x, TheProject(r))
  <2>1. \A q \in Resources : q # TheProject(r) => Stored(q)' = Stored(q)
    BY <1>1, <1>3, AskedIs, OneIsWritten DEF EnvTypes
  <2> QED
    BY <1>1, <1>2, <1>3, <2>1, AskedIs, TypesWrite
<1>4. CASE /\ projects' = [projects EXCEPT ![p] = NewSpec(r)] /\ NewSpec(r) = projects[p]
           /\ Becomes(r, x) /\ UNCHANGED <<queue, work>>
  <2>1. DOMAIN projects = Projects
    BY DEF EnvTypes, EnvInv, EnvFrames
  <2>2. \A q \in Resources : Stored(q)' = Stored(q)
    BY <1>1, <1>4, <2>1 DEF Stored, Resources
  <2>3. AppsTyped'
    BY <1>1 DEF EnvTypes, AppsTyped
  <2> QED
    BY <1>1, <1>2, <1>4, <2>2, <2>3, TypesBecome
<1>5. CASE Becomes(r, Ended(r, FALSE)) /\ UNCHANGED <<projects, queue, work>>
  BY <1>1, <1>2, <1>5, TypesRead
<1> QED
  BY <1>1, <1>3, <1>4, <1>5

LEMMA TypesOfObjects ==
    ASSUME EnvTypes, EnvInv', NEW r \in Requests, CreateCR(r) \/ PutCR(r) \/ DeleteCR(r)
    PROVE  EnvTypes'
<1> DEFINE n == In(r).name
           x == Ended(r, TRUE)
<1>1. /\ UNCHANGED <<projects, apps, namespaces>> /\ req[r].at \in {"make", "change", "drop"}
      /\ \/ \E new : /\ crs' = [crs EXCEPT ![n] = new]
                     /\ \/ new = crs[n] /\ Becomes(r, x) /\ UNCHANGED <<queue, work>>
                        \/ Writes(r, x, TheCR(r))
         \/ Becomes(r, x) /\ UNCHANGED <<crs, queue, work>>
  <2>1. CASE CreateCR(r)
    BY <2>1 DEF CreateCR, Reached
  <2>2. CASE PutCR(r)
    BY <2>2 DEF PutCR, Reached
  <2>3. CASE DeleteCR(r)
    BY <2>3 DEF DeleteCR, Reached
  <2> QED
    BY <2>1, <2>2, <2>3
<1>2. AskedTyped(x)
  BY EndedTyped
<1>3. n \in Names /\ TheCR(r) = <<"environment", n>> /\ TheCR(r) \in Resources
  BY <1>1, AskedIs
<1> HIDE DEF x, n
<1>4. ASSUME NEW new, crs' = [crs EXCEPT ![n] = new], Writes(r, x, TheCR(r)) PROVE EnvTypes'
  <2>1. \A q \in Resources : q # TheCR(r) => Stored(q)' = Stored(q)
    BY <1>1, <1>3, <1>4, OneIsWritten DEF EnvTypes
  <2> QED
    BY <1>1, <1>2, <1>3, <1>4, <2>1, TypesWrite
<1>5. ASSUME NEW new, crs' = [crs EXCEPT ![n] = new], new = crs[n], Becomes(r, x), UNCHANGED <<queue, work>>
      PROVE  EnvTypes'
  <2>1. DOMAIN crs = Names
    BY DEF EnvTypes, EnvInv, EnvFrames
  <2>2. \A q \in Resources : Stored(q)' = Stored(q)
    BY <1>1, <1>3, <1>5, <2>1 DEF Stored, Resources
  <2>3. AppsTyped'
    BY <1>1 DEF EnvTypes, AppsTyped
  <2> QED
    BY <1>1, <1>2, <1>5, <2>2, <2>3, TypesBecome
<1>6. CASE Becomes(r, x) /\ UNCHANGED <<crs, queue, work>>
  BY <1>1, <1>2, <1>6, TypesRead
<1> QED
  BY <1>1, <1>4, <1>5, <1>6

LEMMA TypesGetCR == ASSUME EnvTypes, EnvInv', NEW r \in Requests, GetCR(r) PROVE EnvTypes'
<1> DEFINE y == req[r]
           c == crs[In(r).name]
           m == [y EXCEPT !.at = "make"]
           x == [y EXCEPT !.at = "change", !.held = c, !.fresh = {TheCR(r)}]
<1>1. /\ UNCHANGED <<projects, crs, apps, namespaces, queue, work>> /\ y.at = "find"
      /\ Becomes(r, m) \/ (c # Absent /\ Becomes(r, x))
  BY DEF GetCR, Reached
<1>2. AskedTyped(y) /\ DOMAIN y = EnvFields /\ RequestOK(y)
  BY EndedTyped, AskedIs
<1>3. c # Absent => c \in VestaEnvironment
  BY <1>1, AskedIs, StoredIs DEF EnvTypes
<1>4. TheCR(r) \in Resources
  BY <1>1, AskedIs
<1> HIDE DEF y, c
<1>5. /\ DOMAIN x = EnvFields /\ x.input = y.input /\ x.todo = y.todo /\ x.ok = y.ok
      /\ x.at = "change" /\ x.held = c /\ x.fresh = {TheCR(r)}
  BY <1>2 DEF EnvFields
<1>6. /\ DOMAIN m = EnvFields /\ m.input = y.input /\ m.todo = y.todo /\ m.ok = y.ok
      /\ m.at = "make" /\ m.held = y.held /\ m.fresh = y.fresh
  BY <1>2 DEF EnvFields
<1> HIDE DEF x, m
<1>7. c # Absent => AskedTyped(x)
  BY <1>2, <1>3, <1>4, <1>5, HeldAtIs, MovedIs DEF Places
<1>8. m.held \in HeldAt(m.at) /\ m.at \in Places \ {"patch", "list"} /\ m.fresh \subseteq Resources
  BY <1>1, <1>2, <1>6, HeldAtIs DEF RequestOK, Places
<1>9. AskedTyped(m)
  BY <1>2, <1>6, <1>8, MovedIs
<1> QED
  BY <1>1, <1>7, <1>9, TypesRead

LEMMA TypesListApps == ASSUME EnvTypes, EnvInv', NEW r \in Requests, ListApps(r) PROVE EnvTypes'
<1> DEFINE y == req[r]
           kept == {i \in DOMAIN AppOrder : Home[AppOrder[i]] = In(r).project
                                            /\ HasEnv(apps[AppOrder[i]], In(r).source)}
           found == Only(AppOrder, kept)
           x == [y EXCEPT !.at = "patch", !.todo = found, !.held = apps]
<1>1. /\ UNCHANGED <<projects, crs, apps, namespaces, queue, work>> /\ y.at = "list"
      /\ Becomes(r, Ended(r, TRUE)) \/ (found # <<>> /\ Becomes(r, x))
  BY DEF ListApps, Reached
<1>2. found \in Seq(Apps)
  <2>1. kept \in SUBSET DOMAIN AppOrder
    OBVIOUS
  <2> HIDE DEF kept
  <2> QED
    BY <2>1, EnvironmentsAssumption, OnlyIs
<1>3. AskedTyped(Ended(r, TRUE)) /\ AskedTyped(y) /\ DOMAIN y = EnvFields /\ RequestOK(y)
  BY EndedTyped, AskedIs
<1>4. apps \in [Apps -> Seq(Names)]
  BY DEF EnvTypes, AppsTyped
<1> HIDE DEF y, found
<1>5. /\ DOMAIN x = EnvFields /\ x.input = y.input /\ x.todo = found /\ x.ok = y.ok
      /\ x.at = "patch" /\ x.held = apps /\ x.fresh = y.fresh
  BY <1>3 DEF EnvFields
<1> HIDE DEF x
<1>6. y.input.op = "clone"
  BY <1>1, <1>3 DEF AskedTyped
<1>7. x.at \in Places /\ x.held \in HeldAt(x.at)
  BY <1>4, <1>5, HeldAtIs DEF Places
<1>8. found # <<>> => AskedTyped(x)
  BY <1>2, <1>3, <1>5, <1>6, <1>7 DEF AskedTyped, RequestOK, EnvFields
<1> QED
  BY <1>1, <1>3, <1>8, TypesRead

LEMMA TypesPatchApp == ASSUME EnvTypes, EnvInv', NEW r \in Requests, PatchApp(r) PROVE EnvTypes'
<1> DEFINE y    == req[r]
           a    == Head(y.todo)
           rest == Tail(y.todo)
           x    == [y EXCEPT !.todo = rest]
           n    == In(r).name
<1>1. /\ UNCHANGED <<projects, crs, namespaces, queue, work>> /\ y.at = "patch"
      /\ apps' = [apps EXCEPT ![a] = Append(y.held[a], n)] \/ UNCHANGED apps
      /\ Becomes(r, Ended(r, TRUE)) \/ (rest # <<>> /\ Becomes(r, x))
  BY DEF PatchApp, Reached
<1>2. AskedTyped(Ended(r, TRUE)) /\ AskedTyped(y) /\ DOMAIN y = EnvFields /\ RequestOK(y)
  BY EndedTyped, AskedIs
<1>3. n \in Names
  BY <1>1, AskedIs
<1>4. /\ y.todo \in Seq(Apps) /\ y.todo # <<>> /\ y.held \in [Apps -> Seq(Names)]
      /\ apps \in [Apps -> Seq(Names)]
  BY <1>1, <1>2, HeldAtIs DEF RequestOK, EnvTypes, AppsTyped
<1>5. a \in Apps /\ rest \in Seq(Apps)
  BY <1>4
<1> HIDE DEF y, a, rest, n
<1>6. apps' \in [Apps -> Seq(Names)]
  <2>1. y.held[a] \in Seq(Names)
    BY <1>4, <1>5
  <2>2. Append(y.held[a], n) \in Seq(Names)
    BY <1>3, <2>1
  <2> QED
    BY <1>1, <1>4, <2>2
<1>7. AppsTyped'
  BY <1>1, <1>6 DEF AppsTyped, EnvTypes, Apps, Names, Projects
<1>8. /\ DOMAIN x = EnvFields /\ x.input = y.input /\ x.todo = rest /\ x.ok = y.ok
      /\ x.at = y.at /\ x.held = y.held /\ x.fresh = y.fresh
  BY <1>2 DEF EnvFields
<1> HIDE DEF x
<1>9. rest # <<>> => AskedTyped(x)
  BY <1>2, <1>5, <1>8 DEF AskedTyped, RequestOK, EnvFields
<1>10. \A o \in Resources : Stored(o)' = Stored(o)
  BY <1>1 DEF Stored
<1> QED
  BY <1>1, <1>2, <1>7, <1>9, <1>10, TypesBecome

LEMMA AsAsked ==
    ASSUME EnvTypes, \/ UNCHANGED req
                     \/ \E S : req' = [q \in Requests |-> [req[q] EXCEPT !.fresh = @ \ S]]
    PROVE  \A r \in Requests : AskedTyped(req[r])'
<1>1. CASE UNCHANGED req
  BY <1>1 DEF EnvTypes, AskedTyped, RequestOK
<1>2. ASSUME NEW S, req' = [q \in Requests |-> [req[q] EXCEPT !.fresh = @ \ S]], NEW q \in Requests
      PROVE  AskedTyped(req[q])'
  <2> DEFINE y == req[q]
             z == req'[q]
  <2>1. AskedTyped(y)
    BY DEF EnvTypes
  <2>2. z = [y EXCEPT !.fresh = @ \ S]
    BY <1>2
  <2> HIDE DEF y, z
  <2>3. AskedTyped(z)
    BY <2>1, <2>2 DEF AskedTyped, RequestOK
  <2>4. AskedTyped(req[q])' <=> AskedTyped(z)
    BY DEF AskedTyped, RequestOK, z
  <2> QED
    BY <2>3, <2>4
<1> QED
  BY <1>1, <1>2

\* A step of the operator, which writes nothing of a request but what is no longer fresh.
LEMMA TypesOperate ==
    ASSUME EnvTypes, EnvInv', UNCHANGED apps, \A r \in Requests : AskedTyped(req[r])',
           namespaces \subseteq namespaces', namespaces' \subseteq Projects \X Names,
           QueuesOK(queue'), \A k \in Controllers : InHand(k)',
           \A o \in Resources : Stored(o)' # Absent =>
               \/ Awaits(o)'
               \/ Stored(o)' = Stored(o) /\ (Awaits(o) => Settled(o)')
    PROVE  EnvTypes'
<1>1. NoneOverlooked'
  BY StillSeen DEF EnvTypes
<1>2. AppsTyped'
  BY DEF EnvTypes, AppsTyped, Projects, Names
<1>3. QueuesOK(queue)'
  BY DEF QueuesOK
<1> QED
  BY <1>1, <1>2, <1>3 DEF EnvTypes, Controllers

LEMMA InHandIs ==
    ASSUME EnvTypes, NEW k \in Controllers, work[k] # Absent
    PROVE  /\ work[k] \in Work(k) /\ work[k].name \in NamesOf(k)
           /\ DOMAIN work[k] = {"name", "seen", "fresh", "at"}
           /\ work[k].seen \in (IF k = "project" THEN VestaProject ELSE VestaEnvironment)
           /\ Object(k) = <<k, work[k].name>> /\ Object(k) \in Resources
           /\ work[k].fresh => work[k].seen = Stored(Object(k))
<1>1. work[k] \in Work(k)
  BY DEF EnvTypes, InHand
<1> DEFINE S == IF k = "project" THEN VestaProject ELSE VestaEnvironment
           N == NamesOf(k)
           w == work[k]
<1>2. Work(k) = [name : N, seen : S, fresh : BOOLEAN, at : {"label", "namespace", "status"}]
  BY DEF Work
<1> HIDE DEF S, N, w
<1>3. w \in Work(k)
  BY <1>1 DEF w
<1>4. w.name \in N /\ DOMAIN w = {"name", "seen", "fresh", "at"} /\ w.seen \in S
  BY <1>2, <1>3
<1>5. Object(k) = <<k, w.name>> /\ Object(k) \in Resources
  BY <1>4, ResourcesAre DEF Object, N, w
<1>6. w.fresh => w.seen = Stored(Object(k))
  BY <1>5 DEF EnvTypes, EnvInv, LooksAt, w
<1> QED
  BY <1>1, <1>4, <1>5, <1>6 DEF S, N, w

\* The controller k has done something about the object it has in hand, or has left off.
LEMMA OneTurns ==
    ASSUME EnvTypes, EnvInv', NEW k \in Controllers, work[k] # Absent, NEW w, NEW o, o = Object(k),
           work' = [work EXCEPT ![k] = w], InHand(k)',
           UNCHANGED apps, \A r \in Requests : AskedTyped(req[r])',
           namespaces \subseteq namespaces', namespaces' \subseteq Projects \X Names,
           QueuesOK(queue'), \A p \in Resources : QueuedIn(queue, p) => QueuedIn(queue', p),
           \A p \in Resources : p # o => Stored(p)' = Stored(p),
           \/ QueuedIn(queue', o)
           \/ /\ Stored(o)' = Stored(o)
              /\ (w # Absent /\ w.name = work[k].name) \/ Settled(o)'
    PROVE  EnvTypes'
<1>1. work'[k] = w /\ \A j \in Controllers : j # k => work'[j] = work[j]
  BY DEF EnvTypes, EnvInv, EnvFrames
<1>2. ASSUME NEW j \in Controllers PROVE InHand(j)'
  <2>1. CASE j = k
    BY <2>1
  <2>2. CASE j # k
    BY <1>1, <2>2 DEF EnvTypes, InHand, SeenSettled
  <2> QED
    BY <2>1, <2>2
<1>3. o = <<k, work[k].name>> /\ o \in Resources
  BY InHandIs
<1>4. ASSUME NEW p \in Resources
      PROVE  \/ Awaits(p)'
             \/ Stored(p)' = Stored(p) /\ (Awaits(p) => Settled(p)')
  <2>0. p[1] \in Controllers /\ p = <<p[1], p[2]>>
    BY ResourcesAre
  <2>1. QueuedIn(queue', p) => Awaits(p)'
    BY DEF Awaits, QueuedIn
  <2>2. CASE p = o
    <3>1. p[1] = k /\ p[2] = work[k].name
      BY <1>3, <2>2
    <3>2. w # Absent /\ w.name = work[k].name => Awaits(p)'
      BY <1>1, <3>1 DEF Awaits
    <3> QED
      BY <2>1, <2>2, <3>2
  <2>3. CASE p # o
    <3>1. Stored(p)' = Stored(p)
      BY <2>3
    <3>2. CASE QueuedIn(queue, p)
      BY <2>1, <3>2
    <3>3. CASE work[p[1]] # Absent /\ work[p[1]].name = p[2]
      <4>1. p[1] # k
        BY <1>3, <2>0, <2>3, <3>3
      <4>2. work'[p[1]] = work[p[1]]
        BY <1>1, <2>0, <4>1
      <4> QED
        BY <3>3, <4>2 DEF Awaits
    <3> QED
      BY <3>1, <3>2, <3>3 DEF Awaits, QueuedIn
  <2> QED
    BY <2>2, <2>3
<1> QED
  BY <1>2, <1>4, TypesOperate

\* Work that is given up is queued again.
LEMMA TypesAgain ==
    ASSUME EnvTypes, EnvInv', NEW k \in Controllers, work[k] # Absent, Again(k),
           UNCHANGED <<projects, crs, apps, namespaces, req>>
    PROVE  EnvTypes'
<1>1. queue' = Enqueue(queue, Object(k)) /\ work' = [work EXCEPT ![k] = Absent]
  BY DEF Again
<1>2. /\ QueuesOK(queue') /\ QueuedIn(queue', Object(k))
      /\ \A p \in Resources : QueuedIn(queue, p) => QueuedIn(queue', p)
  BY <1>1, InHandIs, EnqueueIs DEF EnvTypes
<1>3. \A p : Stored(p)' = Stored(p)
  BY DEF Stored
<1>4. InHand(k)'
  BY <1>1 DEF InHand, EnvTypes, EnvInv, EnvFrames
<1>5. namespaces' \subseteq Projects \X Names
  BY DEF EnvTypes, AppsTyped
<1> QED
  BY <1>1, <1>2, <1>3, <1>4, <1>5, AsAsked, OneTurns

\* Nothing is written, and the object stays in hand.
LEMMA TypesGoOn ==
    ASSUME EnvTypes, EnvInv', NEW k \in Controllers, work[k] # Absent,
           NEW place \in {"namespace", "status"}, GoesOn(k, place), SeenSettled(k, work[k].seen),
           k = "project" => place = "status",
           k = "environment" /\ place = "status" =>
              <<work[k].seen.project, work[k].name>> \in namespaces',
           UNCHANGED <<projects, crs, apps, req, queue>>,
           namespaces \subseteq namespaces', namespaces' \subseteq Projects \X Names
    PROVE  EnvTypes'
<1> DEFINE w == [work[k] EXCEPT !.at = place]
<1>1. work' = [work EXCEPT ![k] = w] /\ DOMAIN work = Controllers
  BY DEF GoesOn, EnvTypes, EnvInv, EnvFrames
<1>2. /\ w \in Work(k) /\ w.name = work[k].name /\ w.seen = work[k].seen /\ w.at = place
  <2> DEFINE S == IF k = "project" THEN VestaProject ELSE VestaEnvironment
             N == NamesOf(k)
             v == work[k]
  <2>1. Work(k) = [name : N, seen : S, fresh : BOOLEAN, at : {"label", "namespace", "status"}]
    BY DEF Work
  <2>2. v \in Work(k)
    BY InHandIs
  <2> HIDE DEF S, N, v
  <2> QED
    BY <2>1, <2>2 DEF v
<1> HIDE DEF w
<1>3. w # Absent
  BY <1>2, EnvironmentsAssumption
<1>4. InHand(k)'
  BY <1>1, <1>2 DEF InHand, SeenSettled, Controllers
<1>5. \A p : Stored(p)' = Stored(p)
  BY DEF Stored
<1>6. QueuesOK(queue') /\ \A p \in Resources : QueuedIn(queue, p) => QueuedIn(queue', p)
  BY DEF EnvTypes
<1> QED
  BY <1>1, <1>2, <1>3, <1>4, <1>5, <1>6, AsAsked, OneTurns

\* The operator has written x over what it has read, and goes on or is done.
LEMMA TypesRewrite ==
    ASSUME EnvTypes, EnvInv', NEW k \in Controllers, work[k] # Absent, NEW place,
           NEW x \in (IF k = "project" THEN VestaProject ELSE VestaEnvironment), Rewrites(k, x, place),
           place # Absent => /\ place = (IF k = "project" THEN "status" ELSE "namespace")
                             /\ SeenSettled(k, x),
           UNCHANGED <<apps, namespaces>>
    PROVE  EnvTypes'
<1> DEFINE o == Object(k)
           w == IF place = Absent THEN Absent ELSE [work[k] EXCEPT !.seen = x, !.at = place]
<1>1. /\ req' = [q \in Requests |-> [req[q] EXCEPT !.fresh = @ \ {o}]]
      /\ queue' = Enqueue(queue, o) /\ work' = [work EXCEPT ![k] = w]
  BY DEF Rewrites
<1>2. DOMAIN work = Controllers
  BY DEF EnvTypes, EnvInv, EnvFrames
<1>3. ASSUME place # Absent
      PROVE  w \in Work(k) /\ w.name = work[k].name /\ w.seen = x /\ w.at = place
  <2> DEFINE S == IF k = "project" THEN VestaProject ELSE VestaEnvironment
             N == NamesOf(k)
             v == work[k]
             B == BOOLEAN
             P == {"label", "namespace", "status"}
  <2>1. Work(k) = [name : N, seen : S, fresh : B, at : P]
    BY DEF Work
  <2>2. v \in Work(k) /\ x \in S /\ place \in P
    BY <1>3, InHandIs
  <2>3. w = [v EXCEPT !.seen = x, !.at = place]
    BY <1>3
  <2> HIDE DEF S, N, B, P, v, w
  <2>4. v.name \in N /\ v.fresh \in B /\ DOMAIN v = {"name", "seen", "fresh", "at"}
    BY <2>1, <2>2
  <2>5. w = [name |-> v.name, seen |-> x, fresh |-> v.fresh, at |-> place]
    BY <2>3, <2>4
  <2>6. w \in Work(k) /\ w.name = v.name /\ w.seen = x /\ w.at = place
    BY <2>1, <2>2, <2>4, <2>5
  <2> QED
    BY <2>6 DEF v
<1>4. InHand(k)'
  <2>1. work'[k] = w
    BY <1>1, <1>2
  <2>2. CASE place = Absent
    BY <2>1, <2>2 DEF InHand
  <2>3. CASE place # Absent
    <3> HIDE DEF w
    <3> QED
      BY <1>3, <2>1, <2>3 DEF InHand, SeenSettled, Controllers
  <2> QED
    BY <2>2, <2>3
<1> HIDE DEF w
<1>5. o = <<k, work[k].name>> /\ o \in Resources /\ work[k].name \in NamesOf(k)
  BY InHandIs
<1>6. /\ QueuesOK(queue') /\ QueuedIn(queue', o)
      /\ \A p \in Resources : QueuedIn(queue, p) => QueuedIn(queue', p)
  BY <1>1, <1>5, EnqueueIs DEF EnvTypes
<1>7. \A p \in Resources : p # o => Stored(p)' = Stored(p)
  <2> DEFINE n == work[k].name
  <2>1. CASE k = "project"
    <3>1. n \in Projects /\ o = <<"project", n>>
      BY <1>5, <2>1 DEF NamesOf
    <3>2. projects' = [projects EXCEPT ![n] = x] /\ UNCHANGED crs
      BY <2>1 DEF Rewrites
    <3> HIDE DEF n
    <3> QED
      BY <3>1, <3>2, OneIsWritten DEF EnvTypes
  <2>2. CASE k = "environment"
    <3>1. n \in Names /\ o = <<"environment", n>>
      BY <1>5, <2>2 DEF NamesOf
    <3>2. crs' = [crs EXCEPT ![n] = x] /\ UNCHANGED projects
      BY <2>2 DEF Rewrites
    <3> HIDE DEF n
    <3> QED
      BY <3>1, <3>2, OneIsWritten DEF EnvTypes
  <2> QED
    BY <2>1, <2>2 DEF Controllers
<1>8. namespaces' \subseteq Projects \X Names
  BY DEF EnvTypes, AppsTyped
<1>9. \A r \in Requests : AskedTyped(req[r])'
  BY <1>1, AsAsked
<1> QED
  BY <1>1, <1>4, <1>6, <1>7, <1>8, <1>9, OneTurns

LEMMA LabelledIs ==
    ASSUME NEW k \in Controllers, NEW x \in (IF k = "project" THEN VestaProject ELSE VestaEnvironment)
    PROVE  /\ Labelled(k, x) \in (IF k = "project" THEN VestaProject ELSE VestaEnvironment)
           /\ SeenSettled(k, Labelled(k, x))
           /\ Labelled(k, x) = x => SeenSettled(k, x)
<1>1. CASE k = "project"
  BY <1>1, ProjectIs DEF SeenSettled
<1>2. CASE k = "environment"
  BY <1>2, EnvironmentIs DEF SeenSettled
<1> QED
  BY <1>1, <1>2 DEF Controllers

LEMMA TypesLabel == ASSUME EnvTypes, EnvInv', NEW k \in Controllers, Label(k) PROVE EnvTypes'
<1> DEFINE x    == work[k].seen
           next == IF k = "project" THEN "status" ELSE "namespace"
<1>1. work[k] # Absent /\ UNCHANGED <<apps, namespaces>>
  BY DEF Label, Working
<1>2. x \in (IF k = "project" THEN VestaProject ELSE VestaEnvironment)
  BY <1>1, InHandIs
<1>3. CASE Labelled(k, x) = x /\ GoesOn(k, next) /\ UNCHANGED <<projects, crs, req, queue>>
  <2>1. SeenSettled(k, x) /\ namespaces' \subseteq Projects \X Names
    BY <1>1, <1>2, <1>3, LabelledIs DEF EnvTypes, AppsTyped
  <2>2. next \in {"namespace", "status"} /\ (k = "environment" => next # "status")
    OBVIOUS
  <2> QED
    BY <1>1, <1>3, <2>1, <2>2, TypesGoOn
<1>4. CASE Rewrites(k, Labelled(k, x), next)
  BY <1>1, <1>2, <1>4, LabelledIs, TypesRewrite
<1>5. CASE Again(k) /\ UNCHANGED <<projects, crs, req>>
  BY <1>1, <1>5, TypesAgain
<1> QED
  BY <1>3, <1>4, <1>5 DEF Label

LEMMA TypesNamespace == ASSUME EnvTypes, EnvInv', EnsureNamespace PROVE EnvTypes'
<1> DEFINE k == "environment"
           s == <<work[k].seen.project, work[k].name>>
<1>1. /\ k \in Controllers /\ work[k] # Absent /\ work[k].at = "namespace"
      /\ namespaces' = namespaces \cup {s} /\ GoesOn(k, "status")
      /\ UNCHANGED <<projects, crs, apps, req, queue>>
  BY DEF EnsureNamespace, Working, Controllers
<1>2. SeenSettled(k, work[k].seen)
  BY <1>1 DEF EnvTypes, InHand
<1>3. s \in Projects \X Names
  <2>1. work[k].seen \in VestaEnvironment /\ work[k].name \in Names
    BY <1>1, InHandIs DEF NamesOf
  <2> QED
    BY <2>1, EnvironmentIs
<1>4. namespaces \subseteq namespaces' /\ namespaces' \subseteq Projects \X Names /\ s \in namespaces'
  BY <1>1, <1>3 DEF EnvTypes, AppsTyped
<1> QED
  BY <1>1, <1>2, <1>4, TypesGoOn

\* What is taken out of hand has the labels and the namespace it should have.
LEMMA TypesStatus == ASSUME EnvTypes, EnvInv', NEW k \in Controllers, Status(k) PROVE EnvTypes'
<1> DEFINE x == work[k].seen
           y == [x EXCEPT !.count = Counted(k, x)]
<1>1. work[k] # Absent /\ work[k].at = "status" /\ UNCHANGED <<apps, namespaces>>
  BY DEF Status, Working
<1>2. x \in (IF k = "project" THEN VestaProject ELSE VestaEnvironment)
  BY <1>1, InHandIs
<1>3. CASE Again(k) /\ UNCHANGED <<projects, crs, req>>
  BY <1>1, <1>3, TypesAgain
<1>4. CASE /\ work[k].fresh /\ work' = [work EXCEPT ![k] = Absent]
           /\ UNCHANGED <<projects, crs, req, queue>>
  <2>1. /\ x = Stored(Object(k)) /\ Object(k) = <<k, work[k].name>>
    BY <1>1, <1>4, InHandIs
  <2>2. SeenSettled(k, x) /\ (k = "environment" => <<x.project, work[k].name>> \in namespaces)
    BY <1>1 DEF EnvTypes, InHand
  <2>3. Settled(Object(k))
    BY <2>1, <2>2 DEF SeenSettled, Settled, Stored, Controllers
  <2>0. PICK o : o = Object(k)
    OBVIOUS
  <2>4. Settled(o)'
    BY <1>1, <1>4, <2>0, <2>3 DEF Settled
  <2>5. \A p : Stored(p)' = Stored(p)
    BY <1>4 DEF Stored
  <2>6. InHand(k)'
    BY <1>4 DEF InHand, EnvTypes, EnvInv, EnvFrames
  <2>7. /\ QueuesOK(queue') /\ namespaces' \subseteq Projects \X Names
        /\ \A p \in Resources : QueuedIn(queue, p) => QueuedIn(queue', p)
    BY <1>1, <1>4 DEF EnvTypes, AppsTyped
  <2> QED
    BY <1>1, <1>4, <2>0, <2>4, <2>5, <2>6, <2>7, AsAsked, OneTurns
<1>5. CASE Rewrites(k, y, Absent)
  <2>1. Counted(k, x) \in Counts(k)
    BY CountedIs
  <2>2. y \in (IF k = "project" THEN VestaProject ELSE VestaEnvironment)
    BY <1>2, <2>1, ProjectIs, EnvironmentIs DEF Counts
  <2> QED
    BY <1>1, <1>5, <2>2, TypesRewrite
<1> QED
  BY <1>1, <1>3, <1>4, <1>5 DEF Status

\* What is not taken from a list stays in it, a place further to the front.
LEMMA TailIs ==
    ASSUME NEW S, NEW s \in Seq(S), s # <<>>, Once(s)
    PROVE  /\ Tail(s) \in Seq(S) /\ Once(Tail(s)) /\ Head(s) \in S
           /\ \A i \in DOMAIN s : s[i] = Head(s) \/ \E j \in DOMAIN Tail(s) : Tail(s)[j] = s[i]
<1> DEFINE t == Tail(s)
           n == Len(s)
<1>1. /\ t \in Seq(S) /\ Head(s) \in S /\ Head(s) = s[1] /\ n \in Nat /\ n >= 1
      /\ DOMAIN s = 1..n /\ DOMAIN t = 1..(n - 1)
      /\ \A j \in 1..(n - 1) : t[j] = s[j + 1] /\ j + 1 \in 1..n
  OBVIOUS
<1> HIDE DEF t, n
<1>2. ASSUME NEW i \in DOMAIN t, NEW j \in DOMAIN t, t[i] = t[j] PROVE i = j
  <2>1. /\ i \in Nat /\ j \in Nat /\ i + 1 \in DOMAIN s /\ j + 1 \in DOMAIN s
        /\ s[i + 1] = s[j + 1]
    BY <1>1, <1>2
  <2>2. i + 1 = j + 1
    BY <2>1 DEF Once
  <2> QED
    BY <2>1, <2>2
<1>3. ASSUME NEW i \in DOMAIN s, i # 1 PROVE \E j \in DOMAIN t : t[j] = s[i]
  <2>1. i \in Nat /\ i - 1 \in 1..(n - 1) /\ (i - 1) + 1 = i
    BY <1>1, <1>3
  <2>2. i - 1 \in DOMAIN t /\ t[i - 1] = s[i]
    BY <1>1, <2>1
  <2> QED
    BY <2>2
<1> QED
  BY <1>1, <1>2, <1>3 DEF Once, t

\* A controller takes up the first object of its queue, and has it in hand unless it is gone.
LEMMA TypesTake == ASSUME EnvTypes, EnvInv', NEW k \in Controllers, Take(k) PROVE EnvTypes'
<1> DEFINE s == queue[k]
           n == Head(s)
           x == Stored(<<k, n>>)
           w == IF x = Absent THEN Absent ELSE [name |-> n, seen |-> x, fresh |-> TRUE, at |-> "label"]
<1>1. /\ work[k] = Absent /\ s # <<>>
      /\ work' = [work EXCEPT ![k] = w] /\ queue' = [queue EXCEPT ![k] = Tail(s)]
      /\ UNCHANGED <<projects, crs, apps, namespaces, req>>
  BY DEF Take
<1>2. DOMAIN work = Controllers /\ DOMAIN queue = Controllers
  BY DEF EnvTypes, EnvInv, EnvFrames, QueuesOK
<1>3. s \in Seq(NamesOf(k)) /\ Once(s)
  BY DEF EnvTypes, QueuesOK
<1>4. /\ Tail(s) \in Seq(NamesOf(k)) /\ Once(Tail(s)) /\ n \in NamesOf(k)
      /\ \A i \in DOMAIN s : s[i] = n \/ \E j \in DOMAIN Tail(s) : Tail(s)[j] = s[i]
  BY <1>1, <1>3, TailIs
<1>5. /\ work'[k] = w /\ queue'[k] = Tail(s)
      /\ \A j \in Controllers : j # k => work'[j] = work[j] /\ queue'[j] = queue[j]
  BY <1>1, <1>2
<1>6. DOMAIN queue' = Controllers
  BY <1>1, <1>2
<1>7. QueuesOK(queue')
  BY <1>4, <1>5, <1>6 DEF EnvTypes, QueuesOK
<1>8. \A p : Stored(p)' = Stored(p)
  BY <1>1 DEF Stored
<1>9. x # Absent => x \in (IF k = "project" THEN VestaProject ELSE VestaEnvironment)
  <2>1. CASE k = "project"
    BY <1>4, <2>1, StoredIs DEF EnvTypes, Stored, NamesOf
  <2>2. CASE k = "environment"
    BY <1>4, <2>2, StoredIs DEF EnvTypes, Stored, NamesOf
  <2> QED
    BY <2>1, <2>2 DEF Controllers
<1>10. ASSUME x # Absent PROVE w \in Work(k) /\ w.name = n /\ w.at = "label" /\ w # Absent
  <2> DEFINE S == IF k = "project" THEN VestaProject ELSE VestaEnvironment
             N == NamesOf(k)
             B == BOOLEAN
  <2>1. Work(k) = [name : N, seen : S, fresh : B, at : {"label", "namespace", "status"}] /\ TRUE \in B
    BY DEF Work
  <2>2. x \in S /\ n \in N
    BY <1>4, <1>9, <1>10
  <2>3. w = [name |-> n, seen |-> x, fresh |-> TRUE, at |-> "label"]
    BY <1>10
  <2> HIDE DEF S, N, B, n, x, w
  <2>4. w \in Work(k) /\ w.name = n /\ w.at = "label"
    BY <2>1, <2>2, <2>3
  <2> QED
    BY <2>4, EnvironmentsAssumption
<1>11. x = Absent => w = Absent
  OBVIOUS
<1> HIDE DEF n, w, s
<1>12. ASSUME NEW j \in Controllers PROVE InHand(j)'
  <2>1. CASE j = k
    BY <1>5, <1>10, <1>11, <2>1 DEF InHand
  <2>2. CASE j # k
    <3>1. work'[j] = work[j] /\ namespaces' = namespaces /\ InHand(j)
      BY <1>1, <1>5, <2>2 DEF EnvTypes
    <3> QED
      BY <3>1 DEF InHand, SeenSettled
  <2> QED
    BY <2>1, <2>2
<1>13. ASSUME NEW p \in Resources, Stored(p)' # Absent, Awaits(p) PROVE Awaits(p)'
  <2>0. p[1] \in Controllers /\ p = <<p[1], p[2]>> /\ Stored(p) # Absent
    BY <1>8, <1>13, ResourcesAre
  <2>1. CASE p[1] # k
    BY <1>5, <1>13, <2>0, <2>1 DEF Awaits
  <2>2. CASE p[1] = k
    <3>1. PICK i \in DOMAIN s : s[i] = p[2]
      BY <1>1, <1>13, <2>2 DEF Awaits, s
    <3>2. CASE p[2] = n
      <4>1. p = <<k, n>>
        BY <2>0, <2>2, <3>2
      <4>2. x # Absent
        BY <2>0, <4>1
      <4> QED
        BY <1>5, <1>10, <2>2, <3>2, <4>2 DEF Awaits
    <3>3. CASE \E j \in DOMAIN Tail(s) : Tail(s)[j] = p[2]
      BY <1>5, <2>2, <3>3 DEF Awaits
    <3> QED
      BY <1>4, <3>1, <3>2, <3>3
  <2> QED
    BY <2>1, <2>2
<1>14. \A p \in Resources : Stored(p)' # Absent =>
          Awaits(p)' \/ (Stored(p)' = Stored(p) /\ (Awaits(p) => Settled(p)'))
  BY <1>8, <1>13
<1>15. namespaces \subseteq namespaces' /\ namespaces' \subseteq Projects \X Names
  BY <1>1 DEF EnvTypes, AppsTyped
<1>16. \A r \in Requests : AskedTyped(req[r])'
  BY <1>1, AsAsked
<1> QED
  BY <1>1, <1>7, <1>12, <1>14, <1>15, <1>16, TypesOperate

\* All there is waits in a queue once more.
LEMMA TypesRestarts == ASSUME EnvTypes, EnvInv', OperatorRestarts PROVE EnvTypes'
<1> DEFINE ps == {i \in DOMAIN ProjectOrder : projects[ProjectOrder[i]] # Absent}
           ns == {i \in DOMAIN NameOrder : crs[NameOrder[i]] # Absent}
           P == Only(ProjectOrder, ps)
           N == Only(NameOrder, ns)
<1>1. /\ work' = [k \in Controllers |-> Absent]
      /\ queue' = [k \in Controllers |-> IF k = "project" THEN P ELSE N]
      /\ UNCHANGED <<projects, crs, apps, namespaces, req>>
  BY DEF OperatorRestarts
<1>2. /\ ProjectOrder \in Seq(Projects) /\ Once(ProjectOrder)
      /\ NameOrder \in Seq(Names) /\ Once(NameOrder)
  BY EnvironmentsAssumption
<1>3. ps \in SUBSET DOMAIN ProjectOrder /\ ns \in SUBSET DOMAIN NameOrder
  OBVIOUS
<1>4. \A q \in Projects : projects[q] # Absent => \E i \in ps : ProjectOrder[i] = q
  BY DEF Projects
<1>5. \A q \in Names : crs[q] # Absent => \E i \in ns : NameOrder[i] = q
  BY DEF Names
<1> HIDE DEF ps, ns
<1>6. /\ P \in Seq(Projects) /\ Once(P)
      /\ \A i \in ps : \E j \in DOMAIN P : P[j] = ProjectOrder[i]
  BY <1>2, <1>3, OnlyIs
<1>7. /\ N \in Seq(Names) /\ Once(N)
      /\ \A i \in ns : \E j \in DOMAIN N : N[j] = NameOrder[i]
  BY <1>2, <1>3, OnlyIs
<1> HIDE DEF P, N
<1>8. QueuesOK(queue')
  BY <1>1, <1>6, <1>7 DEF QueuesOK, NamesOf, Controllers
<1>9. ASSUME NEW o \in Resources, Stored(o)' # Absent PROVE Awaits(o)'
  <2>1. CASE o[1] = "project"
    <3>1. o[2] \in Projects /\ projects[o[2]] # Absent
      BY <1>1, <1>9, <2>1, ResourcesAre DEF Stored, NamesOf
    <3>2. queue'["project"] = P /\ \E j \in DOMAIN P : P[j] = o[2]
      BY <1>1, <1>4, <1>6, <3>1 DEF Controllers
    <3> QED
      BY <2>1, <3>2 DEF Awaits
  <2>2. CASE o[1] = "environment"
    <3>1. o[2] \in Names /\ crs[o[2]] # Absent
      BY <1>1, <1>9, <2>2, ResourcesAre DEF Stored, NamesOf
    <3>2. queue'["environment"] = N /\ \E j \in DOMAIN N : N[j] = o[2]
      BY <1>1, <1>5, <1>7, <3>1 DEF Controllers
    <3> QED
      BY <2>2, <3>2 DEF Awaits
  <2> QED
    BY <2>1, <2>2, ResourcesAre DEF Controllers
<1>10. \A k \in Controllers : InHand(k)'
  BY <1>1 DEF InHand
<1>11. namespaces \subseteq namespaces' /\ namespaces' \subseteq Projects \X Names
  BY <1>1 DEF EnvTypes, AppsTyped
<1>12. \A r \in Requests : AskedTyped(req[r])'
  BY <1>1, AsAsked
<1> QED
  BY <1>1, <1>8, <1>9, <1>10, <1>11, <1>12, TypesOperate

LEMMA TypesNext == ASSUME EnvTypes, [NextEnvironments]_environmentVars PROVE EnvTypes'
<1>0. EnvInv'
  BY EnvNext DEF EnvTypes
<1>1. CASE UNCHANGED environmentVars
  <2>1. UNCHANGED <<projects, crs, apps, namespaces, req, queue, work>>
    BY <1>1 DEF environmentVars
  <2>2. QueuesOK(queue') /\ namespaces' \subseteq Projects \X Names
    BY <2>1 DEF EnvTypes, AppsTyped
  <2>3. \A k \in Controllers : InHand(k)'
    BY <2>1 DEF EnvTypes, InHand, SeenSettled
  <2>4. \A o \in Resources : Stored(o)' # Absent =>
           Awaits(o)' \/ (Stored(o)' = Stored(o) /\ (Awaits(o) => Settled(o)'))
    BY <2>1 DEF Awaits, Stored
  <2>5. \A r \in Requests : AskedTyped(req[r])'
    BY <2>1, AsAsked
  <2> QED
    BY <1>0, <2>1, <2>2, <2>3, <2>4, <2>5, TypesOperate
<1>2. ASSUME NEW r \in Requests, Begin(r) \/ Step(r) PROVE EnvTypes'
  BY <1>0, <1>2, TypesBegin, TypesOfProjects, TypesGetProject, TypesPutProject, TypesOfObjects,
     TypesGetCR, TypesListApps, TypesPatchApp DEF Step
<1>3. ASSUME NEW k \in Controllers, Reconcile(k) \/ OperatorFails(k) PROVE EnvTypes'
  <2>1. CASE OperatorFails(k)
    BY <1>0, <2>1, TypesAgain DEF OperatorFails
  <2> QED
    BY <1>0, <1>3, <2>1, TypesTake, TypesLabel, TypesStatus DEF Reconcile
<1>4. CASE EnsureNamespace \/ OperatorRestarts
  BY <1>0, <1>4, TypesNamespace, TypesRestarts
<1> QED
  BY <1>1, <1>2, <1>3, <1>4 DEF NextEnvironments

\* Projects and VestaEnvironments are found by their names.
Tables == projects = [p \in Projects |-> projects[p]] /\ crs = [n \in Names |-> crs[n]]

LEMMA TablesNext == ASSUME EnvInv, Tables, [NextEnvironments]_environmentVars PROVE Tables'
<1>1. \/ UNCHANGED projects
      \/ \E p, x : projects' = [projects EXCEPT ![p] = x]
  BY DEF NextEnvironments, Step, Reconcile, Begin, CreateProject, DeleteProject, GetProject,
         PutProject, CreateCR, GetCR, PutCR, DeleteCR, ListApps, PatchApp, Take, Label, Rewrites,
         Status, OperatorFails, EnsureNamespace, OperatorRestarts, environmentVars
<1>2. \/ UNCHANGED crs
      \/ \E n, x : crs' = [crs EXCEPT ![n] = x]
  BY DEF NextEnvironments, Step, Reconcile, Begin, CreateProject, DeleteProject, GetProject,
         PutProject, CreateCR, GetCR, PutCR, DeleteCR, ListApps, PatchApp, Take, Label, Rewrites,
         Status, OperatorFails, EnsureNamespace, OperatorRestarts, environmentVars
<1>3. DOMAIN projects = Projects /\ DOMAIN crs = Names
  BY DEF EnvInv, EnvFrames
<1>4. projects' = [p \in Projects |-> projects'[p]]
  BY <1>1, <1>3 DEF Tables
<1>5. crs' = [n \in Names |-> crs'[n]]
  BY <1>2, <1>3 DEF Tables
<1> QED
  BY <1>4, <1>5 DEF Tables, Projects, Names

LEMMA EnvTypesAre == ASSUME EnvTypes, Tables PROVE EnvironmentsTypeOK
<1>1. projects \in [Projects -> VestaProject \cup {Absent}]
  BY StoredIs DEF EnvTypes, Tables
<1>2. crs \in [Names -> VestaEnvironment \cup {Absent}]
  BY StoredIs DEF EnvTypes, Tables
<1>3. DOMAIN req = Requests /\ DOMAIN work = Controllers
  BY DEF EnvTypes, EnvInv, EnvFrames
<1>4. \A r \in Requests : RequestOK(req[r])
  BY DEF EnvTypes, AskedTyped
<1>5. \A k \in Controllers : work[k] \in Work(k) \cup {Absent}
  BY DEF EnvTypes, InHand
<1> QED
  BY <1>1, <1>2, <1>3, <1>4, <1>5 DEF EnvironmentsTypeOK, EnvTypes, AppsTyped, QueuesOK

\* In every reachable state the objects, the requests and what the controllers have in hand
\* are what their types allow; an object is queued at most once, and a clone is among the
\* applications only while it has one to go on to.
THEOREM EnvironmentsTypeCorrect == SpecEnvironments => []EnvironmentsTypeOK
<1>1. InitEnvironments => EnvTypes /\ Tables
  BY TypesInitially DEF InitEnvironments, Tables
<1>2. EnvTypes /\ Tables /\ [NextEnvironments]_environmentVars => EnvTypes' /\ Tables'
  BY TypesNext, TablesNext DEF EnvTypes
<1>3. EnvTypes /\ Tables => EnvironmentsTypeOK
  BY EnvTypesAre
<1> QED
  BY <1>1, <1>2, <1>3, PTL DEF SpecEnvironments

\* The operator overlooks no project and no VestaEnvironment: what is neither queued nor in
\* hand has its labels and its namespace as it is now, however many requests write meanwhile,
\* conflicts make a round over again, or the operator restarts (Reconcile of both controllers).
THEOREM NothingOverlooked == SpecEnvironments => []NoneOverlooked
<1>1. InitEnvironments => EnvTypes
  BY TypesInitially
<1>2. EnvTypes /\ [NextEnvironments]_environmentVars => EnvTypes'
  BY TypesNext
<1>3. EnvTypes => NoneOverlooked
  BY DEF EnvTypes
<1> QED
  BY <1>1, <1>2, <1>3, PTL DEF SpecEnvironments

=============================================================================
