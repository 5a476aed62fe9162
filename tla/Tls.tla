---------------------------------- MODULE Tls ----------------------------------
(***************************************************************************)
(* What a connection asks of TLS and what its driver is given: capability  *)
(* matrix, files of certificates and parameters of each strategy.          *)
(***************************************************************************)

\* The strategy of each driver, and what the matrix grants it.
Strategy ==
    [postgresql |-> "postgres_files", timescaledb |-> "postgres_files", mysql |-> "ssl_context",
     sqlserver |-> "sqlserver_odbc", mongodb |-> "mongodb_files", redis |-> "redis_files",
     couchdb |-> "ssl_context", cassandra |-> "ssl_context", clickhouse |-> "clickhouse_files",
     elasticsearch |-> "ssl_context", opensearch |-> "ssl_context",
     influxdb |-> "influxdb_files", neo4j |-> "ssl_context", milvus |-> "milvus_files",
     qdrant |-> "system_trust_only", weaviate |-> "ssl_context"]

Drivers == DOMAIN Strategy

CustomCa == Drivers \ {"sqlserver", "qdrant"}
Mtls == CustomCa
ServerNameOverride == {"sqlserver", "cassandra", "clickhouse", "opensearch", "milvus"}
Tls13Control ==
    {d \in Drivers : Strategy[d] \in {"postgres_files", "ssl_context", "redis_files"}}

\* A request names material by kind; its server name is none, that of its endpoint, or
\* another.
Material == {"ca_certificate", "client_certificate", "client_private_key",
             "client_private_key_password"}

Requests == [driver: Drivers, enabled: BOOLEAN, material: SUBSET Material,
             name: {"none", "endpoint", "other"}, minimum: {"1.2", "1.3"}, verify: BOOLEAN]

Pair == {"client_certificate", "client_private_key"}

\* The validators of TLSConfig.
ValidRequest(r) ==
    /\ Pair \cap r.material \in {{}, Pair}
    /\ ~r.enabled => r.material = {}
    /\ "client_private_key_password" \in r.material => Pair \subseteq r.material

\* slip: another name than the endpoint's is accepted everywhere.
CapableButForNames(r) ==
    /\ "ca_certificate" \in r.material => r.driver \in CustomCa
    /\ Pair \cap r.material # {} => r.driver \in Mtls
    /\ r.minimum = "1.3" => r.driver \in Tls13Control

Capable(r) ==
    /\ "ca_certificate" \in r.material => r.driver \in CustomCa
    /\ Pair \cap r.material # {} => r.driver \in Mtls
    /\ r.minimum = "1.3" => r.driver \in Tls13Control
    /\ r.name = "other" => r.driver \in ServerNameOverride

\* A client key is decrypted on the way: its password goes no further.
Normalized(r) == r.material \ {"client_private_key_password"}

NeedsFiles(r) ==
    IF Strategy[r.driver] = "ssl_context" THEN "client_certificate" \in r.material
    ELSE Normalized(r) # {}

\* The files in the directory of a connection.
Written(r) ==
    IF ~NeedsFiles(r) THEN {}
    ELSE Normalized(r) \cup (IF Pair \subseteq r.material THEN {"combined"} ELSE {})

Default == "the driver's own"

\* What a driver is given: the files it is pointed at, the authority and the identity it
\* uses, the lowest version, the name it checks and whether it verifies the server.
Given(r, files, minimum, name, verify) ==
    [files |-> files, ca |-> "ca_certificate" \in r.material,
     identity |-> "client_certificate" \in r.material,
     minimum |-> minimum, name |-> name, verify |-> verify]

\* The context holds the authority; only the identity is read from files.  Cassandra gets
\* the name beside it, OpenSearch with the address of the connection.
ContextParameters(r) ==
    Given(r, Pair \cap r.material, r.minimum,
          IF r.driver \in {"cassandra", "opensearch"} THEN r.name ELSE "none", r.verify)

PostgresParameters(r) == Given(r, Normalized(r), r.minimum, "none", r.verify)

\* Server TLS only: the name goes into the URL.
SqlserverParameters(r) == Given(r, {}, Default, r.name, r.verify)

\* One file holds the key and the certificate.
MongodbParameters(r) ==
    Given(r, ({"ca_certificate"} \cap r.material)
                 \cup (IF "client_certificate" \in r.material THEN {"combined"} ELSE {}),
          Default, "none", r.verify)

RedisParameters(r) == Given(r, Normalized(r), r.minimum, "none", r.verify)

ClickhouseParameters(r) == Given(r, Normalized(r), Default, r.name, r.verify)

InfluxdbParameters(r) == Given(r, Normalized(r), Default, "none", r.verify)

\* Milvus always verifies: it is not told otherwise.
MilvusParameters(r) == Given(r, Normalized(r), Default, r.name, TRUE)

SystemTrustParameters(r) ==
    [Given(r, {}, Default, "none", r.verify) EXCEPT !.ca = FALSE, !.identity = FALSE]

AdapterParameters(r) ==
    CASE Strategy[r.driver] = "ssl_context" -> ContextParameters(r)
      [] Strategy[r.driver] = "postgres_files" -> PostgresParameters(r)
      [] Strategy[r.driver] = "sqlserver_odbc" -> SqlserverParameters(r)
      [] Strategy[r.driver] = "mongodb_files" -> MongodbParameters(r)
      [] Strategy[r.driver] = "redis_files" -> RedisParameters(r)
      [] Strategy[r.driver] = "clickhouse_files" -> ClickhouseParameters(r)
      [] Strategy[r.driver] = "influxdb_files" -> InfluxdbParameters(r)
      [] Strategy[r.driver] = "milvus_files" -> MilvusParameters(r)
      [] Strategy[r.driver] = "system_trust_only" -> SystemTrustParameters(r)

\* Without TLS there are neither files nor parameters; what the matrix does not grant is
\* refused before anything is written.
Materialize(r) ==
    [refused |-> r.enabled /\ ~Capable(r),
     written |-> IF r.enabled /\ Capable(r) THEN Written(r) ELSE {},
     given   |-> AdapterParameters(r)]

=============================================================================
