---------------------------- MODULE SecretMaterial ----------------------------
(***************************************************************************)
(* Certificates, keys and texts on their way from a client to a driver:     *)
(* validated (connections/certificate_validator.py), sealed in documents    *)
(* (managed_store.py), and validated once more when a connection opens      *)
(* (tls_materializer.py).                                                   *)
(*                                                                          *)
(* Material is a record: a certificate [is, form, key, from, until, usage,  *)
(* ca], where usage {} is a certificate without the extension; a key [is,   *)
(* form, key, lock], where lock is its password; or a text [is, text].  A   *)
(* cipher is sealed under what authenticates it.                            *)
(***************************************************************************)
EXTENDS Integers

CONSTANT None       \* no password

Refused == [ok |-> FALSE]
Accepted(value) == [ok |-> TRUE, value |-> value]

-----------------------------------------------------------------------------
(* Validation *)

Forms == {"pem", "der"}

InForce(certificate, now) == certificate.from <= now /\ now <= certificate.until

LoadsCertificate(m, now) == m.is = "certificate" /\ m.form \in Forms /\ InForce(m, now)

Pem(m) == [m EXCEPT !.form = "pem"]

\* A pinned leaf is a trust anchor too, a client's identity is not.
NormalizeCaCertificate(m, now) ==
    IF LoadsCertificate(m, now) /\ m.usage # {"client"} THEN Accepted(Pem(m)) ELSE Refused

NormalizeClientCertificate(m, now) ==
    IF LoadsCertificate(m, now) /\ ~m.ca THEN Accepted(Pem(m)) ELSE Refused

\* A password for a key without a lock is as wrong as none for one with a lock.
OpensPrivateKey(m, password) == m.is = "key" /\ m.form \in Forms /\ m.lock = password

\* A needless password is forgiven; the key goes on without a lock.
NormalizePrivateKey(m, password) ==
    IF OpensPrivateKey(m, password) \/ OpensPrivateKey(m, None)
    THEN Accepted([Pem(m) EXCEPT !.lock = None]) ELSE Refused

ValidateClientPair(certificate, key, now) ==
    LoadsCertificate(certificate, now) /\ OpensPrivateKey(key, None) /\ certificate.key = key.key

\* What is stored of one secret, by its kind.
CreateSecret(kind, m, password, now) ==
    CASE kind = "ca_certificate"     -> NormalizeCaCertificate(m, now)
      [] kind = "client_certificate" -> NormalizeClientCertificate(m, now)
      [] kind = "client_private_key" -> NormalizePrivateKey(m, password)
      [] OTHER -> IF m.is = "text" /\ m.text # "" THEN Accepted(m) ELSE Refused

\* Both halves are normalized and proven a pair before anything is written.
CreateClientIdentity(certificate, key, password, now) ==
    LET c == NormalizeClientCertificate(certificate, now)
        k == NormalizePrivateKey(key, password)
    IN IF c.ok /\ k.ok /\ ValidateClientPair(c.value, k.value, now)
       THEN Accepted(<<c.value, k.value>>) ELSE Refused

-----------------------------------------------------------------------------
(* The documents of the store *)

\* The store needs a directory outside the project and a master key of the right size.
FromEnvironment(environment) ==
    IF environment.directory = "outside" /\ environment.key \notin {"unset", "garbled", "short"}
    THEN Accepted(environment.key) ELSE Refused

Document(id, kind, m, master) ==
    [version |-> 1, id |-> id, kind |-> kind,
     sealed |-> [under |-> <<master, id, kind>>, material |-> m]]

\* One file per id; its document says whose it is.
ReadDocument(files, id) ==
    IF id \in DOMAIN files /\ files[id].version = 1 /\ files[id].id = id
    THEN Accepted(files[id]) ELSE Refused

\* Decrypts what is authentic for this id, the kind the document states and the key.
Resolve(files, id, master) ==
    LET read == ReadDocument(files, id)
    IN IF read.ok /\ read.value.sealed.under = <<master, id, read.value.kind>>
       THEN Accepted(read.value.sealed.material) ELSE Refused

-----------------------------------------------------------------------------
(* The material of a connection *)

\* Everything is validated again: the store does not compare the kind of a secret with the
\* field that refers to it, and a certificate may have expired since.
NormalizeMaterial(material, now) ==
    LET password == IF "client_private_key_password" \in DOMAIN material
                    THEN material.client_private_key_password.text ELSE None
        fields == DOMAIN material \ {"client_private_key_password"}
        parts == [f \in fields |->
                    CASE f = "ca_certificate"     -> NormalizeCaCertificate(material[f], now)
                      [] f = "client_certificate" -> NormalizeClientCertificate(material[f], now)
                      [] OTHER                    -> NormalizePrivateKey(material[f], password)]
    IN IF /\ \A f \in fields : parts[f].ok
          /\ {"client_certificate", "client_private_key"} \subseteq fields =>
                ValidateClientPair(parts["client_certificate"].value,
                                   parts["client_private_key"].value, now)
       THEN Accepted([f \in fields |-> parts[f].value]) ELSE Refused

\* The references of a profile, resolved one by one.
Connect(references, files, master, now) ==
    LET read == [f \in DOMAIN references |-> Resolve(files, references[f], master)]
    IN IF \A f \in DOMAIN references : read[f].ok
       THEN NormalizeMaterial([f \in DOMAIN references |-> read[f].value], now) ELSE Refused

=============================================================================
