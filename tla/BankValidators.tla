--------------------------- MODULE BankValidators ---------------------------
(* The connection validators, one per bank: which parts of a credentials     *)
(* payload each of them asks for, and which of them ask the bank itself.     *)

\* A decrypted payload: the parts that are present, and whether certificate
\* and private key belong together (tls.X509KeyPair).
Part == {"client_id", "client_secret", "api_key", "cert", "key", "sftp_host", "sftp_user"}
BankCredentials == [has : SUBSET Part, pair : BOOLEAN]

\* What the token endpoint answers: 2xx, 401 or 403, another status from 400
\* up, or nothing within the timeout.
Answer == {"ok", "refused", "error", "unreachable"}

LOCAL OAuth == {"client_id", "client_secret"}
LOCAL MTLS == {"cert", "key"}
LOCAL Present(creds, parts) == parts \subseteq creds.has

ItauAccepts(creds, answer) ==
  Present(creds, OAuth \cup MTLS) /\ creds.pair /\ answer = "ok"

InterAccepts(creds, answer) ==
  Present(creds, OAuth \cup MTLS) /\ creds.pair /\ answer = "ok"

\* The secret is not asked for.
BradescoAccepts(creds, answer) ==
  Present(creds, {"client_id"} \cup MTLS) /\ creds.pair /\ answer = "ok"

\* From here on no bank is asked.
CaixaAccepts(creds, answer) ==
  /\ {"api_key", "client_id"} \cap creds.has # {}
  /\ "cert" \in creds.has
  /\ creds.pair
  /\ "sftp_host" \in creds.has => "sftp_user" \in creds.has

SantanderAccepts(creds, answer) == Present(creds, OAuth \cup MTLS) /\ creds.pair

BBAccepts(creds, answer) == Present(creds, OAuth \cup {"api_key"} \cup MTLS) /\ creds.pair

SicoobAccepts(creds, answer) == Present(creds, OAuth \cup MTLS) /\ creds.pair

BTGAccepts(creds, answer) == Present(creds, OAuth \cup MTLS) /\ creds.pair

\* The banks that have a validator, by COMPE code; the handler refuses others.
AllValidators == {"341", "237", "033", "001", "104", "077", "756", "208"}

Accepts(bank, creds, answer) ==
  CASE bank = "341" -> ItauAccepts(creds, answer)
    [] bank = "237" -> BradescoAccepts(creds, answer)
    [] bank = "033" -> SantanderAccepts(creds, answer)
    [] bank = "001" -> BBAccepts(creds, answer)
    [] bank = "104" -> CaixaAccepts(creds, answer)
    [] bank = "077" -> InterAccepts(creds, answer)
    [] bank = "756" -> SicoobAccepts(creds, answer)
    [] bank = "208" -> BTGAccepts(creds, answer)
=============================================================================
