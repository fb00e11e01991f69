-------------------------- MODULE MCBankConnection --------------------------
(* Small instances of BankConnection for TLC. *)
EXTENDS BankConnection

MTLSPayload == [has |-> {"client_id", "client_secret", "api_key", "cert", "key"}, pair |-> TRUE]
BrokenPair == [has |-> {"client_id", "client_secret", "cert", "key"}, pair |-> FALSE]
MCPayloads == {MTLSPayload, BrokenPair}
=============================================================================
