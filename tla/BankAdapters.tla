----------------------------- MODULE BankAdapters -----------------------------
(* The eight adapters behind ports.PaymentGateway. Each of them translates    *)
(* its bank's vocabulary for itself, so each is a definition of its own.     *)
EXTENDS Naturals, Sequences

CONSTANT NoRef   \* the empty bank_reference

\* SupportedBankCodes.
Banks == {"341", "237", "033", "001", "104", "077", "756", "208"}

-----------------------------------------------------------------------------
(* What the banks say of an order and of a DICT key.                         *)

Pending == "EM_PROCESSAMENTO"

\* Every word some part of the code takes for a final one of this bank: its
\* send, its poll or, at Itau, the notification. No part knows them all.
PaidWords(b) ==
  CASE b = "341" -> {"APROVADO", "FINALIZADO", "SETTLED", "LIQUIDADO"}
    [] b = "237" -> {"CONCLUIDO", "LIQUIDADO", "SETTLED"}
    [] b = "077" -> {"APROVADO", "APROVADA", "LIQUIDADO"}
    [] b = "208" -> {"SETTLED", "COMPLETED"}
    [] OTHER -> {"LIQUIDADO", "CONFIRMADO"}

RefusedWords(b) ==
  CASE b = "341" -> {"REJEITADO", "FALHOU", "FAILED"}
    [] b = "237" -> {"REJEITADO", "FAILED"}
    [] b = "208" -> {"REJECTED", "FAILED"}
    [] OTHER -> {"REJEITADO", "FALHOU"}

FinalWords(b) == PaidWords(b) \cup RefusedWords(b)

\* A key the bank knows and would pay to, one it does not, and no statement.
ActiveWord(b) == CASE b = "208" -> "ACTIVE" [] b = "237" -> "ATIVO" [] OTHER -> "ATIVA"
KeyWords(b) == {ActiveWord(b), "INEXISTENTE", "INVALIDO", ""}

-----------------------------------------------------------------------------
(* The adapters. A result is an error, or what the caller reads of it; a     *)
(* reply holds the order's id and word at the bank.                          *)

Failed == [err |-> TRUE, ref |-> NoRef, status |-> "SENT"]
Result(ref, status) == [err |-> FALSE, ref |-> ref, status |-> status]

SendResult(reply, settled) ==
  Result(reply.ref, IF reply.word \in settled THEN "SETTLED" ELSE "SENT")

\* Mutant: a word nobody knows is stored as it is.
StatusResult_PassesOn(reply, settled, failed) ==
  Result(reply.ref, CASE reply.word \in settled -> "SETTLED"
                      [] reply.word \in failed -> "FAILED"
                      [] OTHER -> reply.word)

StatusResult(reply, settled, failed) ==
  Result(reply.ref, CASE reply.word \in settled -> "SETTLED"
                      [] reply.word \in failed -> "FAILED"
                      [] OTHER -> "SENT")

Unless(refused) == IF refused THEN "REJECT" ELSE "OK"

ItauSendPix(reply) ==
  IF reply.ref = NoRef THEN Failed ELSE SendResult(reply, {"APROVADO", "FINALIZADO"})
ItauGetPixStatus(reply) ==
  StatusResult(reply, {"APROVADO", "FINALIZADO", "SETTLED"}, {"REJEITADO", "FALHOU", "FAILED"})
ItauPrevalidatePix(word) == Unless(word \in {"INEXISTENTE", "INVALIDO"})

\* The status a notification of Itau's moves a SENT payment to, by a list of
\* its own; another word is ignored.
ItauNotifies(word) ==
  IF word \in {"FINALIZADO", "APROVADO", "SETTLED", "LIQUIDADO"} THEN "SETTLED"
  ELSE IF word \in {"REJEITADO", "FALHOU", "FAILED"} THEN "FAILED" ELSE "SENT"

BradescoSendPix(reply) == SendResult(reply, {"CONCLUIDO", "LIQUIDADO"})
BradescoGetPixStatus(reply) ==
  StatusResult(reply, {"CONCLUIDO", "LIQUIDADO", "SETTLED"}, {"REJEITADO", "FAILED"})
BradescoPrevalidatePix(word) == Unless(word \notin {"ATIVO", ""})

SantanderSendPix(reply) == SendResult(reply, {"LIQUIDADO", "CONFIRMADO"})
SantanderGetPixStatus(reply) ==
  StatusResult(reply, {"LIQUIDADO", "CONFIRMADO"}, {"REJEITADO", "FALHOU"})
SantanderPrevalidatePix(word) == Unless(word \notin {"ATIVA", ""})

\* Mutant: any 2xx counts as settled.
BBSendPix_AnyAnswer(reply) == Result(reply.ref, "SETTLED")

BBSendPix(reply) == SendResult(reply, {"LIQUIDADO", "CONFIRMADO"})
BBGetPixStatus(reply) ==
  StatusResult(reply, {"LIQUIDADO", "CONFIRMADO"}, {"REJEITADO", "FALHOU"})
BBPrevalidatePix(word) == Unless(word \notin {"ATIVA", ""})

\* ErrUseBatch: no synchronous PIX.
CaixaSendPix(reply) == Failed
CaixaGetPixStatus(reply) == Failed
CaixaPrevalidatePix(word) == "WARN"

InterSendPix(reply) == SendResult(reply, {"APROVADO", "APROVADA"})
InterGetPixStatus(reply) ==
  StatusResult(reply, {"APROVADO", "APROVADA", "LIQUIDADO"}, {"REJEITADO", "FALHOU"})
InterPrevalidatePix(word) == Unless(word \notin {"ATIVA", ""})

SicoobSendPix(reply) == SendResult(reply, {"LIQUIDADO", "CONFIRMADO"})
SicoobGetPixStatus(reply) ==
  StatusResult(reply, {"LIQUIDADO", "CONFIRMADO"}, {"REJEITADO", "FALHOU"})
SicoobPrevalidatePix(word) == Unless(word \notin {"ATIVA", ""})

BTGSendPix(reply) == SendResult(reply, {"SETTLED", "COMPLETED"})

BTGGetPixStatus(reply) == StatusResult(reply, {"SETTLED", "COMPLETED"}, {"REJECTED", "FAILED"})
BTGPrevalidatePix(word) == Unless(word \notin {"ACTIVE", ""})

\* Lookup: the gateway of a bank, operation by operation.
SendPix(b, reply) ==
  CASE b = "341" -> ItauSendPix(reply)      [] b = "237" -> BradescoSendPix(reply)
    [] b = "033" -> SantanderSendPix(reply) [] b = "001" -> BBSendPix(reply)
    [] b = "104" -> CaixaSendPix(reply)     [] b = "077" -> InterSendPix(reply)
    [] b = "756" -> SicoobSendPix(reply)    [] b = "208" -> BTGSendPix(reply)

GetPixStatus(b, reply) ==
  CASE b = "341" -> ItauGetPixStatus(reply)      [] b = "237" -> BradescoGetPixStatus(reply)
    [] b = "033" -> SantanderGetPixStatus(reply) [] b = "001" -> BBGetPixStatus(reply)
    [] b = "104" -> CaixaGetPixStatus(reply)     [] b = "077" -> InterGetPixStatus(reply)
    [] b = "756" -> SicoobGetPixStatus(reply)    [] b = "208" -> BTGGetPixStatus(reply)

PrevalidatePix(b, word) ==
  CASE b = "341" -> ItauPrevalidatePix(word)      [] b = "237" -> BradescoPrevalidatePix(word)
    [] b = "033" -> SantanderPrevalidatePix(word) [] b = "001" -> BBPrevalidatePix(word)
    [] b = "104" -> CaixaPrevalidatePix(word)     [] b = "077" -> InterPrevalidatePix(word)
    [] b = "756" -> SicoobPrevalidatePix(word)    [] b = "208" -> BTGPrevalidatePix(word)

\* The banks whose adapter sends a request at all.
Synchronous == Banks \ {"104"}

\* Mutant: "%d" instead of "%02d".
formatValor_Unpadded(cents) ==
  [reais |-> cents \div 100,
   digits |-> IF cents % 100 < 10 THEN <<cents % 10>> ELSE <<(cents % 100) \div 10, cents % 10>>]

\* A decimal string: the digits before the point as a number, those after it.
formatValor(cents) ==
  [reais |-> cents \div 100, digits |-> <<(cents % 100) \div 10, cents % 10>>]

\* The centavos a bank reads: "1.5" is 150.
Centavos(s) ==
  100 * s.reais + 10 * s.digits[1] + (IF Len(s.digits) = 2 THEN s.digits[2] ELSE 0)
=============================================================================
