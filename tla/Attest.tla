-------------------------------- MODULE Attest --------------------------------
(***************************************************************************)
(* Detached signatures over cards, offers and probes,                       *)
(* internal/attest/attest.go.  A payload is the record of the fields the    *)
(* canonical encoding writes, with its kind and time: the encoding prefixes *)
(* every value with its name and length, so two payloads are equal iff      *)
(* their fields are.  Lists go through sortedUnique and are sets here.      *)
(* A signature keeps what it was made over: SHA-256 has no collisions and   *)
(* Ed25519 no forgeries, which is all the code assumes of them.             *)
(***************************************************************************)
EXTENDS Sequences, FiniteSets, Functions

sortedUnique(values) == Range(values)

\* probeResults sorts and keeps duplicates: how often each result occurs.
sortedResults(results) ==
  [r \in Range(results) |-> Cardinality({i \in DOMAIN results : results[i] = r})]

CardBytes(card, at) ==
  [kind |-> "agent-card", signedAt |-> at, agent |-> card.agentID,
   text |-> card.text, capabilities |-> sortedUnique(card.capabilities),
   probeTarget |-> card.probeTarget, currencies |-> card.currencies]

OfferBytes(offer, at) ==
  [kind |-> "offer", signedAt |-> at, offer |-> offer.id, seller |-> offer.seller,
   text |-> offer.text, direction |-> offer.direction,
   capabilities |-> sortedUnique(offer.capabilities), mint |-> offer.mint,
   scale |-> offer.scale, amountBaseUnits |-> offer.amountBaseUnits,
   unitAmount |-> offer.unitAmount,
   settlementModes |-> sortedUnique(offer.settlementModes)]

ProbeBytes(probe, at) ==
  [kind |-> "probe", signedAt |-> at, agent |-> probe.agentID,
   target |-> probe.target, checkedAt |-> probe.checkedAt,
   results |-> sortedResults(probe.results)]

Sign(key, payload, at) == [keyID |-> key, over |-> payload, signedAt |-> at]

Verify(payload, sig, expectedKeyID) ==
  sig.keyID = expectedKeyID /\ sig.over = payload

VerifyAny(payload, sig, keyIDs) ==
  \E id \in keyIDs : sig.keyID = id /\ Verify(payload, sig, id)

SignCard(key, card, at) == Sign(key, CardBytes(card, at), at)
AttestCard(key, card, at) == Sign(key, CardBytes(card, at), at)
SignOffer(key, offer, at) == Sign(key, OfferBytes(offer, at), at)
SignProbe(key, probe, at) == Sign(key, ProbeBytes(probe, at), at)

VerifyCard(card, sig) == Verify(CardBytes(card, sig.signedAt), sig, card.agentID)

VerifyOffer(offer, sig) == Verify(OfferBytes(offer, sig.signedAt), sig, offer.seller)

VerifyCardAttestedByAny(card, sig, keyIDs) ==
  VerifyAny(CardBytes(card, sig.signedAt), sig, keyIDs)

VerifyProbeAttestedByAny(probe, sig, keyIDs) ==
  VerifyAny(ProbeBytes(probe, sig.signedAt), sig, keyIDs)
=============================================================================
