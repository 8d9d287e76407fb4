--------------------------- MODULE CredentialVault --------------------------
(***************************************************************************)
(* The temporary envelopes of backend/src/security/credential-vault.ts     *)
(* (PostgresCredentialVault).  An envelope is named by the create request  *)
(* that put it there; what it encrypts is left out.  Every envelope has    *)
(* the expiry of the run it was made for, so one flag says that this time  *)
(* has passed for the run and for its envelopes.                           *)
(***************************************************************************)
VARIABLES
  envelopes,     \* the handles secret_envelopes holds
  expired,       \* expires_at <= now
  interrupted    \* history: a process stopped, or lost the answer of its
                 \* commit, before the vault.delete it owed

vaultVars == <<envelopes, expired, interrupted>>

EnvelopeReadable(h) == h \in envelopes /\ ~expired

PutEnvelope(h) == envelopes' = envelopes \cup {h}

DeleteEnvelope(h) == envelopes' = envelopes \ {h}

\* vault.read: an envelope that is there but expired is deleted.
ReadEnvelope(h) ==
  envelopes' = IF EnvelopeReadable(h) THEN envelopes ELSE envelopes \ {h}
=============================================================================
