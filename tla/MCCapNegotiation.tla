-------------------------- MODULE MCCapNegotiation --------------------------
(***************************************************************************)
(* Instances of CapNegotiation for TLC.                                    *)
(***************************************************************************)
EXTENDS CapNegotiation

(* Avatars and confirmed sending together: every dependency between         *)
(* capabilities is there (batch for both, message-tags for labels).        *)
MCOptions == {"metadata", "confirmed_sending"}

MCServerCaps == {SASL, MESSAGE_TAGS, BATCH, METADATA, LABELED_RESPONSE}
MCRefusable  == {SASL, BATCH, LABELED_RESPONSE}
=============================================================================
