----------------------------- MODULE MCAccounts -----------------------------
(***************************************************************************)
(* Two that can be proved about: who is on which channel, and the records  *)
(* of accounts. Each behaviour of MCNetwork is one of the components,      *)
(* named by part.                                                          *)
(***************************************************************************)
EXTENDS Membership, TLC

CONSTANTS UserIDs, AuthNicks, Regusers, Authedusers

VARIABLES part, records, auth, reguser, autheduser, lastuserID, loaded

Accounts == INSTANCE AuthRecords WITH authnametable <- records, Users <- UserIDs, Nicks <- AuthNicks
ASSUME AccountsAssumption == Accounts!AuthAssumption

\* AuthRecords: nicks and services share one record per account.
RecordsExact == part = "accounts" => Accounts!RecordsExact
=============================================================================
