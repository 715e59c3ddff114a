------------------------------ MODULE Identity ------------------------------
(***************************************************************************)
(* How a CloudTrail record names its actor: derive_identity of             *)
(* service/ingest/cloudtrail.rs, shared by the live mapping and by the     *)
(* backfill of old rows, and the SQL that repeats a part of it.            *)
(*                                                                         *)
(* A record is what these functions look at.  Strings are abstracted to    *)
(* what is tested of them:                                                 *)
(*   arn, pid   the last component of userIdentity.arn (after the last     *)
(*              "/") and of principalId (after the last ":")               *)
(*   "email"    contains "@"                                               *)
(*   "opaque"   digits, 32 hex digits or an SDK prefix                     *)
(*   "plain"    any other name                                             *)
(*   ""         nothing follows the separator, or the field is empty       *)
(*   "whole"    (arn) there is no "/" in it                                *)
(* awsSession says whether the arn matches the pattern of the SQL,         *)
(*   arn:aws:sts::%:assumed-role/%/%                                       *)
(* It is FALSE in other partitions (arn:aws-cn:sts:.., arn:aws-us-gov:..), *)
(* which the Rust code does not tell from it.  AWS gives such an ARN to    *)
(* the sessions of roles only.                                             *)
(***************************************************************************)
EXTENDS Naturals

None == "none"

Tails == {"email", "opaque", "plain", ""}

(* userIdentity of a record; hasArn is FALSE for an absent or empty arn.   *)
Fields ==
  [hasUi      : BOOLEAN,
   type       : {"AssumedRole", "WebIdentityUser", "Root", "IAMUser", None},
   userName   : {"user", "", None},
   hasArn     : BOOLEAN,
   arn        : Tails \cup {"whole"},
   awsSession : BOOLEAN,
   pid        : Tails \cup {None},
   issuer     : {"role", "AWSReservedSSO", None},
   provider   : {"oidc-provider", "saml", "", None},   (* identityProvider *)
   federated  : {"oidc-provider", None}] (* webIdFederationData's provider *)

Records ==
  {rec \in Fields : rec.awsSession => /\ rec.hasUi /\ rec.type = "AssumedRole"
                                      /\ rec.hasArn /\ rec.arn # "whole"}

(* One of two optional values: the first that is there. *)
OrElse(a, b) == IF a # None THEN a ELSE b
NonEmpty(a)  == IF a = "" THEN None ELSE a

ArnTail(rec) == IF rec.hasArn THEN NonEmpty(rec.arn) ELSE None
PidTail(rec) == NonEmpty(rec.pid)

(* session_name: an e-mail address wins, then the tail of the ARN. *)
SessionName(rec) ==
  IF "email" \in {ArnTail(rec), PidTail(rec)} THEN "email"
  ELSE OrElse(ArnTail(rec), PidTail(rec))

IsOpaque(name) == name = "opaque"

(* role_session_base: the ARN without what follows the last "/". *)
RoleSessionBase(rec) ==
  IF ~rec.hasArn THEN None ELSE IF rec.arn = "whole" THEN "whole" ELSE "base"

(* What an assumed role is called, or None to go on with its issuer.       *)
AssumedRoleName_Token(rec) == SessionName(rec)

AssumedRoleName(rec) ==
  IF IsOpaque(SessionName(rec)) THEN RoleSessionBase(rec) ELSE SessionName(rec)

(* What a principal may be called: "resource" is what follows the last ":" *)
(* of an ARN without "/".                                                  *)
PrincipalNames == Tails \cup {"whole", "base", "resource", "user", "role",
                              "AWSReservedSSO", "root", None}

(* principal_name: the first of these that is there.  The last one is what *)
(* follows the last "/" or ":" of the ARN.                                 *)
PrincipalName(rec) ==
  LET userName == NonEmpty(rec.userName)
      session  == IF rec.type = "AssumedRole" THEN AssumedRoleName(rec) ELSE None
      root     == IF rec.type = "Root" THEN "root" ELSE None
      tail     == IF ~rec.hasArn THEN None
                  ELSE IF rec.arn = "whole" THEN "resource" ELSE rec.arn
  IN IF ~rec.hasUi THEN None
     ELSE OrElse(userName, OrElse(session, OrElse(rec.issuer, OrElse(root, tail))))

(* identity_source.  identityProvider hides the other provider also when   *)
(* it is empty.                                                            *)
IdentitySource(rec) ==
  LET provider == NonEmpty(OrElse(rec.provider, rec.federated))
  IN IF ~rec.hasUi THEN None
     ELSE IF rec.type = "WebIdentityUser" \/ provider = "oidc-provider"
     THEN IF provider = "oidc-provider" THEN "oidc:host" ELSE "oidc"
     ELSE IF rec.type = "AssumedRole" /\ rec.issuer = "AWSReservedSSO" THEN "aws-sso"
     ELSE rec.type

(* The second backfill in SQL: which rows it takes, by the name they have  *)
(* and their principal_arn, and what it makes of the name.                 *)
SqlCandidate(rec, name) == rec.awsSession /\ IsOpaque(name)

SqlBase(rec) == "base"
=============================================================================
