--------------------------- MODULE MCWebIdentity ---------------------------
(* Instances of WebIdentity for TLC: rows 1 and 2 are old, 3 to 5 are new, *)
(* and row 3 is of another partition than aws.                             *)
EXTENDS WebIdentity

Role(arn) == [hasUi |-> TRUE, type |-> "AssumedRole", userName |-> None,
              hasArn |-> TRUE, arn |-> arn, awsSession |-> TRUE, pid |-> None,
              issuer |-> "role", provider |-> None, federated |-> "oidc-provider"]
NoUi      == [Role("") EXCEPT !.hasUi = FALSE, !.type = None, !.hasArn = FALSE,
                              !.awsSession = FALSE]
InChina   == [Role("opaque") EXCEPT !.awsSession = FALSE]

MCRaw == <<Role("opaque"), NoUi, InChina, Role("plain"), Role("plain")>>
MCSessionOf == <<"s1", "s2", "s1", "s1", "s1">>
=============================================================================
