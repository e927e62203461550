-------------------------- MODULE MCBillingSession --------------------------
\* Model-checking instance of BillingSession: which session pays from where.
EXTENDS BillingSession

CONSTANTS s1, s2, s3, s4

\* Two sessions share the wallet with a third that pays with a subscription,
\* or with the user's own provider.
OneOfEach ==
    [s \in Sessions |->
        CASE s = s1 -> "wallet"
          [] s = s2 -> "subscription"
          [] s = s3 -> "user_owned_provider"
          [] OTHER -> "wallet"]
=============================================================================
