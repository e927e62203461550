------------------------ MODULE MCSubscriptionQuota ------------------------
\* Model-checking instance of SubscriptionQuota.
EXTENDS SubscriptionQuota
=============================================================================
