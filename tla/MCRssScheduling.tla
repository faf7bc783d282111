-------------------------- MODULE MCRssScheduling --------------------------
EXTENDS RssScheduling, TLC

CONSTANTS s1, s2, s3

\* Two scrapes and a request.
Kinds == (s1 :> "scrape") @@ (s2 :> "scrape") @@ (s3 :> "request")
=============================================================================
