------------------------------ MODULE MCScrape ------------------------------
(* Instances of Scrape: whom the scrapers scrape and which aliases the URLs  *)
(* carry.                                                                    *)
EXTENDS Scrape

CONSTANTS s1, s2, t1, t2, a1, a2

\* Both scrapers have one target.
SameTarget == [s \in Scrapers |-> t1]

\* Each scraper has a target of its own.
OwnTarget == [s \in Scrapers |-> IF s = s1 THEN t1 ELSE t2]

\* No URL carries an extra parameter.
NoAliases == [t \in Targets |-> NoAlias]

\* The vault path of a target depends on an alias of its own.
OwnAlias == [t \in Targets |-> IF t = t1 THEN a1 ELSE a2]

\* The flags the exporter is started with.
VaultOnly == {{"vault"}}
AnySource == {{"vault"}, {"script"}}
=============================================================================
