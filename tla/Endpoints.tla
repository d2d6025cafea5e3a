------------------------------ MODULE Endpoints ------------------------------
(***************************************************************************)
(* The URLs that the helpers of src/exporter/helpers.go collect, and the   *)
(* two functions they are collected with.                                  *)
(***************************************************************************)
EXTENDS Naturals, Sequences

CONSTANTS Paths,     \* resources of the BMC, as a URL without its last slash
          Excluded   \* paths that --collector.drives.modules-exclude matches

ASSUME ExcludedAssumption == Excluded \subseteq Paths

\* A URL is a path and whether it ends in a slash.
Urls == Paths \X BOOLEAN

appendSlash(url) == <<url[1], TRUE>>

Has(list, url) == \E n \in DOMAIN list : list[n] = url

checkUnique(list, url) == ~Has(list, url)
=============================================================================
