---------------------------- MODULE MCCaseStore -----------------------------
(* Small instances of CaseStore. *)
EXTENDS CaseStore

CONSTANTS d1, d2

Report(route, docs) == [route |-> route, docs |-> docs]

\* The route with a provisional rule: the longest lifecycle.
OneImage == {<<Report("intimate_images", {d1})>>}

\* Two reports about one document, a complaint and its duplicate, and a route with
\* identity checks.
Families == {<<Report("rights_removal", {d1}), Report("rights_removal", {d1, d2})>>,
             <<Report("complaint", {d1}), Report("complaint", {d1})>>,
             <<Report("data_rights", {d1})>>}

=============================================================================
