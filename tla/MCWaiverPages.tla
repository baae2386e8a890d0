--------------------------- MODULE MCWaiverPages ---------------------------
(***************************************************************************)
(* Waivers of two groups, one of which is submitted both by its user and   *)
(* by a proxy, and one that cannot be rendered; pages of one row.          *)
(***************************************************************************)
EXTENDS WaiverPages

CONSTANTS alice, bodhi

TextValues == {"", "koji_build", "brew-build", "compose", "nvr", "rpmlint", "f42"}

NoResults == [id \in {} |-> None]

Waived(type, testcase, user, proxy) ==
    [subject_type |-> type, subject_identifier |-> "nvr",
     testcase |-> testcase, username |-> user, product_version |-> "f42",
     proxied_by |-> proxy, scenario |-> None]

MCNewWaivers == {Waived("koji_build", "rpmlint", alice, None),
                 Waived("koji_build", "rpmlint", alice, bodhi),
                 Waived("koji_build", "compose", alice, bodhi),
                 Waived(Empty, "rpmlint", alice, None)}

MCQueries ==
    [filter : {NoFilter, [NoFilter EXCEPT !.testcase = "rpmlint"],
               [NoFilter EXCEPT !.proxied_by = bodhi],
               [NoFilter EXCEPT !.since = <<2, None>>],
               [NoFilter EXCEPT !.since = <<1, 2>>, !.username = alice]},
     include_obsolete : BOOLEAN]

Subject(type, item, nvr) ==
    [type |-> type, item |-> item, original_spec_nvr |-> nvr, productmd_compose_id |-> None]

MCResults == [subject : {Subject("brew-build", "nvr", None), Subject(None, None, "nvr"),
                         Subject("compose", None, None)},
              testcase : {"rpmlint", "compose"}]

============================================================================
