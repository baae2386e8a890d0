---------------------------- MODULE MCMigrations ----------------------------
(* Values for the constants of Migrations, for TLC.                        *)
EXTENDS Migrations

CONSTANT alice

TextValues == {"", "koji_build", "brew-build", "bodhi_update", "compose", "nvr", "item", "rpmlint"}

(* A result of each shape the two lookups tell apart, and an unknown id.   *)
MCResults ==
    [id \in 1..6 |->
        LET result(type, item, nvr) ==
              [testcase |-> "rpmlint", type |-> type, item |-> item,
               original_spec_nvr |-> nvr, scenario |-> None]
        IN CASE id = 1 -> result("koji_build", "item", "nvr")
             [] id = 2 -> result("koji_build", "item", None)
             [] id = 3 -> result("bodhi_update", "item", None)
             [] id = 4 -> result("brew-build", "item", None)
             [] id = 5 -> result("koji_build", None, None)
             [] OTHER -> None]

Subject(type, item, nvr, compose) ==
    [type |-> type, item |-> item, original_spec_nvr |-> nvr, productmd_compose_id |-> compose]

MCSubjects == {Subject("brew-build", "item", None, None), Subject(None, None, "nvr", None),
               Subject(None, None, None, "item"), Subject("compose", None, None, None)}

MCPairs == {"", "koji_build", "compose"} \X {"", "item"}

============================================================================
