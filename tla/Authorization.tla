--------------------------- MODULE Authorization ---------------------------
(***************************************************************************)
(* Who may waive which test case (waiverdb/authorization.py and            *)
(* _verify_authorization of waiverdb/api_v1.py).                           *)
(*                                                                         *)
(* A glob pattern, or a regular expression of the deprecated               *)
(* PERMISSION_MAPPING, is the set of the test cases it matches; an entry's *)
(* lists are sets.  Membership in LDAP changes while the service runs and  *)
(* belongs to WaiverService, which asks for it search by search.           *)
(***************************************************************************)
EXTENDS Authentication

CONSTANTS
    Permissions,   \* the set of the entries of PERMISSIONS
    LDAP_SEARCHES  \* of each search the groups it can find; empty without LDAP_HOST

Permission == [testcases : SUBSET Text, testcases_ignore : SUBSET Text,
               users : SUBSET User, groups : SUBSET Group]

ASSUME PermissionsAssumption == Permissions \subseteq Permission
ASSUME LDAPAssumption == LDAP_SEARCHES \in Seq(SUBSET Group)

match_testcase_permissions(testcase) ==
    {p \in Permissions : testcase \notin p.testcases_ignore /\ testcase \in p.testcases}

AllowedUsers(testcase) == UNION {p.users : p \in match_testcase_permissions(testcase)}
AllowedGroups(testcase) == UNION {p.groups : p \in match_testcase_permissions(testcase)}

(* A claim that is absent is None.                                         *)
check_oidc_groups(claims, testcase) ==
    claims # None /\ claims \cap AllowedGroups(testcase) # {}

(* What the check says before LDAP is asked.  Without permissions all is   *)
(* allowed; with them the claim is read first, also for a listed user.     *)
verify_authorization(user, testcase, claims) ==
    IF Permissions = {} THEN "allow"
    ELSE IF claims = Raises THEN "raise"
    ELSE IF user \in AllowedUsers(testcase) \/ check_oidc_groups(claims, testcase) THEN "allow"
    ELSE IF LDAP_SEARCHES # <<>> THEN "search"
    ELSE "forbid"

(* What one more search adds to the groups that earlier ones found.        *)
get_group_membership(found, i, groups) == found \cup (groups \cap LDAP_SEARCHES[i])

check_ldap_groups(found, testcase) == found \cap AllowedGroups(testcase) # {}

(* The same question of a user's own rights, for the properties: listed,   *)
(* or in an allowed group of those given, that some search can find.       *)
Entitled(user, testcase, groups) ==
    \/ Permissions = {}
    \/ user \in AllowedUsers(testcase)
    \/ \E i \in DOMAIN LDAP_SEARCHES : groups \cap LDAP_SEARCHES[i] \cap AllowedGroups(testcase) # {}

============================================================================
