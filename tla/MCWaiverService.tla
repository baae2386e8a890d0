-------------------------- MODULE MCWaiverService --------------------------
(* Values for the constants of WaiverService, for TLC.                     *)
EXTENDS WaiverService, TLC

CONSTANTS r1, r2, alice, bodhi, devel, qa, t1

TextValues == {"", "koji_build", "brew-build", "compose", "nvr", "rpmlint", "f42"}

(* A submission that names its subject by type and identifier.             *)
Typed(type, identifier) ==
    [subject_type |-> type, subject_identifier |-> identifier,
     testcase |-> "rpmlint", scenario |-> None, subject |-> None,
     result_id |-> None, product_version |-> "f42", username |-> None]

WithSubject(type, item, nvr, compose) ==
    [Typed(None, None) EXCEPT
       !.subject = [type |-> type, item |-> item, original_spec_nvr |-> nvr,
                    productmd_compose_id |-> compose]]

WithResult(id) == [Typed(None, None) EXCEPT !.testcase = None, !.result_id = id]

For(user, submission) == [submission EXCEPT !.username = user]

Koji == Typed("koji_build", "nvr")

(* ResultsDB: a result of each shape that is told apart, and an unknown id.*)
ResultValues ==
    [id \in 1..6 |->
        LET result(type, item, nvr, scenario) ==
              [testcase |-> "rpmlint", type |-> type, item |-> item,
               original_spec_nvr |-> nvr, scenario |-> scenario]
        IN CASE id = 1 -> result("brew-build", "nvr", None, None)
             [] id = 2 -> result(None, None, "nvr", "f42")
             [] id = 3 -> result("compose", "f42", None, None)
             [] id = 4 -> result(None, "nvr", None, None)
             [] id = 5 -> result("koji_build", None, None, None)
             [] OTHER -> None]

NoResults == [id \in {} |-> None]

(* Batches that meet in one group, and an empty one.                       *)
BatchBodies == {<<Koji, Koji>>, <<Koji>>, <<>>}

SingleBodies == {<<Koji>>}

(* Every form of submission, most of them alone, some after a good one.    *)
FormBodies ==
    LET forms ==
          {Typed(type, identifier) :
             type \in {"", "koji_build", "brew-build", "compose"},
             identifier \in {"", "nvr"}}
          \cup {Typed("koji_build", None), [Koji EXCEPT !.product_version = ""]}
          \cup {WithSubject(type, item, nvr, compose) :
                  type \in {None, "", "brew-build", "compose"}, item \in {None, "nvr"},
                  nvr \in {None, "", "nvr"}, compose \in {None, "f42"}}
          \cup {WithResult(id) : id \in DOMAIN ResultsDB}
          \cup {[WithResult(1) EXCEPT !.testcase = "rpmlint"]}
    IN {<<form>> : form \in forms} \cup {<<Koji, form>> : form \in forms}

(* Waivers for oneself and for others, that permissions decide on.         *)
ProxyBodies == {<<Koji>>, <<Koji, For(alice, Koji)>>, <<[Koji EXCEPT !.product_version = ""]>>}

TeamPermission ==
    {[testcases |-> {"rpmlint"}, testcases_ignore |-> {},
      users |-> {}, groups |-> {devel, qa}],
     [testcases |-> {"rpmlint"}, testcases_ignore |-> {"rpmlint"},
      users |-> User, groups |-> {}]}

TeamSearches == <<{devel}, {qa}>>
NoSearches == <<>>

(* Credentials.                                                            *)
SSLOnly == <<"SSL">>
AllMethods == <<"OIDC", "Kerberos", "SSL">>

NoClaims == [t \in {} |-> None]
TeamClaims == [t \in {t1} |-> [username |-> alice, groups |-> {devel}]]

Nothing == [session |-> NoSession, authorization |-> None, verified |-> FALSE, dn |-> None]

WithCertificate(credential, verified, user) ==
    [credential EXCEPT !.verified = verified, !.dn = user]

Bearer(token) == [bearer |-> token, ticket |-> None, mutual |-> FALSE, username |-> None]
Negotiate(user, mutual) == [bearer |-> None, ticket |-> user, mutual |-> mutual, username |-> None]

WithHeader(credential, header) == [credential EXCEPT !.authorization = header]

LoggedIn(profile, userinfo, access_token) ==
    [Nothing EXCEPT !.session = [token |-> TRUE, profile |-> profile, userinfo |-> userinfo,
                                 access_token |-> access_token]]

Alice == [username |-> alice, groups |-> None]
Bodhi == [username |-> bodhi, groups |-> None]
InQa == [username |-> None, groups |-> {qa}]

(* A user, and somebody who proves nothing.                                *)
Certificates == {WithCertificate(Nothing, TRUE, alice), Nothing}

People == {WithCertificate(Nothing, TRUE, user) : user \in User}

(* One of each kind that the code tells apart, and those that meet.        *)
AllCredentials ==
    {Nothing,
     WithCertificate(Nothing, TRUE, bodhi), WithCertificate(Nothing, FALSE, alice),
     WithHeader(Nothing, Bearer(t1)),
     WithHeader(WithCertificate(Nothing, TRUE, bodhi), Bearer(t1)),
     WithHeader(Nothing, Negotiate(bodhi, TRUE)), WithHeader(Nothing, Negotiate(alice, FALSE)),
     WithHeader(WithCertificate(Nothing, TRUE, alice), Negotiate(None, TRUE)),
     LoggedIn(Bodhi, InQa, None), LoggedIn(Alice, None, None),
     LoggedIn(None, None, Alice),
     WithHeader(LoggedIn(None, None, Raises), Bearer(t1)),
     WithHeader(LoggedIn(Alice, None, Raises), Bearer(t1)),
     WithHeader(LoggedIn(InQa, None, None), Negotiate(bodhi, TRUE)),
     WithHeader(LoggedIn(Alice, None, None), Bearer(t1))}

============================================================================
