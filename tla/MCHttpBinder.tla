---------------------------- MODULE MCHttpBinder ----------------------------
(* HttpBinder for TLC: templates like those of examples/CustomController.hpp. *)
EXTENDS HttpBinder

Text(s) == [lit |-> s, par |-> NoName]
Brace(n) == [lit |-> "{}", par |-> n]
Pair(k, v) == [lit |-> <<k, v>>, par |-> NoName]
Ask(k, n) == [lit |-> <<k, "{}">>, par |-> n]
Url(p, q) == [path |-> p, ask |-> q # <<>>, query |-> q]

Course == Url(<<Text("courses"), Brace("id")>>, <<Ask("name", "name"), Ask("age", "age")>>)
SameCourse == Url(<<Text("courses"), Brace("course")>>, <<Ask("name", "name"), Ask("age", "age")>>)
Skill == Url(<<Text("courses"), Brace("id"), Text("")>>, <<Ask("name", "who"), Pair("skill", "big")>>)
NewCourse == Url(<<Text("courses"), Text("new")>>, <<Ask("name", "name"), Pair("age", "7")>>)
Module == Url(<<Text("courses"), Brace("id"), Brace("module")>>, <<>>)
Home == Url(<<Text("courses")>>, <<>>)

AnyCourse == Url(<<Text("courses"), Brace("")>>, <<Ask("name", "name"), Ask("age", "age")>>)

SomeTemplates == {Course, SameCourse, AnyCourse, Skill, NewCourse, Home}
PathTemplates == {Course, SameCourse, Module, Home}

N == <<"name", "ann">>
A == <<"age", "7">>
SomeUrls ==
  { Url(<<"courses", "new">>, <<N, A>>),
    Url(<<"courses", "5">>, <<A, N>>),
    Url(<<"courses", "", "5">>, <<N, A>>),
    Url(<<"courses", "5">>, <<N, <<"skill", "big">> >>),
    Url(<<"courses", "5", "">>, <<N, <<"skill", "big">> >>),
    Url(<<"", "courses", "5">>, <<N, <<"skill", "big">> >>),
    Url(<<"courses", "5">>, <<N, <<"skill", "low">> >>),
    Url(<<"courses", "5">>, <<N>>),
    Url(<<"courses", "5">>, <<N, <<"age">> >>),
    Url(<<"courses", "5">>, <<N, <<>>, A>>),
    Url(<<"courses", "5", "6">>, <<N, A>>),
    Url(<<"courses", "">>, <<N>>),
    Url(<<"courses", "5", "6">>, <<>>),
    Url(<<>>, <<>>) }
=============================================================================
