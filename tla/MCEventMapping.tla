--------------------------- MODULE MCEventMapping ---------------------------
(***************************************************************************)
(* Events in which the same field stands at the top, in "fields" and in    *)
(* _raw, as a text or not, and times in every unit and at every boundary.  *)
(***************************************************************************)
EXTENDS EventMapping

Other == [type |-> "other", text |-> None, number |-> None, members |-> None]
Text(v) == [Other EXCEPT !.type = "string", !.text = v]
Number(m, e) == [Other EXCEPT !.type = "number", !.number = [m |-> m, e |-> e]]
Object(v) == [Other EXCEPT !.type = "object", !.members = v]

MCUnderscored == {"_raw", "_time", "_bkt", "_cd"}

MCLower(text) == IF text = "ERROR" THEN "error" ELSE text

MCObjectIn(text) ==
    CASE text = "{bare}" -> <<>>
      [] text = "{rich}" -> [level |-> Text("debug"), trace_id |-> Text("t2"),
                             service |-> Text("cart"), host |-> Text("h2"),
                             message |-> Text("m2"), punct |-> Text("p"),
                             _cd |-> Text("1:2")]
      [] OTHER -> None

MCInstantIn(text) ==
    IF text = "2026-07-07T10:30:45Z" THEN [m |-> 17, e |-> 17] ELSE None

MCNumberIn(text) == CASE text = "1700000000" -> [m |-> 17, e |-> 8]
                      [] text = "nan" -> NotFinite
                      [] OTHER -> None

Levels == { <<>>, [level |-> Text("ERROR")], [level |-> Number(40, -1)],
            [status |-> Text("200"), service_name |-> Text("shop")],
            [severity |-> Text("warn"), level |-> Other, service |-> Text("pay")] }
Nested == { <<>>, [fields |-> Object([level |-> Text("info"), span_id |-> Text("s1"),
                                     service |-> Text("web")])],
            [fields |-> Text("x")] }
Raws == { <<>>, [_raw |-> Text("plain")], [_raw |-> Text("{bare}")],
          [_raw |-> Text("{rich}")], [_raw |-> Other] }
Metadata == { <<>>, [host |-> Text("h1"), index |-> Other, message |-> Text("m1"),
                     linecount |-> Text("1"), _bkt |-> Text("b")] }
Numbers == {Number(m, e) : m \in {-93, -92, -17, 0, 10, 17, 92, 93, 99}, e \in 0..18}
Times == Numbers \cup {Text("2026-07-07T10:30:45Z"), Text("1700000000"),
                       Text("nan"), Text("yesterday"), Other}

MCEvents ==
    {l @@ n @@ r @@ m : l \in Levels, n \in Nested, r \in Raws, m \in Metadata} \cup
    {[_time |-> t, _raw |-> Text("{rich}")] : t \in Times}

Columns == Mapped \cup {"scope_name"}
Sharing == TimeColumns \cup SeverityColumns \cup {"body", "log_attributes"}
MCProjections ==
    {<<>>} \cup {<<a>> : a \in Columns} \cup {<<a, b>> : a, b \in Sharing}
    \cup {<<"severity_number", "body", "severity_text", "log_attributes">>,
          <<"log_attributes", "time_unix_nano", "severity_text", "resource_attributes",
            "observed_time_unix_nano", "severity_number", "service_name">>}
=============================================================================
