----------------------------- MODULE MCWorkloadPage ----------------------------
(* Instances of WorkloadPage for TLC. *)
EXTENDS WorkloadPage

By(c, d) == [col |-> c, dir |-> d]
Url(cols, order, range, start, end) ==
    [cols |-> cols, order |-> order, range |-> range, start |-> start, end |-> end]
Recent(cols, order, range) == Url(cols, order, range, Zero, Zero)

Known == {"namespace", "total_cost", "label_app", "label_a.b"}

\* A position needs a column; an expression, the columns it is made of.
Expression ==
    [order \in {By("1", "desc"), By("namespace DESC", "")} |->
        {S \in SUBSET Known : S # {} /\ (order.col # "1" => "namespace" \in S)}]

\* DefaultRequest().Link(), which has columns the query does not know; a range
\* that is no number of hours; a window with minutes; one without its end; an
\* order by a column that is not there; nothing the query knows; orders by a position, and by an
\* expression that is, or is not, in the URL as a column.
TypedUrls ==
    {Recent({"namespace", "used_cpu_cores", "total_cost"}, By("namespace", ""), 4),
     Recent({"namespace", "label_app"}, By("label_app", "desc"), 3),
     Url({"total_cost"}, NoOrder, 0, 9, 13),
     Url({"namespace"}, NoOrder, 0, 8, Zero),
     Recent({"namespace"}, By("total_cost", ""), 2),
     Recent({"used_cpu_cores"}, NoOrder, 2),
     Recent({"total_cost"}, By("1", "desc"), 2),
     Recent({"namespace", "total_cost", "namespace DESC"}, By("namespace DESC", ""), 4),
     Recent({"namespace", "label_app"}, By("namespace DESC", ""), 0)}
================================================================================
