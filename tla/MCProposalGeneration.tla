-------------------------- MODULE MCProposalGeneration --------------------------
(* Instances of ProposalGeneration for TLC: a sales source with details, documents,
   customers who are persons, products with a cost and carriers with another one; the
   same source with addresses of a customer, for the question about the grain; and an
   answer that gives a dimension twice, for the question about relations. *)
EXTENDS ProposalGeneration

C(words, kind, rank) ==
    [words |-> words, pk |-> kind = "pk", identifier |-> kind \in {"pk", "id"},
     numeric |-> kind # "text" /\ kind # "date", text |-> kind = "text", rank |-> rank]

MCColumn ==
    [d_order    |-> C({"sales", "order"}, "pk", 1),
     d_detail   |-> C({"sales", "order", "detail"}, "pk", 2),
     d_product  |-> C({"product"}, "id", 3),
     d_quantity |-> C({"order", "quantity"}, "number", 4),
     d_price    |-> C({"unit", "price"}, "number", 5),
     d_rate     |-> C({"unit", "price", "discount"}, "number", 6),
     d_total    |-> C({"line", "total"}, "number", 7),
     h_order    |-> C({"sales", "order"}, "pk", 8),
     h_date     |-> C({"order", "date"}, "date", 9),
     h_customer |-> C({"customer"}, "id", 10),
     h_carrier  |-> C({"ship", "method"}, "id", 11),
     c_customer |-> C({"customer"}, "pk", 12),
     c_person   |-> C({"person"}, "id", 13),
     p_person   |-> C({"person"}, "pk", 14),
     p_name     |-> C({"last", "name"}, "text", 15),
     r_product  |-> C({"product"}, "pk", 16),
     r_name     |-> C({"name"}, "text", 17),
     r_cost     |-> C({"cost"}, "number", 18),
     s_carrier  |-> C({"ship", "method"}, "pk", 19),
     s_name     |-> C({"name"}, "text", 20),
     s_cost     |-> C({"ship", "cost"}, "number", 21)]

T(words, noun, columns) == [words |-> words, noun |-> noun, columns |-> columns]

MCTable ==
    [detail   |-> T({"sales", "order", "detail"}, "detail",
                    <<"d_order", "d_detail", "d_product", "d_quantity", "d_price", "d_rate", "d_total">>),
     header   |-> T({"sales", "order", "header"}, "header",
                    <<"h_order", "h_date", "h_customer", "h_carrier">>),
     customer |-> T({"customer"}, "customer", <<"c_customer", "c_person">>),
     person   |-> T({"person"}, "person", <<"p_person", "p_name">>),
     product  |-> T({"product"}, "product", <<"r_product", "r_name", "r_cost">>),
     carrier  |-> T({"ship", "method"}, "method", <<"s_carrier", "s_name", "s_cost">>)]

K(from, column, to, referenced) ==
    [from |-> from, columns |-> <<column>>, to |-> to, referenced |-> <<referenced>>,
     audit |-> FALSE]

MCForeignKeys ==
    {K("detail", "d_order", "header", "h_order"), K("detail", "d_product", "product", "r_product"),
     K("header", "h_customer", "customer", "c_customer"),
     K("header", "h_carrier", "carrier", "s_carrier"),
     K("customer", "c_person", "person", "p_person")}

-----------------------------------------------------------------------------
R(id, goal, status, components, identities, evidence, by) ==
    [id |-> id, goal |-> goal, status |-> status, components |-> components,
     identities |-> identities, evidence |-> evidence, by |-> by]

MCNeeds == [margin |-> {"margin", "sales", "product"}, clients |-> {"sales", "customer"}]

AskedSales == R("r1", "sales", "direct", {"sales_amount"}, None, {"detail"}, "rules")
AskedMargin == R("r2", "gross_margin", "derivable", {}, None, {"product"}, "provider")
AskedProducts == R("r3", "product", "direct", {"product"}, None, {"product"}, "rules")
AskedReturns == R("r4", "returns", "unavailable", {}, None, {}, "provider")
AskedAverage == R("r5", "average_transaction", "derivable", {"transactions"}, {"h_order"},
                  {"header"}, "rules")
AskedClients == R("r6", "customer", "direct", {"customer"}, None, {"person"}, "provider")

MCAssessments ==
    [margin  |-> {{AskedSales, AskedMargin, AskedProducts, AskedReturns}},
     clients |-> {{AskedSales, AskedAverage, AskedClients}}]

Concept(words, refs, confidence) ==
    [words |-> words, refs |-> refs, confidence |-> confidence, selected |-> FALSE]

MCSemantics ==
    {<<Concept({"sales"}, <<"detail">>, "high"), Concept({"product"}, <<"product">>, "medium"),
       Concept({"ship"}, <<"carrier">>, "low")>>,
     <<Concept({"sales"}, <<"detail", "unknown">>, "high"),
       Concept({"ship"}, <<"carrier">>, "high"), Concept({"sales"}, <<"detail">>, "medium")>>}

M(name, words, role, column, own) ==
    [name |-> name, words |-> words, role |-> role, column |-> column, own |-> own,
     analyst |-> Direct, aggregation |-> DefaultAggregation(role)]

Times(inputs) == [operation |-> "multiply", inputs |-> inputs]
D(name, source) == [name |-> name, source |-> source, locked |-> FALSE]
I(code, words, role, measure, operation) ==
    [code |-> code, words |-> words, role |-> role, measure |-> measure, operation |-> operation]

Lines == M("lineas", {"line"}, "transaction_count", "d_detail", Direct)
Ticket == M("ticket", {"average", "transaction"}, "sales_amount", "d_price",
            Times(<<"d_price", "d_quantity">>))
Discount == M("descuento", {"discount", "total"}, "discount_amount", "d_rate", Direct)
Revenue == M("ventas", {"sales", "total"}, "sales_amount", "d_total", Direct)
Documents == M("pedidos", {"order"}, "transaction_count", "d_order", Direct)
Wrong == M("mezcla", {"sales"}, "sales_amount", "d_price", Times(<<"d_order", "d_quantity">>))
Gross == M("ventas", {"sales", "total"}, "sales_amount", "d_price", Times(<<"d_price", "d_quantity">>))

PerOrder == [M("venta_por_pedido", {"sales", "average", "order"}, "sales_amount", "d_total", Direct)
                EXCEPT !.aggregation = "average"]

Blueprint(measures, dimensions, kpis) ==
    [fact |-> "detail", grain |-> {"sales", "order", "detail"}, measures |-> measures,
     dimensions |-> dimensions, kpis |-> kpis, requested |-> {}]

MCBlueprints ==
    {Blueprint(<<Lines, Ticket, Revenue, Discount, Documents>>,
               <<D("dim_producto", "product"), D("dim_cliente", "header"), D("dim_fecha", "header")>>,
               <<I("ticket_promedio", {"average", "transaction"}, "sales_amount", 2, "average"),
                 I("ventas_totales", {"sales", "total"}, "sales_amount", 3, "sum"),
                 I("pedidos_total", {"order"}, "transaction_count", 5, "count_distinct")>>),
     Blueprint(<<Wrong, Gross, PerOrder>>, <<D("dim_producto", "product"), D("dim_fecha", "detail")>>,
               <<I("mezcla_total", {"sales"}, "sales_amount", 1, "sum"),
                 I("venta_media", {"sales", "total"}, "sales_amount", 2, "average")>>)}

A(dimensions, measures, kpis, aggregations, calculations, measureOf) ==
    [dimensions |-> dimensions, measures |-> measures, kpis |-> kpis,
     aggregations |-> aggregations, calculations |-> calculations, measureOf |-> measureOf]

MCAdjustments ==
    {A(<<"dim_fecha", "dim_producto">>, <<"pedidos", "descuento", "ventas">>,
       <<"ventas_totales", "pedidos_total">>, [ventas |-> "average"], <<>>, <<>>),
     A(<<"dim_cliente">>, <<"ventas", "ticket", "pedidos">>, <<"ticket_promedio", "ventas_totales">>,
       <<>>, [ventas |-> Times(<<"d_price", "d_quantity">>)], [ticket_promedio |-> "ventas"]),
     A(<<"dim_producto">>, <<"ventas">>, <<"venta_media">>, <<>>,
       [ventas |-> [operation |-> "subtract", inputs |-> <<"d_total", "d_price">>]], <<>>)}

-----------------------------------------------------------------------------
(* The grain: the territories of a customer are those of its addresses *)

GrainColumn ==
    MCColumn @@ [a_customer |-> C({"customer"}, "pk", 22), a_territory |-> C({"territory"}, "pk", 23),
                 t_territory |-> C({"territory"}, "pk", 24), t_name |-> C({"name"}, "text", 25)]

GrainTable ==
    MCTable @@ [address |-> T({"customer", "address"}, "address", <<"a_customer", "a_territory">>),
                territory |-> T({"territory"}, "territory", <<"t_territory", "t_name">>)]

GrainKeys ==
    MCForeignKeys \cup {K("address", "a_customer", "customer", "c_customer"),
                        K("address", "a_territory", "territory", "t_territory")}

GrainNeeds == [regions |-> {"sales", "territory"}]

AskedRegions == R("r7", "territory", "direct", {"territory"}, None, {"territory"}, "provider")

GrainAssessments == [regions |-> {{AskedSales, AskedRegions}}]

GrainSemantics == {<<Concept({"sales"}, <<"detail">>, "high"),
                     Concept({"territory"}, <<"territory">>, "high")>>}

GrainBlueprints ==
    {Blueprint(<<Revenue, Documents>>, <<D("dim_territorio", "territory"), D("dim_fecha", "header")>>,
               <<I("ventas_totales", {"sales", "total"}, "sales_amount", 1, "sum")>>)}
=============================================================================
