----------------------------- MODULE MCSalesMart -----------------------------
(* A small sales source for SalesMart: key 3 is key 2 with blanks around it. *)
EXTENDS SalesMart

MCDimensions == <<"dim_fecha", "dim_territorio">>
MCKeys == [dim_fecha |-> {1}, dim_territorio |-> {1, 2, 3}]
MCClean == [k \in 1 .. 3 |-> IF k = 3 THEN 2 ELSE k]

Row(id, ok, date, territory, sales, units, cost) ==
    [id |-> id, hasKey |-> ok, key |-> [dim_fecha |-> date, dim_territorio |-> territory],
     value |-> [ventas |-> sales, unidades |-> units, costo_total |-> cost,
                pedidos |-> IF id = 3 THEN 2 ELSE id]]

MCRows == {Row(1, TRUE, 1, 1, 6, 2, 4), Row(2, TRUE, 1, 2, 3, 0, Null),
           Row(3, TRUE, 1, 3, 5, 0, 1), Row(4, TRUE, Null, 1, 1, 1, 1),
           Row(5, FALSE, 1, 1, 1, 1, 1)}

MCMeasures == [ventas |-> [aggregation |-> "sum"], unidades |-> [aggregation |-> "sum"],
               costo_total |-> [aggregation |-> "sum"],
               pedidos |-> [aggregation |-> "count_distinct"]]

Kpi(code, kind, x, y) == [code |-> code, kind |-> kind, args |-> <<x, y>>]

\* What apply_financial_requirements adds for a margin, an alias of the cost, and a
\* price per unit next to an average and a sum of the sales.
Margin == <<Kpi("costo_total", "aggregate", "costo_total", "sum"),
            Kpi("costo", "aggregate", "costo_total", "sum"),
            Kpi("margen_bruto", "difference", "ventas", "costo_total"),
            Kpi("margen_porcentaje", "share", "margen_bruto", "ventas")>>
PerUnit == <<Kpi("promedio", "aggregate", "ventas", "average"),
             Kpi("total", "aggregate", "ventas", "sum"),
             Kpi("venta_por_unidad", "ratio", "ventas", "unidades")>>

\* An average per document over two measures, one of which is no sum and has a card.
PerDocument == <<Kpi("documentos", "aggregate", "pedidos", "count_distinct"),
                 Kpi("promedio_documento", "ratio", "ventas", "pedidos")>>

MCProposals == {Margin, PerUnit, PerDocument}
=============================================================================
