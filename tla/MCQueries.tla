------------------------------ MODULE MCQueries ------------------------------
(* A small timetable: times around midnight, stopovers of nothing and of   *)
(* more than a day, a ride of no time, sales of one and two days, equal    *)
(* times and prices; the names are ordered one way and the hashes another. *)
EXTENDS Queries

\* Stopovers at the first and the last stop are whatever was on the stack.
MCTrain(id, hash, stations, start, travel, stop, price, beg, end) ==
  [id |-> id, hash |-> hash, stations |-> stations, startTime |-> start,
   travelTime |-> Append(travel, 777), stopoverTime |-> <<333>> \o stop \o <<555>>, price |-> price,
   saleDate_beg |-> beg, saleDate_end |-> end, seatNum |-> 1]

MCCatalogue == {
  MCTrain(1, 40, <<"a", "b", "c">>, 1400, <<30, 20>>, <<10>>, <<5, 4>>, 152, 153),
  MCTrain(1, 40, <<"a", "c", "b">>, 600, <<60, 800>>, <<0>>, <<5, 4>>, 153, 153),
  MCTrain(2, 20, <<"b", "c", "d">>, 0, <<1450, 40>>, <<1440>>, <<3, 3>>, 152, 154),
  MCTrain(2, 20, <<"a", "b", "d">>, 1439, <<1, 1441>>, <<0>>, <<2, 7>>, 152, 154),
  MCTrain(3, 30, <<"c", "b", "d">>, 20, <<10, 1430>>, <<0>>, <<4, 2>>, 153, 154),
  MCTrain(3, 30, <<"a", "b", "c">>, 700, <<40, 10>>, <<10>>, <<4, 5>>, 152, 152),
  MCTrain(4, 10, <<"b", "d", "c", "a">>, 30, <<20, 700, 690>>, <<60, 0>>, <<1, 8, 2>>, 153, 155),
  MCTrain(4, 10, <<"a", "d", "c">>, 1439, <<1, 60>>, <<720>>, <<9, 1>>, 152, 153),
  MCTrain(4, 10, <<"b", "d", "c", "a">>, 1420, <<20, 0, 690>>, <<0, 0>>, <<1, 8, 2>>, 152, 154)
}
=============================================================================
