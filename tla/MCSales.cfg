CONSTANTS
  Calls = {c1, c2}
  cola = cola
  demo = demo
  Products <- MCProducts
  Malformed <- MCMalformed
  Carts <- MCCarts
  InitialStock <- MCInitialStock
SPECIFICATION Spec
INVARIANTS TypeOK OkMeansComplete StockIsAccountedFor
PROPERTIES SettledSalesStay ImplementsService
CHECK_DEADLOCK FALSE
